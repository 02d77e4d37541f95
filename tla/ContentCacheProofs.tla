------------------------- MODULE ContentCacheProofs -------------------------
(***************************************************************************)
(* What ContentCache keeps true for every number of locales, requests,     *)
(* writers and tables: its types, and that neither the cache nor an answer *)
(* misses a write whose clear has run.                                     *)
(***************************************************************************)
EXTENDS ContentCache, SequenceTheorems, TLAPS

\* The history only grows: what was cleared is committed, what a request
\* arrived after was cleared.
HistoryInv ==
  /\ \A t \in Tables : floor[t] <= Len(commits[t])
  /\ \A g \in Gets, t \in Tables : since[g][t] <= floor[t]

\* A cached document is whole and misses nothing that was cleared.
EntriesInv ==
  \A l \in Locales : entries[l] # NoEntry =>
    /\ Len(entries[l].doc) = NumTables
    /\ \A t \in Tables : entries[l].doc[t] >= floor[t]

\* A build whose generation is still current has read nothing older than the
\* last clear, and no build reads anything older than its request.
BuildsInv ==
  \A g \in Gets : pc[g] = "building" =>
    /\ seen[g] <= generation
    /\ \A t \in 1 .. Len(doc[g]) : doc[g][t] >= since[g][t]
    /\ seen[g] = generation => \A t \in 1 .. Len(doc[g]) : doc[g][t] >= floor[t]

\* Only the holder of its locale's lock builds.
LockInv == \A g \in Gets : pc[g] = "building" => Holds(g)

-------------------------------------------------------------------------------

\* Appending a query's version keeps what was read and its order.
LEMMA AppendKeeps ==
  ASSUME NEW S, NEW s \in Seq(S), NEW e \in S
  PROVE  /\ Append(s, e) \in Seq(S) /\ Append(s, e) # <<>>
         /\ Len(Append(s, e)) = Len(s) + 1
         /\ \A i \in 1 .. Len(s) : Append(s, e)[i] = s[i]
         /\ Append(s, e)[Len(s) + 1] = e
         /\ s # <<>> => Head(Append(s, e)) = Head(s)
<1>1. Append(s, e) \in Seq(S) /\ Len(Append(s, e)) = Len(s) + 1 /\ Len(s) \in Nat
  OBVIOUS
<1>2. Append(s, e) # <<>>
  BY <1>1, Len(<<>>) = 0
<1> QED BY <1>1, <1>2

\* Only a lock that has a holder is released.
LEMMA TailOfHeld ==
  ASSUME NEW S, NEW s \in Seq(S), s # <<>>
  PROVE  Tail(s) \in Seq(S)
OBVIOUS

\* The committed versions, as numbers.
LEMMA RowsType ==
  ASSUME commits \in [Tables -> Seq(Nat)]
  PROVE  Rows \in [Tables -> Nat]
BY DEF Rows

\* What is fresh is an entry.
LEMMA FreshIsCached ==
  ASSUME NEW l \in Locales, TypeOK, Fresh(l)
  PROVE  entries[l] # NoEntry
BY DEF TypeOK, Fresh, NoEntry

-------------------------------------------------------------------------------

\* A step keeps the types.  Which request holds a lock matters: only a lock
\* that is held is released.
LEMMA TypeStep == TypeOK /\ LockInv /\ [Next]_vars => TypeOK'
<1> SUFFICES ASSUME TypeOK, LockInv, [Next]_vars PROVE TypeOK'
  OBVIOUS
<1> USE DEF TypeOK, getVars, cacheVars
<1>a. Rows \in [Tables -> Nat]
  BY RowsType
<1>b. <<>> \in Doc /\ NoEntry \in [doc : Doc, expires : Nat, began : Nat]
  BY CacheAssumption DEF Doc, NoEntry
<1>c. \A g \in Gets : Holds(g) => Tail(queue[locale[g]]) \in Seq(Gets)
  BY TailOfHeld DEF Holds
<1>1. ASSUME NEW g \in Gets, NEW l \in Locales, Arrive(g, l) PROVE TypeOK'
  <2>1. Append(queue[l], g) \in Seq(Gets)
    BY AppendKeeps
  <2>2. floor \in [Tables -> Nat] /\ entries[l].doc \in Doc
    OBVIOUS
  <2>3. CASE Fresh(l)
    BY <1>1, <2>2, <2>3 DEF Arrive
  <2>4. CASE ~Fresh(l)
    <3>1. /\ queue' = [queue EXCEPT ![l] = Append(@, g)]
          /\ pc' = [pc EXCEPT ![g] = "waiting"] /\ doc' = doc
          /\ locale' = [locale EXCEPT ![g] = l]
          /\ since' = [since EXCEPT ![g] = floor]
          /\ UNCHANGED <<now, commits, entries, generation, seen, began, wpc, floor>>
      BY <1>1, <2>4 DEF Arrive
    <3> QED BY <2>1, <2>2, <3>1
  <2> QED BY <2>3, <2>4
<1>2. ASSUME NEW g \in Gets, AcquireHit(g) PROVE TypeOK'
  BY <1>2, <1>c DEF AcquireHit, Release
<1>3. ASSUME NEW g \in Gets, AcquireMiss(g) PROVE TypeOK'
  BY <1>3, <1>b DEF AcquireMiss
<1>4. ASSUME NEW g \in Gets, BuildQuery(g) PROVE TypeOK'
  <2>1. /\ doc[g] \in Seq(Nat) /\ Len(doc[g]) < NumTables
        /\ Rows[Len(doc[g]) + 1] \in Nat
    BY <1>4, <1>a, CacheAssumption DEF BuildQuery, Doc, Tables
  <2>2. Append(doc[g], Rows[Len(doc[g]) + 1]) \in Doc
    BY <2>1, AppendKeeps, CacheAssumption DEF Doc
  <2> QED BY <1>4, <2>2 DEF BuildQuery
<1>5. ASSUME NEW g \in Gets, BuildDone(g) PROVE TypeOK'
  <2>1. Holds(g)
    BY <1>5 DEF BuildDone, LockInv
  <2>2. queue' \in [Locales -> Seq(Gets)]
    BY <1>5, <1>c, <2>1 DEF BuildDone, Release
  <2>3. entries' \in [Locales -> [doc : Doc, expires : Nat, began : Nat]]
    BY <1>5, CacheAssumption DEF BuildDone
  <2> QED BY <1>5, <2>2, <2>3 DEF BuildDone, ForgetBuild
<1>6. ASSUME NEW g \in Gets, BuildFails(g) PROVE TypeOK'
  <2>1. Holds(g)
    BY <1>6 DEF BuildFails, LockInv
  <2> QED BY <1>6, <1>c, <2>1 DEF BuildFails, Release, ForgetBuild
<1>7. ASSUME NEW g \in Gets, Finish(g) PROVE TypeOK'
  BY <1>7, <1>b DEF Finish
<1>8. ASSUME NEW w \in Writers, NEW t \in Tables, Commit(w, t) PROVE TypeOK'
  BY <1>8, AppendKeeps DEF Commit, CommitTo
<1>9. ASSUME NEW w \in Writers,
             Reply(w) \/ Clear(w) \/ HandlerFails(w) \/ FailureSent(w)
      PROVE  TypeOK'
  <2>1. wpc' \in [Writers -> {"idle", "committed", "replied", "failed"}]
    BY <1>9 DEF Reply, Clear, HandlerFails, FailureSent
  <2>2. CASE Clear(w)
    BY <1>a, <1>b, <2>1, <2>2 DEF Clear
  <2>3. CASE UNCHANGED <<now, commits, getVars, cacheVars>>
    BY <2>1, <2>3
  <2> QED BY <1>9, <2>2, <2>3 DEF Reply, HandlerFails, FailureSent
<1>10. ASSUME NEW t \in Tables, SeedWrite(t) PROVE TypeOK'
  BY <1>10, AppendKeeps DEF SeedWrite, CommitTo
<1>11. CASE Tick
  BY <1>11 DEF Tick
<1>12. CASE Restart
  BY <1>12, <1>a, <1>b DEF Restart
<1>13. CASE UNCHANGED vars
  BY <1>13 DEF vars
<1> QED
  BY <1>1, <1>2, <1>3, <1>4, <1>5, <1>6, <1>7, <1>8, <1>9, <1>10, <1>11,
     <1>12, <1>13 DEF Next, GetNext, GetStep, WriterNext

\* A step leaves every build with its lock: requests queue behind the holder
\* and only the holder leaves.
LEMMA LockStep == TypeOK /\ LockInv /\ [Next]_vars => LockInv'
<1> SUFFICES ASSUME TypeOK, LockInv, [Next]_vars,
                    NEW h \in Gets, pc'[h] = "building"
             PROVE  Holds(h)'
  BY DEF LockInv
<1> USE DEF getVars, cacheVars, LockInv
<1>a. /\ queue \in [Locales -> Seq(Gets)] /\ locale \in [Gets -> Locales]
      /\ pc \in [Gets -> {"idle", "waiting", "building", "answered", "failed"}]
  BY DEF TypeOK
<1>b. CASE UNCHANGED <<queue, pc, locale>>
  BY <1>b DEF Holds
<1>1. ASSUME NEW g \in Gets, NEW l \in Locales, Arrive(g, l) PROVE Holds(h)'
  <2>1. h # g /\ pc[h] = "building" /\ locale'[h] = locale[h]
    BY <1>1, <1>a DEF Arrive
  <2>2. Holds(h)
    BY <2>1
  <2>3. CASE queue' = queue
    BY <2>1, <2>2, <2>3 DEF Holds
  <2>4. CASE queue' = [queue EXCEPT ![l] = Append(@, g)]
    <3>1. /\ Append(queue[l], g) # <<>>
          /\ queue[l] # <<>> => Head(Append(queue[l], g)) = Head(queue[l])
      BY <1>a, AppendKeeps, SMTT(30)
    <3>2. queue[locale[h]] # <<>> /\ Head(queue[locale[h]]) = h
      BY <2>2 DEF Holds
    <3>3. locale[h] \in Locales
      BY <1>a
    <3>4. CASE locale[h] = l
      <4>1. queue'[l] = Append(queue[l], g)
        BY <1>a, <2>4
      <4> QED BY <2>1, <3>1, <3>2, <3>4, <4>1 DEF Holds
    <3>5. CASE locale[h] # l
      <4>1. queue'[locale[h]] = queue[locale[h]]
        BY <1>a, <2>4, <3>3, <3>5
      <4> QED BY <2>1, <3>2, <4>1 DEF Holds
    <3> QED BY <3>4, <3>5
  <2> QED BY <1>1, <2>3, <2>4 DEF Arrive
<1>2. ASSUME NEW g \in Gets, AcquireHit(g) \/ BuildDone(g) \/ BuildFails(g)
      PROVE  Holds(h)'
  <2>1. /\ h # g /\ pc[h] = "building" /\ locale' = locale
        /\ queue' = [queue EXCEPT ![locale[g]] = Tail(@)]
    BY <1>2, <1>a DEF AcquireHit, BuildDone, BuildFails, Release
  <2>2. Holds(h) /\ Holds(g)
    BY <1>2, <2>1 DEF AcquireHit, BuildDone, BuildFails
  <2>3. locale[h] # locale[g]
    BY <2>1, <2>2 DEF Holds
  <2> QED BY <1>a, <2>1, <2>2, <2>3 DEF Holds
<1>3. ASSUME NEW g \in Gets, AcquireMiss(g) PROVE Holds(h)'
  BY <1>3, <1>a DEF AcquireMiss, Holds
<1>4. ASSUME NEW g \in Gets, BuildQuery(g) PROVE Holds(h)'
  BY <1>4 DEF BuildQuery, Holds
<1>5. ASSUME NEW g \in Gets, Finish(g) PROVE Holds(h)'
  BY <1>5, <1>a DEF Finish, Holds
<1>6. CASE Restart
  BY <1>6 DEF Restart
<1>7. CASE WriterNext \/ Tick \/ (\E t \in Tables : SeedWrite(t)) \/ UNCHANGED vars
  BY <1>b, <1>7 DEF WriterNext, Commit, Reply, Clear, HandlerFails, FailureSent,
     Tick, SeedWrite, vars
<1> QED
  BY <1>1, <1>2, <1>3, <1>4, <1>5, <1>6, <1>7 DEF Next, GetNext, GetStep

\* Every variable of the cache and of its requests keeps its type, and a build
\* holds its locale's lock from its first query to its last.
THEOREM TypeCorrect == Spec => [](TypeOK /\ LockInv)
<1>1. Init => TypeOK /\ LockInv
  BY CacheAssumption DEF Init, TypeOK, LockInv, NoEntry, Tables, Doc
<1>2. TypeOK /\ LockInv /\ [Next]_vars => TypeOK' /\ LockInv'
  BY TypeStep, LockStep
<1>3. QED BY <1>1, <1>2, PTL DEF Spec

\* ContentCache.get's per-locale lock: however many requests miss a locale, one
\* of them builds its document.
THEOREM SingleBuild == Spec => []OneBuildPerLocale
<1>1. TypeOK /\ LockInv => OneBuildPerLocale
  BY DEF LockInv, OneBuildPerLocale, Holds
<1>2. QED BY <1>1, TypeCorrect, PTL

-------------------------------------------------------------------------------

\* The strengthening of CacheAfterClear and AnswerSinceArrival that every step
\* keeps.
IInv == HistoryInv /\ EntriesInv /\ BuildsInv /\ AnswerSinceArrival

\* A request's arrival keeps it: what was fresh is at least the last clear.
LEMMA ArriveKeeps ==
  ASSUME TypeOK, IInv, NEW g \in Gets, NEW l \in Locales, Arrive(g, l)
  PROVE  IInv'
<1> USE DEF TypeOK, getVars, cacheVars
<1>1. HistoryInv' /\ EntriesInv' /\ BuildsInv'
  <2>1. since'[g] = floor /\ \A h \in Gets \ {g} : since'[h] = since[h]
    BY DEF Arrive
  <2>2. HistoryInv'
    BY <2>1 DEF IInv, HistoryInv, Arrive
  <2>3. EntriesInv'
    BY DEF IInv, EntriesInv, Arrive
  <2>4. \A h \in Gets : pc'[h] = "building" =>
          h # g /\ pc[h] = "building" /\ doc'[h] = doc[h] /\ since'[h] = since[h]
    BY <2>1 DEF Arrive
  <2>5. BuildsInv'
    BY <2>4 DEF IInv, BuildsInv, Arrive
  <2> QED BY <2>2, <2>3, <2>5
<1>2. AnswerSinceArrival'
  <2>1. \A h \in Gets \ {g} : pc'[h] = pc[h] /\ doc'[h] = doc[h] /\ since'[h] = since[h]
    BY DEF Arrive
  <2>2. pc'[g] = "answered" =>
          Fresh(l) /\ doc'[g] = entries[l].doc /\ since'[g] = floor
    BY DEF Arrive
  <2>3. pc'[g] = "answered" =>
          Len(doc'[g]) = NumTables /\ \A t \in Tables : doc'[g][t] >= since'[g][t]
    BY <2>2, FreshIsCached DEF IInv, EntriesInv
  <2> QED BY <2>1, <2>3 DEF IInv, AnswerSinceArrival
<1> QED BY <1>1, <1>2 DEF IInv

\* The lock's next holder finds a document that covers what it arrived after.
LEMMA AcquireKeeps ==
  ASSUME TypeOK, IInv, NEW g \in Gets, AcquireHit(g) \/ AcquireMiss(g)
  PROVE  IInv'
<1> USE DEF TypeOK, getVars, cacheVars
<1>1. UNCHANGED <<commits, entries, generation, floor, since, locale>>
  BY DEF AcquireHit, AcquireMiss
<1>2. HistoryInv' /\ EntriesInv'
  BY <1>1 DEF IInv, HistoryInv, EntriesInv
<1>3. CASE AcquireHit(g)
  <2>1. Fresh(locale[g]) /\ doc'[g] = entries[locale[g]].doc /\ pc'[g] = "answered"
    BY <1>3 DEF AcquireHit
  <2>2. \A h \in Gets \ {g} : pc'[h] = pc[h] /\ doc'[h] = doc[h] /\ seen'[h] = seen[h]
    BY <1>3 DEF AcquireHit
  <2>3. /\ Len(doc'[g]) = NumTables
        /\ \A t \in Tables : doc'[g][t] >= floor[t] /\ floor[t] >= since[g][t]
    BY <2>1, FreshIsCached DEF IInv, EntriesInv, HistoryInv
  <2>4. /\ \A t \in Tables : doc'[g][t] \in Nat
        /\ floor \in [Tables -> Nat] /\ since[g] \in [Tables -> Nat]
    BY <2>1, <2>3, SMTT(30) DEF Tables, Doc
  <2>5. \A t \in Tables : doc'[g][t] >= since[g][t]
    BY <2>3, <2>4
  <2>6. ASSUME NEW h \in Gets, pc'[h] = "building"
        PROVE  h # g /\ pc[h] = "building" /\ doc'[h] = doc[h] /\ seen'[h] = seen[h]
    BY <2>1, <2>2, <2>6
  <2>8. BuildsInv'
    BY <1>1, <2>6 DEF IInv, BuildsInv
  <2>7. ASSUME NEW h \in Gets, pc'[h] = "answered"
        PROVE  Len(doc'[h]) = NumTables /\ \A t \in Tables : doc'[h][t] >= since[h][t]
    <3>1. CASE h = g
      BY <2>3, <2>5, <3>1
    <3>2. CASE h # g
      BY <2>2, <2>7, <3>2 DEF IInv, AnswerSinceArrival
    <3> QED BY <3>1, <3>2
  <2>9. AnswerSinceArrival'
    BY <1>1, <2>7 DEF AnswerSinceArrival
  <2> QED BY <1>2, <2>8, <2>9 DEF IInv
<1>4. CASE AcquireMiss(g)
  <2>1. doc'[g] = <<>> /\ pc'[g] = "building" /\ seen'[g] = generation
    BY <1>4 DEF AcquireMiss
  <2>2. \A h \in Gets \ {g} : pc'[h] = pc[h] /\ doc'[h] = doc[h] /\ seen'[h] = seen[h]
    BY <1>4 DEF AcquireMiss
  <2>3. Len(<<>>) = 0
    OBVIOUS
  <2>4. ASSUME NEW h \in Gets, pc'[h] = "building"
        PROVE  /\ seen'[h] <= generation
               /\ \A t \in 1 .. Len(doc'[h]) : doc'[h][t] >= since[h][t]
               /\ seen'[h] = generation => \A t \in 1 .. Len(doc'[h]) : doc'[h][t] >= floor[t]
    <3>1. CASE h = g
      BY <2>1, <2>3, <3>1
    <3>2. CASE h # g
      BY <2>2, <2>4, <3>2 DEF IInv, BuildsInv
    <3> QED BY <3>1, <3>2
  <2>6. BuildsInv'
    BY <1>1, <2>4 DEF BuildsInv
  <2>5. AnswerSinceArrival'
    BY <1>1, <2>1, <2>2 DEF IInv, AnswerSinceArrival
  <2> QED BY <1>2, <2>5, <2>6 DEF IInv
<1> QED BY <1>3, <1>4

\* A query reads the committed version, which no clear and no request is past.
LEMMA QueryKeeps ==
  ASSUME TypeOK, IInv, NEW g \in Gets, BuildQuery(g)
  PROVE  IInv'
<1> DEFINE v == Rows[Len(doc[g]) + 1]
<1>1. /\ UNCHANGED <<commits, entries, generation, floor, since, seen, pc>>
      /\ pc[g] = "building"
      /\ doc' = [doc EXCEPT ![g] = Append(@, v)]
  BY DEF BuildQuery, cacheVars
<1>2. HistoryInv' /\ EntriesInv'
  BY <1>1 DEF IInv, HistoryInv, EntriesInv
<1>3. /\ doc[g] \in Seq(Nat) /\ Len(doc[g]) \in Nat
      /\ Len(doc[g]) + 1 \in Tables
  BY CacheAssumption, SMTT(30) DEF TypeOK, BuildQuery, Doc, Tables
<1>4. /\ v \in Nat
      /\ v >= floor[Len(doc[g]) + 1] /\ v >= since[g][Len(doc[g]) + 1]
  <2>1. /\ commits[Len(doc[g]) + 1] \in Seq(Nat)
        /\ floor \in [Tables -> Nat] /\ since[g] \in [Tables -> Nat]
    BY <1>3 DEF TypeOK
  <2>2. v = Len(commits[Len(doc[g]) + 1]) /\ v \in Nat
    BY <1>3, <2>1 DEF Rows
  <2> QED BY <1>3, <2>1, <2>2 DEF IInv, HistoryInv
<1>5. /\ Len(doc'[g]) = Len(doc[g]) + 1 /\ doc'[g][Len(doc[g]) + 1] = v
      /\ \A t \in 1 .. Len(doc[g]) : doc'[g][t] = doc[g][t]
  BY <1>1, <1>3, <1>4, AppendKeeps DEF TypeOK
<1>6. ASSUME NEW h \in Gets, pc[h] = "building"
      PROVE  /\ seen[h] <= generation
             /\ \A t \in 1 .. Len(doc'[h]) : doc'[h][t] >= since[h][t]
             /\ seen[h] = generation => \A t \in 1 .. Len(doc'[h]) : doc'[h][t] >= floor[t]
  <2>1. CASE h = g
    <3>1. \A t \in 1 .. Len(doc'[g]) : t \in 1 .. Len(doc[g]) \/ t = Len(doc[g]) + 1
      BY <1>3, <1>5
    <3> QED BY <1>1, <1>4, <1>5, <2>1, <3>1 DEF IInv, BuildsInv
  <2>2. CASE h # g
    <3>1. doc'[h] = doc[h]
      BY <1>1, <2>2 DEF TypeOK
    <3> QED BY <1>6, <3>1 DEF IInv, BuildsInv
  <2> QED BY <2>1, <2>2
<1>7. BuildsInv'
  BY <1>1, <1>6 DEF BuildsInv
<1>8. \A h \in Gets : pc[h] = "answered" => doc'[h] = doc[h]
  BY <1>1 DEF TypeOK
<1>9. AnswerSinceArrival'
  BY <1>1, <1>8 DEF IInv, AnswerSinceArrival
<1> QED BY <1>2, <1>7, <1>9 DEF IInv

\* A build that ends is kept only when its generation is current: then it is at
\* least the last clear.
LEMMA DoneKeeps ==
  ASSUME TypeOK, IInv, NEW g \in Gets, BuildDone(g)
  PROVE  IInv'
<1>1. /\ UNCHANGED <<commits, generation, floor, since, doc>>
      /\ pc[g] = "building" /\ Len(doc[g]) = NumTables
      /\ pc' = [pc EXCEPT ![g] = "answered"]
      /\ seen' = [seen EXCEPT ![g] = 0]
  BY DEF BuildDone, ForgetBuild
<1>2. HistoryInv'
  BY <1>1 DEF IInv, HistoryInv
<1>3. seen[g] = generation => \A t \in Tables : doc[g][t] >= floor[t]
  BY <1>1 DEF IInv, BuildsInv, Tables
<1>4. EntriesInv'
  <2>1. CASE seen[g] = generation
    <3>1. entries' = [entries EXCEPT ![locale[g]] =
                        [doc |-> doc[g], expires |-> now + TTL, began |-> began[g]]]
      BY <2>1 DEF BuildDone
    <3>2. ASSUME NEW l \in Locales, entries'[l] # NoEntry
          PROVE  /\ Len(entries'[l].doc) = NumTables
                 /\ \A t \in Tables : entries'[l].doc[t] >= floor[t]
      <4>1. CASE l = locale[g]
        BY <1>1, <1>3, <2>1, <3>1, <4>1 DEF TypeOK
      <4>2. CASE l # locale[g]
        BY <3>1, <3>2, <4>2 DEF TypeOK, IInv, EntriesInv
      <4> QED BY <4>1, <4>2
    <3> QED BY <1>1, <3>2 DEF EntriesInv
  <2>2. CASE seen[g] # generation
    BY <1>1, <2>2 DEF BuildDone, IInv, EntriesInv
  <2> QED BY <2>1, <2>2
<1>5. \A h \in Gets \ {g} : pc'[h] = pc[h] /\ seen'[h] = seen[h]
  BY <1>1 DEF TypeOK
<1>6. pc'[g] = "answered"
  BY <1>1 DEF TypeOK
<1>7. BuildsInv'
  BY <1>1, <1>5, <1>6 DEF IInv, BuildsInv
<1>8. AnswerSinceArrival'
  <2>1. \A t \in Tables : doc[g][t] >= since[g][t]
    BY <1>1 DEF IInv, BuildsInv, Tables
  <2> QED BY <1>1, <1>5, <2>1 DEF IInv, AnswerSinceArrival
<1> QED BY <1>2, <1>4, <1>7, <1>8 DEF IInv

\* A failed build and an answer that was sent leave nothing behind.
LEMMA EndKeeps ==
  ASSUME TypeOK, IInv, NEW g \in Gets, BuildFails(g) \/ Finish(g)
  PROVE  IInv'
<1>1. UNCHANGED <<commits, entries, generation, floor>>
  BY DEF BuildFails, Finish, cacheVars
<1>2. pc' = [pc EXCEPT ![g] = "failed"] \/ pc' = [pc EXCEPT ![g] = "idle"]
  BY DEF BuildFails, Finish
<1>3. \A h \in Gets \ {g} :
        pc'[h] = pc[h] /\ doc'[h] = doc[h] /\ seen'[h] = seen[h] /\ since'[h] = since[h]
  BY DEF TypeOK, BuildFails, Finish, ForgetBuild
<1>4. pc'[g] \notin {"building", "answered"}
  BY <1>2 DEF TypeOK
<1>5. since'[g] = since[g] \/ since'[g] = [t \in Tables |-> 0]
  BY DEF TypeOK, BuildFails, Finish
<1>6. HistoryInv'
  <2>1. ASSUME NEW h \in Gets, NEW t \in Tables PROVE since'[h][t] <= floor[t]
    <3>1. since[h][t] <= floor[t] /\ floor[t] \in Nat
      BY DEF IInv, HistoryInv, TypeOK
    <3> QED BY <1>3, <1>5, <3>1
  <2> QED BY <1>1, <2>1 DEF IInv, HistoryInv
<1>7. EntriesInv' /\ BuildsInv' /\ AnswerSinceArrival'
  BY <1>1, <1>3, <1>4 DEF IInv, EntriesInv, BuildsInv, AnswerSinceArrival
<1> QED BY <1>6, <1>7 DEF IInv

\* A commit only adds versions.
LEMMA CommitKeeps ==
  ASSUME TypeOK, IInv, NEW t \in Tables, CommitTo(t), UNCHANGED <<getVars, cacheVars>>
  PROVE  IInv'
<1>1. \A u \in Tables : Len(commits'[u]) >= Len(commits[u])
  <2>1. /\ commits[t] \in Seq(Nat) /\ now \in Nat
        /\ commits' = [commits EXCEPT ![t] = Append(@, now)]
    BY DEF TypeOK, CommitTo
  <2>2. Len(Append(commits[t], now)) = Len(commits[t]) + 1 /\ Len(commits[t]) \in Nat
    BY <2>1, AppendKeeps
  <2>3. ASSUME NEW u \in Tables PROVE Len(commits'[u]) >= Len(commits[u])
    <3>1. commits[u] \in Seq(Nat) /\ Len(commits[u]) \in Nat
      BY DEF TypeOK
    <3> QED BY <2>1, <2>2, <3>1 DEF TypeOK
  <2> QED BY <2>3
<1>2. /\ floor' = floor /\ since' = since /\ pc' = pc /\ doc' = doc /\ seen' = seen
      /\ entries' = entries /\ generation' = generation
  BY DEF getVars, cacheVars
<1>3. HistoryInv'
  <2>1. ASSUME NEW u \in Tables PROVE floor[u] <= Len(commits'[u])
    <3>1. commits'[u] \in Seq(Nat) /\ commits[u] \in Seq(Nat) /\ floor[u] \in Nat
      BY AppendKeeps DEF TypeOK, CommitTo
    <3>2. Len(commits'[u]) \in Nat /\ Len(commits[u]) \in Nat
      BY <3>1
    <3> QED BY <1>1, <3>1, <3>2 DEF IInv, HistoryInv
  <2> QED BY <1>2, <2>1 DEF IInv, HistoryInv
<1>4. EntriesInv' /\ BuildsInv' /\ AnswerSinceArrival'
  BY <1>2 DEF IInv, EntriesInv, BuildsInv, AnswerSinceArrival
<1> QED BY <1>3, <1>4 DEF IInv

\* A clear moves the floor up to what is committed, drops every entry and leaves
\* every build with a generation that is no longer current.
LEMMA ClearKeeps ==
  ASSUME TypeOK, IInv, NEW w \in Writers, Clear(w)
  PROVE  IInv'
<1>1. /\ floor' = Rows /\ generation' = generation + 1
      /\ entries' = [l \in Locales |-> NoEntry]
      /\ UNCHANGED <<commits, pc, doc, seen, since>>
  BY DEF Clear, getVars
<1>2. \A t \in Tables : Rows[t] = Len(commits[t]) /\ Rows[t] \in Nat
  BY RowsType DEF Rows, TypeOK
<1>3. HistoryInv'
  <2>1. ASSUME NEW g \in Gets, NEW t \in Tables PROVE since[g][t] <= Rows[t]
    <3>1. since[g][t] \in Nat /\ floor[t] \in Nat
      BY DEF TypeOK
    <3> QED BY <1>2, <3>1 DEF IInv, HistoryInv
  <2> QED BY <1>1, <1>2, <2>1 DEF HistoryInv
<1>4. EntriesInv'
  BY <1>1 DEF EntriesInv
<1>5. ASSUME NEW g \in Gets, pc[g] = "building"
      PROVE  /\ seen[g] <= generation + 1 /\ seen[g] # generation + 1
             /\ \A t \in 1 .. Len(doc[g]) : doc[g][t] >= since[g][t]
  BY <1>5 DEF TypeOK, IInv, BuildsInv
<1>6. BuildsInv'
  BY <1>1, <1>5 DEF BuildsInv
<1>7. AnswerSinceArrival'
  BY <1>1 DEF IInv, AnswerSinceArrival
<1> QED BY <1>3, <1>4, <1>6, <1>7 DEF IInv

\* A restart forgets every entry and every request.
LEMMA RestartKeeps ==
  ASSUME TypeOK, Restart
  PROVE  IInv'
<1>1. /\ floor' = Rows /\ commits' = commits
      /\ entries' = [l \in Locales |-> NoEntry]
      /\ pc' = [g \in Gets |-> "idle"]
      /\ since' = [g \in Gets |-> [t \in Tables |-> 0]]
  BY DEF Restart
<1>2. \A t \in Tables : Rows[t] = Len(commits[t]) /\ Rows[t] \in Nat
  BY RowsType DEF Rows, TypeOK
<1> QED
  BY <1>1, <1>2 DEF IInv, HistoryInv, EntriesInv, BuildsInv, AnswerSinceArrival

\* Neither the cache nor any answer misses a write whose clear has run.
LEMMA InvStep == TypeOK /\ IInv /\ [Next]_vars => IInv'
<1> SUFFICES ASSUME TypeOK, IInv, [Next]_vars PROVE IInv'
  OBVIOUS
<1>1. CASE GetNext
  BY <1>1, ArriveKeeps, AcquireKeeps, QueryKeeps, DoneKeeps, EndKeeps DEF GetNext, GetStep
<1>2. ASSUME NEW w \in Writers, NEW t \in Tables, Commit(w, t) PROVE IInv'
  BY <1>2, CommitKeeps DEF Commit
<1>3. ASSUME NEW t \in Tables, SeedWrite(t) PROVE IInv'
  BY <1>3, CommitKeeps DEF SeedWrite
<1>4. ASSUME NEW w \in Writers, Clear(w) PROVE IInv'
  BY <1>4, ClearKeeps
<1>5. CASE Restart
  BY <1>5, RestartKeeps
<1>6. CASE UNCHANGED <<commits, getVars, cacheVars>>
  BY <1>6 DEF IInv, HistoryInv, EntriesInv, BuildsInv, AnswerSinceArrival, getVars, cacheVars
<1>7. ASSUME NEW w \in Writers, Reply(w) \/ HandlerFails(w) \/ FailureSent(w) PROVE IInv'
  BY <1>6, <1>7 DEF Reply, HandlerFails, FailureSent
<1>8. CASE Tick \/ UNCHANGED vars
  BY <1>6, <1>8 DEF Tick, vars, getVars, cacheVars
<1> QED BY <1>1, <1>2, <1>3, <1>4, <1>5, <1>7, <1>8 DEF Next, WriterNext

LEMMA InvCorrect == Spec => []IInv
<1>1. Init => IInv
  BY CacheAssumption DEF Init, IInv, HistoryInv, EntriesInv, BuildsInv, AnswerSinceArrival, Tables
<1>2. QED BY <1>1, InvStep, TypeCorrect, PTL DEF Spec

\* The generation counter of ContentCache does its work: a document built while
\* a write was cleared is never kept.
THEOREM CacheCorrect == Spec => []CacheAfterClear
<1>1. TypeOK /\ IInv => CacheAfterClear
  <2> SUFFICES ASSUME TypeOK, IInv, NEW l \in Locales, NEW t \in 1 .. Len(entries[l].doc)
               PROVE  entries[l].doc[t] >= floor[t]
    BY DEF CacheAfterClear
  <2>1. CASE entries[l] = NoEntry
    BY <2>1, Len(<<>>) = 0 DEF NoEntry
  <2>2. CASE entries[l] # NoEntry
    BY <2>2 DEF IInv, EntriesInv, Tables
  <2> QED BY <2>1, <2>2
<1>2. QED BY <1>1, TypeCorrect, InvCorrect, PTL

\* A visitor whose request arrives after a write was cleared sees that write.
THEOREM AnswersCorrect == Spec => []AnswerSinceArrival
<1>1. IInv => AnswerSinceArrival
  BY DEF IInv
<1>2. QED BY <1>1, InvCorrect, PTL

-------------------------------------------------------------------------------
(* How old an answer may be                                                 *)

\* What document d lacks of the commits c was committed at time b or later.
NoOlder(c, d, b) ==
  \A t \in 1 .. Len(d) :
    d[t] <= Len(c[t]) /\ (d[t] < Len(c[t]) => b <= c[t][d[t] + 1])

\* A document, being built or cached, lacks nothing that was committed before
\* its build began.
AgeInv ==
  /\ \A g \in Gets : pc[g] = "building" =>
       began[g] <= now /\ NoOlder(commits, doc[g], began[g])
  /\ \A l \in Locales : entries[l] # NoEntry =>
       entries[l].began <= now /\ NoOlder(commits, entries[l].doc, entries[l].began)

\* A commit comes after the beginning of every build.
LEMMA CommitNoOlder ==
  ASSUME NEW c \in [Tables -> Seq(Nat)], NEW u \in Tables, NEW time \in Nat,
         NEW d \in Doc, NEW b \in Nat, b <= time, NoOlder(c, d, b)
  PROVE  NoOlder([c EXCEPT ![u] = Append(@, time)], d, b)
<1> DEFINE e == [c EXCEPT ![u] = Append(@, time)]
<1>1. ASSUME NEW t \in 1 .. Len(d)
      PROVE  d[t] <= Len(e[t]) /\ (d[t] < Len(e[t]) => b <= e[t][d[t] + 1])
  <2>1. /\ t \in Tables /\ d[t] \in Nat /\ c[t] \in Seq(Nat) /\ Len(c[t]) \in Nat
        /\ d[t] <= Len(c[t]) /\ (d[t] < Len(c[t]) => b <= c[t][d[t] + 1])
    BY CacheAssumption DEF Doc, Tables, NoOlder
  <2>2. CASE t # u
    BY <2>1, <2>2
  <2>3. CASE t = u
    <3>1. /\ e[t] = Append(c[t], time) /\ Len(e[t]) = Len(c[t]) + 1
          /\ \A i \in 1 .. Len(c[t]) : e[t][i] = c[t][i]
          /\ e[t][Len(c[t]) + 1] = time
      BY <2>1, <2>3, AppendKeeps
    <3>2. CASE d[t] = Len(c[t])
      BY <2>1, <3>1, <3>2
    <3>3. CASE d[t] < Len(c[t])
      <4>1. d[t] + 1 \in 1 .. Len(c[t])
        BY <2>1, <3>3
      <4> QED BY <2>1, <3>1, <3>3, <4>1
    <3> QED BY <2>1, <3>2, <3>3
  <2> QED BY <2>2, <2>3
<1> QED BY <1>1 DEF NoOlder

\* An empty document lacks nothing yet.
LEMMA EmptyNoOlder ==
  ASSUME NEW c, NEW b
  PROVE  NoOlder(c, <<>>, b)
BY Len(<<>>) = 0 DEF NoOlder

\* A query reads all that is committed by then.
LEMMA QueryNoOlder ==
  ASSUME NEW c \in [Tables -> Seq(Nat)], NEW d \in Doc, NEW b, Len(d) < NumTables,
         NoOlder(c, d, b)
  PROVE  NoOlder(c, Append(d, Len(c[Len(d) + 1])), b)
<1> DEFINE v == Len(c[Len(d) + 1])
           e == Append(d, v)
<1>1. Len(d) \in Nat /\ Len(d) + 1 \in Tables /\ d \in Seq(Nat)
  BY CacheAssumption DEF Doc, Tables
<1>2. v \in Nat
  BY <1>1
<1> HIDE DEF v
<1>3. /\ Len(e) = Len(d) + 1 /\ e[Len(d) + 1] = v
      /\ \A i \in 1 .. Len(d) : e[i] = d[i]
  BY <1>1, <1>2, AppendKeeps
<1> HIDE DEF e
<1>4. ASSUME NEW t \in 1 .. Len(e)
      PROVE  e[t] <= Len(c[t]) /\ (e[t] < Len(c[t]) => b <= c[t][e[t] + 1])
  <2>1. CASE t \in 1 .. Len(d)
    BY <1>3, <2>1 DEF NoOlder
  <2>2. CASE t = Len(d) + 1
    <3>1. e[t] = Len(c[t])
      BY <1>3, <2>2 DEF v
    <3> QED BY <1>2, <1>3, <2>2, <3>1
  <2> QED BY <1>1, <1>3, <2>1, <2>2
<1> QED BY <1>4 DEF NoOlder, e, v

LEMMA AgeStep == TypeOK /\ AgeInv /\ [Next]_vars => AgeInv'
<1> SUFFICES ASSUME TypeOK, AgeInv, [Next]_vars PROVE AgeInv'
  OBVIOUS
<1> USE DEF getVars, cacheVars
<1>a. /\ commits \in [Tables -> Seq(Nat)] /\ now \in Nat
      /\ pc \in [Gets -> {"idle", "waiting", "building", "answered", "failed"}]
      /\ doc \in [Gets -> Doc] /\ began \in [Gets -> Nat] /\ locale \in [Gets -> Locales]
      /\ entries \in [Locales -> [doc : Doc, expires : Nat, began : Nat]]
  BY DEF TypeOK
<1>b. ASSUME UNCHANGED <<now, commits, entries>>,
             \A g \in Gets : pc'[g] = "building" =>
               pc[g] = "building" /\ doc'[g] = doc[g] /\ began'[g] = began[g]
      PROVE  AgeInv'
  BY <1>b DEF AgeInv
<1>1. ASSUME NEW g \in Gets, NEW l \in Locales, Arrive(g, l) PROVE AgeInv'
  BY <1>a, <1>b, <1>1 DEF Arrive
<1>2. ASSUME NEW g \in Gets, AcquireHit(g) \/ BuildFails(g) \/ Finish(g) PROVE AgeInv'
  BY <1>a, <1>b, <1>2 DEF AcquireHit, BuildFails, ForgetBuild, Finish
<1>3. ASSUME NEW g \in Gets, AcquireMiss(g) PROVE AgeInv'
  <2>1. /\ UNCHANGED <<now, commits, entries>>
        /\ doc'[g] = <<>> /\ began'[g] = now
        /\ \A h \in Gets \ {g} : pc'[h] = pc[h] /\ doc'[h] = doc[h] /\ began'[h] = began[h]
    BY <1>a, <1>3 DEF AcquireMiss
  <2>2. began'[g] <= now /\ NoOlder(commits, doc'[g], began'[g])
    BY <1>a, <2>1, EmptyNoOlder
  <2> QED BY <2>1, <2>2 DEF AgeInv
<1>4. ASSUME NEW g \in Gets, BuildQuery(g) PROVE AgeInv'
  <2>1. /\ UNCHANGED <<now, commits, entries, began, pc>> /\ pc[g] = "building"
        /\ Len(doc[g]) < NumTables
        /\ doc'[g] = Append(doc[g], Rows[Len(doc[g]) + 1])
        /\ \A h \in Gets \ {g} : doc'[h] = doc[h]
    BY <1>a, <1>4 DEF BuildQuery
  <2>2. Rows[Len(doc[g]) + 1] = Len(commits[Len(doc[g]) + 1])
    BY <1>a, <2>1, CacheAssumption DEF Rows, Tables, Doc
  <2>3. NoOlder(commits, doc'[g], began[g])
    BY <1>a, <2>1, <2>2, QueryNoOlder, SMTT(30) DEF AgeInv
  <2> QED BY <2>1, <2>3 DEF AgeInv
<1>5. ASSUME NEW g \in Gets, BuildDone(g) PROVE AgeInv'
  <2>1. /\ UNCHANGED <<now, commits, doc>> /\ pc[g] = "building" /\ pc'[g] = "answered"
        /\ \A h \in Gets \ {g} : pc'[h] = pc[h] /\ began'[h] = began[h]
    BY <1>a, <1>5 DEF BuildDone, ForgetBuild
  <2>2. \/ entries' = entries
        \/ entries' = [entries EXCEPT ![locale[g]] =
                         [doc |-> doc[g], expires |-> now + TTL, began |-> began[g]]]
    BY <1>5 DEF BuildDone
  <2>3. ASSUME NEW l \in Locales, entries'[l] # NoEntry
        PROVE  entries'[l].began <= now /\ NoOlder(commits, entries'[l].doc, entries'[l].began)
    <3>1. CASE entries'[l] = entries[l]
      BY <2>3, <3>1 DEF AgeInv
    <3>2. CASE entries'[l] = [doc |-> doc[g], expires |-> now + TTL, began |-> began[g]]
      BY <2>1, <3>2 DEF AgeInv
    <3> QED BY <1>a, <2>2, <3>1, <3>2
  <2> QED BY <2>1, <2>3 DEF AgeInv
<1>6. ASSUME NEW t \in Tables, CommitTo(t), UNCHANGED <<now, getVars, cacheVars>> PROVE AgeInv'
  <2>1. commits' = [commits EXCEPT ![t] = Append(@, now)]
    BY <1>6 DEF CommitTo
  <2>2. ASSUME NEW g \in Gets, pc[g] = "building"
        PROVE  began[g] <= now /\ NoOlder(commits', doc[g], began[g])
    BY <1>a, <2>1, <2>2, CommitNoOlder DEF AgeInv
  <2>3. ASSUME NEW l \in Locales, entries[l] # NoEntry
        PROVE  entries[l].began <= now /\ NoOlder(commits', entries[l].doc, entries[l].began)
    BY <1>a, <2>1, <2>3, CommitNoOlder DEF AgeInv
  <2> QED BY <1>6, <2>2, <2>3 DEF AgeInv
<1>7. ASSUME NEW w \in Writers, Clear(w) PROVE AgeInv'
  BY <1>7 DEF Clear, AgeInv
<1>8. CASE Tick
  BY <1>a, <1>8 DEF Tick, AgeInv
<1>9. CASE Restart
  BY <1>9 DEF Restart, AgeInv
<1>10. CASE UNCHANGED vars
  BY <1>b, <1>10 DEF vars
<1>11. ASSUME NEW w \in Writers, Reply(w) \/ HandlerFails(w) \/ FailureSent(w) PROVE AgeInv'
  BY <1>b, <1>11 DEF Reply, HandlerFails, FailureSent
<1>12. ASSUME NEW w \in Writers, NEW t \in Tables, Commit(w, t) PROVE AgeInv'
  BY <1>6, <1>12 DEF Commit
<1>13. ASSUME NEW t \in Tables, SeedWrite(t) PROVE AgeInv'
  BY <1>6, <1>13 DEF SeedWrite
<1> QED
  BY <1>1, <1>2, <1>3, <1>4, <1>5, <1>7, <1>8, <1>9, <1>10, <1>11, <1>12, <1>13
  DEF Next, GetNext, GetStep, WriterNext

LEMMA AgeCorrect == Spec => []AgeInv
<1>1. Init => AgeInv
  BY DEF Init, AgeInv
<1>2. QED BY <1>1, AgeStep, TypeCorrect, PTL DEF Spec

\* A cached answer is that of a fresh entry.
LEMMA FromFresh ==
  ASSUME TypeOK, [Next]_vars, NEW g \in Gets, FromCache(g)
  PROVE  Fresh(locale'[g]) /\ locale'[g] \in Locales /\ doc'[g] = entries[locale'[g]].doc
<1> USE DEF FromCache
<1>a. /\ pc \in [Gets -> {"idle", "waiting", "building", "answered", "failed"}]
      /\ doc \in [Gets -> Doc] /\ locale \in [Gets -> Locales]
  BY DEF TypeOK
<1>1. ASSUME NEW h \in Gets, NEW l \in Locales, Arrive(h, l)
      PROVE  Fresh(locale'[g]) /\ locale'[g] \in Locales /\ doc'[g] = entries[locale'[g]].doc
  <2>1. g = h
    BY <1>a, <1>1 DEF Arrive
  <2>2. Fresh(l) /\ doc'[g] = entries[l].doc /\ locale'[g] = l
    BY <1>a, <1>1, <2>1 DEF Arrive
  <2> QED BY <2>2
<1>2. ASSUME NEW h \in Gets, AcquireHit(h)
      PROVE  Fresh(locale'[g]) /\ locale'[g] \in Locales /\ doc'[g] = entries[locale'[g]].doc
  <2>1. g = h
    BY <1>a, <1>2 DEF AcquireHit
  <2> QED BY <1>a, <1>2, <2>1 DEF AcquireHit
<1>3. ASSUME NEW h \in Gets, AcquireMiss(h) \/ BuildQuery(h) \/ BuildDone(h) \/ BuildFails(h) \/ Finish(h)
      PROVE  FALSE
  BY <1>a, <1>3 DEF AcquireMiss, BuildQuery, BuildDone, BuildFails, Finish
<1>4. ASSUME WriterNext \/ Tick \/ Restart \/ (\E t \in Tables : SeedWrite(t)) \/ UNCHANGED vars
      PROVE  FALSE
  BY <1>a, <1>4 DEF WriterNext, Commit, Reply, Clear, HandlerFails, FailureSent, Tick, Restart,
     SeedWrite, vars, getVars
<1> QED BY <1>1, <1>2, <1>3, <1>4 DEF Next, GetNext, GetStep

\* An entry's lifetime, and the time its build took, bound the age of what a
\* cached answer misses, whoever wrote it without a clear.
THEOREM StalenessCorrect == Spec => StalenessBounded
<1>1. TypeOK /\ IInv /\ AgeInv /\ [Next]_vars =>
        [\A g \in Gets : FromCache(g) =>
           LET entry == entries[locale'[g]] IN
           \A t \in Tables : doc'[g][t] < Rows[t] =>
             now - commits[t][doc'[g][t] + 1] < entry.expires - entry.began]_vars
  <2> SUFFICES ASSUME TypeOK, IInv, AgeInv, [Next]_vars, NEW g \in Gets, FromCache(g),
                      NEW t \in Tables, doc'[g][t] < Rows[t]
               PROVE  now - commits[t][doc'[g][t] + 1]
                        < entries[locale'[g]].expires - entries[locale'[g]].began
    OBVIOUS
  <2> DEFINE entry == entries[locale'[g]]
             v == doc'[g][t]
  <2>1. Fresh(locale'[g]) /\ locale'[g] \in Locales /\ doc'[g] = entry.doc
    BY FromFresh
  <2>2. entry # NoEntry /\ now < entry.expires
    BY <2>1, FreshIsCached DEF Fresh
  <2>3. Len(entry.doc) = NumTables /\ NoOlder(commits, entry.doc, entry.began)
    BY <2>1, <2>2 DEF IInv, EntriesInv, AgeInv
  <2>4. /\ entry.expires \in Nat /\ entry.began \in Nat /\ now \in Nat /\ entry.doc \in Doc
        /\ commits[t] \in Seq(Nat)
    BY <2>1 DEF TypeOK
  <2>5. t \in 1 .. Len(entry.doc) /\ v \in Nat /\ v = entry.doc[t]
        /\ v < Len(commits[t])
    BY <2>1, <2>3, <2>4, SMTT(30) DEF Tables, Doc, Rows
  <2> HIDE DEF entry, v
  <2>6. v + 1 \in 1 .. Len(commits[t])
    BY <2>4, <2>5
  <2>7. commits[t][v + 1] \in Nat /\ entry.began <= commits[t][v + 1]
    BY <2>3, <2>4, <2>5, <2>6, SMTT(30) DEF NoOlder
  <2>8. now - commits[t][v + 1] < entry.expires - entry.began
    BY <2>2, <2>4, <2>7
  <2> QED BY <2>8 DEF entry, v
<1>2. QED BY <1>1, TypeCorrect, InvCorrect, AgeCorrect, PTL DEF Spec, StalenessBounded
=============================================================================
