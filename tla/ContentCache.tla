----------------------------- MODULE ContentCache -----------------------------
(***************************************************************************)
(* The server's cache of the public /content document                      *)
(* (src/backend/app/services/content.py, class ContentCache), the requests *)
(* that read through it, and the writers whose changes it must not hide:   *)
(* admin requests, which clear it, and the seed command, which does not.   *)
(*                                                                         *)
(* A document is built by one query after another, each seeing what is     *)
(* committed when it runs, so it is the sequence of the versions of the    *)
(* content tables those queries met.  All of it runs on one event loop: an *)
(* action below is the code between two awaits.                            *)
(***************************************************************************)
EXTENDS Naturals, Sequences, FiniteSets

CONSTANTS
  Locales,         (* The locales a document is built for.                   *)
  Gets,            (* Concurrent GET /content requests.                      *)
  Writers,         (* Concurrent writing admin requests.                     *)
  NumTables,       (* Queries of one build; query k reads table k.           *)
  TTL,             (* Lifetime of an entry, CONTENT_CACHE_TTL_SECONDS.       *)
  MaxTime,         (* Bound on the clock.                                    *)
  MaxCommits,      (* Bound on the commits to each table.                    *)
  MaxGeneration    (* Bound on the clears of one process.                    *)

ASSUME CacheAssumption ==
  /\ NumTables \in Nat \ {0}
  /\ TTL \in Nat \ {0}
  /\ MaxTime \in Nat
  /\ MaxCommits \in Nat
  /\ MaxGeneration \in Nat

VARIABLES
  now,             (* time.monotonic()                                       *)
  commits,         (* commits[t]: when each version of table t was committed *)
  entries,         (* entries[l]: the cached document of locale l            *)
  generation,      (* Counts the clears.                                     *)
  queue,           (* queue[l]: l's asyncio.Lock; its holder is the head.    *)
  pc,              (* pc[g]: where GET request g is.                         *)
  locale,          (* locale[g]: the locale g asked for.                     *)
  doc,             (* doc[g]: the versions g's build has read, or g's answer *)
  seen,            (* seen[g]: the generation g captured before its build.   *)
  began,           (* began[g]: when g's build started.                      *)
  wpc,             (* wpc[w]: where admin request w is.                      *)
  floor,           (* History: the versions when the cache was last cleared. *)
  since            (* History: since[g] is floor when g arrived.             *)

vars == <<now, commits, entries, generation, queue, pc, locale, doc, seen,
          began, wpc, floor, since>>

getVars   == <<queue, pc, locale, doc, seen, began, since>>
cacheVars == <<entries, generation, floor>>

Tables == 1 .. NumTables

\* The committed version of a table: how many commits it has had.
Rows == [t \in Tables |-> Len(commits[t])]

\* No cached document: an entry that is never fresh.
NoEntry == [doc |-> <<>>, expires |-> 0, began |-> 0]

Init ==
  /\ now = 0
  /\ commits = [t \in Tables |-> <<>>]
  /\ entries = [l \in Locales |-> NoEntry]
  /\ generation = 0
  /\ queue = [l \in Locales |-> <<>>]
  /\ pc = [g \in Gets |-> "idle"]
  /\ locale \in [Gets -> Locales]
  /\ doc = [g \in Gets |-> <<>>]
  /\ seen = [g \in Gets |-> 0]
  /\ began = [g \in Gets |-> 0]
  /\ wpc = [w \in Writers |-> "idle"]
  /\ floor = [t \in Tables |-> 0]
  /\ since = [g \in Gets |-> [t \in Tables |-> 0]]

-------------------------------------------------------------------------------
(* GET /content                                                             *)

\* Mutant: the lifetime counts from nothing but the entry's presence.
FreshForever(l) == entries[l].expires > 0

\* ContentCache._fresh: the entry exists and has not expired.
Fresh(l) == now < entries[l].expires

\* A request arrives.  A fresh entry answers it at once; a miss takes the
\* locale's lock or waits for it.
Arrive(g, l) ==
  /\ pc[g] = "idle"
  /\ locale' = [locale EXCEPT ![g] = l]
  /\ since' = [since EXCEPT ![g] = floor]
  /\ \/ /\ Fresh(l)
        /\ pc' = [pc EXCEPT ![g] = "answered"]
        /\ doc' = [doc EXCEPT ![g] = entries[l].doc]
        /\ UNCHANGED queue
     \/ /\ ~Fresh(l)
        /\ pc' = [pc EXCEPT ![g] = "waiting"]
        /\ queue' = [queue EXCEPT ![l] = Append(@, g)]
        /\ UNCHANGED doc
  /\ UNCHANGED <<now, commits, seen, began, wpc, cacheVars>>

\* g is first in its locale's lock: it holds it.
Holds(g) == queue[locale[g]] # <<>> /\ Head(queue[locale[g]]) = g

Release(g) == queue' = [queue EXCEPT ![locale[g]] = Tail(@)]

\* The locals of a build that is over.
ForgetBuild(g) ==
  /\ seen' = [seen EXCEPT ![g] = 0]
  /\ began' = [began EXCEPT ![g] = 0]

\* The lock is acquired and another request has stored the document meanwhile.
AcquireHit(g) ==
  /\ pc[g] = "waiting" /\ Holds(g) /\ Fresh(locale[g])
  /\ doc' = [doc EXCEPT ![g] = entries[locale[g]].doc]
  /\ pc' = [pc EXCEPT ![g] = "answered"]
  /\ Release(g)
  /\ UNCHANGED <<now, commits, locale, seen, began, wpc, since, cacheVars>>

\* Mutant: a miss builds without the locale's lock.
AcquireMissUnlocked(g) ==
  /\ pc[g] = "waiting" /\ ~Fresh(locale[g])
  /\ pc' = [pc EXCEPT ![g] = "building"]
  /\ seen' = [seen EXCEPT ![g] = generation]
  /\ began' = [began EXCEPT ![g] = now]
  /\ doc' = [doc EXCEPT ![g] = <<>>]
  /\ UNCHANGED <<now, commits, queue, locale, wpc, since, cacheVars>>

\* The lock is acquired and the document is still missing: build it.
AcquireMiss(g) ==
  /\ pc[g] = "waiting" /\ Holds(g) /\ ~Fresh(locale[g])
  /\ pc' = [pc EXCEPT ![g] = "building"]
  /\ seen' = [seen EXCEPT ![g] = generation]
  /\ began' = [began EXCEPT ![g] = now]
  /\ doc' = [doc EXCEPT ![g] = <<>>]
  /\ UNCHANGED <<now, commits, queue, locale, wpc, since, cacheVars>>

\* Mutant: the build asks one query more than the document has.
BuildQueryTooMany(g) ==
  /\ pc[g] = "building" /\ Len(doc[g]) <= NumTables
  /\ doc' = [doc EXCEPT ![g] = Append(@, 0)]
  /\ UNCHANGED <<now, commits, queue, pc, locale, seen, began, wpc, since,
                 cacheVars>>

\* One query of the build: READ COMMITTED, so each sees its own snapshot.
BuildQuery(g) ==
  /\ pc[g] = "building" /\ Len(doc[g]) < NumTables
  /\ doc' = [doc EXCEPT ![g] = Append(@, Rows[Len(@) + 1])]
  /\ UNCHANGED <<now, commits, queue, pc, locale, seen, began, wpc, since,
                 cacheVars>>

\* Mutant: the generation is not compared, every build is kept.
BuildDoneKeepsAll(g) ==
  /\ pc[g] = "building" /\ Len(doc[g]) = NumTables
  /\ entries' = [entries EXCEPT ![locale[g]] =
                   [doc |-> doc[g], expires |-> now + TTL, began |-> began[g]]]
  /\ pc' = [pc EXCEPT ![g] = "answered"]
  /\ Release(g)
  /\ ForgetBuild(g)
  /\ UNCHANGED <<now, commits, generation, locale, doc, wpc, floor, since>>

\* The build ends: the document is kept only if no clear came meanwhile, and
\* answers this request either way.
BuildDone(g) ==
  /\ pc[g] = "building" /\ Len(doc[g]) = NumTables
  /\ entries' = IF seen[g] = generation
                THEN [entries EXCEPT ![locale[g]] =
                        [doc |-> doc[g], expires |-> now + TTL,
                         began |-> began[g]]]
                ELSE entries
  /\ pc' = [pc EXCEPT ![g] = "answered"]
  /\ Release(g)
  /\ ForgetBuild(g)
  /\ UNCHANGED <<now, commits, generation, locale, doc, wpc, floor, since>>

\* Mutant: a failing build keeps the lock.
BuildFailsHolding(g) ==
  /\ pc[g] = "building"
  /\ pc' = [pc EXCEPT ![g] = "failed"]
  /\ ForgetBuild(g)
  /\ UNCHANGED <<now, commits, queue, locale, doc, wpc, since,
                 cacheVars>>

\* A query raises: the request ends in a 500, the lock is released.
BuildFails(g) ==
  /\ pc[g] = "building"
  /\ pc' = [pc EXCEPT ![g] = "failed"]
  /\ Release(g)
  /\ ForgetBuild(g)
  /\ UNCHANGED <<now, commits, locale, doc, wpc, since, cacheVars>>

\* The response has been sent; the slot of this request is free for another.
Finish(g) ==
  /\ pc[g] \in {"answered", "failed"}
  /\ pc' = [pc EXCEPT ![g] = "idle"]
  /\ doc' = [doc EXCEPT ![g] = <<>>]
  /\ since' = [since EXCEPT ![g] = [t \in Tables |-> 0]]
  /\ UNCHANGED <<now, commits, queue, locale, seen, began, wpc, cacheVars>>

-------------------------------------------------------------------------------
(* Writers                                                                  *)

CommitTo(t) ==
  /\ Len(commits[t]) < MaxCommits
  /\ commits' = [commits EXCEPT ![t] = Append(@, now)]

\* Bound: a write starts only while its clear would stay under MaxGeneration.
MayWrite ==
  generation + Cardinality({w \in Writers : wpc[w] # "idle"}) < MaxGeneration

\* An admin request commits a change of a content table.
Commit(w, t) ==
  /\ wpc[w] = "idle" /\ MayWrite
  /\ CommitTo(t)
  /\ wpc' = [wpc EXCEPT ![w] = "committed"]
  /\ UNCHANGED <<now, getVars, cacheVars>>

\* Its handler returns and the response is sent, before the router's dependency
\* is torn down.  A write that touches no content table (a message marked read)
\* gets here without a commit.
Reply(w) ==
  /\ \/ wpc[w] = "committed"
     \/ wpc[w] = "idle" /\ MayWrite
  /\ wpc' = [wpc EXCEPT ![w] = "replied"]
  /\ UNCHANGED <<now, commits, getVars, cacheVars>>

\* Mutant: the entries go, the generation stays.
ClearEntriesOnly(w) ==
  /\ wpc[w] = "replied"
  /\ wpc' = [wpc EXCEPT ![w] = "idle"]
  /\ entries' = [l \in Locales |-> NoEntry]
  /\ floor' = Rows
  /\ UNCHANGED <<now, commits, generation, getVars>>

\* The teardown of clear_public_content_on_writes: ContentCache.clear.
Clear(w) ==
  /\ wpc[w] = "replied"
  /\ wpc' = [wpc EXCEPT ![w] = "idle"]
  /\ generation' = generation + 1
  /\ entries' = [l \in Locales |-> NoEntry]
  /\ floor' = Rows
  /\ UNCHANGED <<now, commits, getVars>>

\* The handler raises after its commit (the refresh or the list it answers with
\* fails).  The exception is thrown into the dependency at its yield, so what
\* follows the yield does not run.
HandlerFails(w) ==
  /\ wpc[w] = "committed"
  /\ wpc' = [wpc EXCEPT ![w] = "failed"]
  /\ UNCHANGED <<now, commits, getVars, cacheVars>>

\* The failed request has been answered with a 500.
FailureSent(w) ==
  /\ wpc[w] = "failed"
  /\ wpc' = [wpc EXCEPT ![w] = "idle"]
  /\ UNCHANGED <<now, commits, getVars, cacheVars>>

\* `python -m app.seed` commits in its own process: nothing is cleared.
SeedWrite(t) ==
  /\ CommitTo(t)
  /\ UNCHANGED <<now, wpc, getVars, cacheVars>>

-------------------------------------------------------------------------------
(* Environment                                                              *)

Tick ==
  /\ now < MaxTime
  /\ now' = now + 1
  /\ UNCHANGED <<commits, wpc, getVars, cacheVars>>

\* The server is restarted: every request dies and the cache starts empty.
Restart ==
  /\ entries' = [l \in Locales |-> NoEntry]
  /\ generation' = 0
  /\ queue' = [l \in Locales |-> <<>>]
  /\ pc' = [g \in Gets |-> "idle"]
  /\ doc' = [g \in Gets |-> <<>>]
  /\ wpc' = [w \in Writers |-> "idle"]
  /\ floor' = Rows
  /\ since' = [g \in Gets |-> [t \in Tables |-> 0]]
  /\ seen' = [g \in Gets |-> 0]
  /\ began' = [g \in Gets |-> 0]
  /\ UNCHANGED <<now, commits, locale>>

GetStep(g) ==
  \/ AcquireHit(g) \/ AcquireMiss(g)
  \/ BuildQuery(g) \/ BuildDone(g) \/ BuildFails(g)

GetNext == \E g \in Gets : GetStep(g) \/ Finish(g) \/ \E l \in Locales : Arrive(g, l)

WriterNext ==
  \E w \in Writers :
    Reply(w) \/ Clear(w) \/ HandlerFails(w) \/ FailureSent(w) \/ \E t \in Tables : Commit(w, t)

Next == GetNext \/ WriterNext \/ Tick \/ Restart \/ \E t \in Tables : SeedWrite(t)

Spec == Init /\ [][Next]_vars

\* The event loop runs every ready task, and a query is answered or fails.
FairSpec == Spec /\ \A g \in Gets : WF_vars(GetStep(g))

-------------------------------------------------------------------------------
(* Properties                                                               *)

\* A document, whole or being built: at most one version a query.
Doc == {versions \in Seq(Nat) : Len(versions) <= NumTables}

\* Every variable has its type.
TypeOK ==
  /\ now \in Nat
  /\ commits \in [Tables -> Seq(Nat)]
  /\ entries \in [Locales -> [doc : Doc, expires : Nat, began : Nat]]
  /\ generation \in Nat
  /\ queue \in [Locales -> Seq(Gets)]
  /\ pc \in [Gets -> {"idle", "waiting", "building", "answered", "failed"}]
  /\ locale \in [Gets -> Locales]
  /\ doc \in [Gets -> Doc]
  /\ seen \in [Gets -> Nat]
  /\ began \in [Gets -> Nat]
  /\ wpc \in [Writers -> {"idle", "committed", "replied", "failed"}]
  /\ floor \in [Tables -> Nat]
  /\ since \in [Gets -> [Tables -> Nat]]

\* Once a write's clear has run, no cached document misses that write: a build
\* that was reading while the clear ran is not kept (ContentCache.get's
\* comparison of generations).
CacheAfterClear ==
  \A l \in Locales : \A t \in 1 .. Len(entries[l].doc) : entries[l].doc[t] >= floor[t]

\* A visitor is answered with every admin write whose clear had run when the
\* request arrived, whether the answer came from the cache, from a build the
\* request waited for or from its own build.
AnswerSinceArrival ==
  \A g \in Gets : pc[g] = "answered" =>
    /\ Len(doc[g]) = NumTables
    /\ \A t \in Tables : doc[g][t] >= since[g][t]

\* However many requests miss, a locale's document is built by one at a time.
OneBuildPerLocale ==
  \A g, h \in Gets :
    pc[g] = "building" /\ pc[h] = "building" /\ locale[g] = locale[h] => g = h

\* A cached answer given to g.
FromCache(g) == pc[g] # "building" /\ pc[g] # "answered" /\ pc'[g] = "answered"

\* What a cached answer misses (a write that cleared nothing: the seed command's,
\* a failed admin request's) was committed less than a lifetime plus the time
\* its build took ago, so the lifetime bounds staleness.
StalenessBounded ==
  [][\A g \in Gets : FromCache(g) =>
       LET entry == entries[locale'[g]] IN
       \A t \in Tables : doc'[g][t] < Rows[t] =>
         now - commits[t][doc'[g][t] + 1] < entry.expires - entry.began]_vars

\* Every request that missed is answered, or told that its build failed: the
\* lock is passed on whatever becomes of its holder.
EveryGetAnswered ==
  \A g \in Gets : pc[g] \in {"waiting", "building"} ~> pc[g] \notin {"waiting", "building"}

\* What the dependency's comment promises of a write that fails: it clears the
\* cache too, so none of the documents left misses a committed write.
FailedWriteClearsToo ==
  [][\A w \in Writers : wpc[w] = "committed" /\ wpc'[w] = "failed" =>
       \A l \in Locales : \A t \in 1 .. Len(entries'[l].doc) :
         entries'[l].doc[t] >= Rows[t]]_vars

=============================================================================
