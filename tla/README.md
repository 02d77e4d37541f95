# Formal models of anthonyzng-web

TLA+ models of the parts of this repository whose correctness depends on the
order in which things happen: what overlapping requests, awaits, commits,
restarts and late answers can do to the public content, the admin account, the
collections and their images, the contact messages and the CV; what late
answers, lost requests and aborted loads can do to the admin panel's screens; and
what preferences, sizes, fonts, scrolling and rebuilds can do to the public
page. TLC checks the models on small instances; TLAPS proves the theorems for
every value of the constants.

Paths below are relative to the repository (`src/` is its root). `B/` stands for
`src/backend/app/` and `F/` for `src/frontend/src/`.

Run one check with `tlc -workers 2 -config X.cfg M.tla` (`M` is the module of the
run), one proof with `tlapm XProofs.tla`. `PROJECT.json` lists every run, its properties, the mutants
that show each property can fail, the source lines of each definition, the
hazards and the theorems.

## 1. Inventory

The system is a personal site with an admin panel. A FastAPI backend runs as one
process with one event loop (one uvicorn worker) over PostgreSQL at READ
COMMITTED; a React application serves visitors and the administrator. Code
between two awaits runs alone; anything may happen at an await. Two commands run
beside the server as processes of their own: `python -m app.seed` and
`python -m app.admin_totp reset`.

| Component | State | Operations | Hard behaviour | What makes it correct |
|---|---|---|---|---|
| Public content cache `B/services/content.py`, `B/api/v1/content.py`, `B/api/v1/admin.py` | an entry per locale, a lock per locale, a generation | get, build (one query per section), clear after an admin write | a clear during a build, waiting gets, failed builds, writes that clear nothing | no entry hides a write whose clear ran; one build at a time; staleness bounded by the lifetime; every get ends |
| Admin account `B/services/auth.py`, `B/services/totp.py`, `B/core/totp.py`, `B/core/security.py`, `B/api/v1/auth.py`, `B/api/v1/admin_totp.py`, `B/admin_totp.py` | one row: email, hash, token version, secrets, last code step; tokens in browsers | sign in in one or two steps, sign out, set up, enable and disable two-factor, reset, start up with a new password or email | reads without a lock that are used after an await; two processes at a restart; codes entered twice | revoked tokens stay revoked; no session without a code while two-factor is on; none for an old password; a code counts once |
| Rate limiter `B/core/rate_limit.py` | a deque of times per key, an operation counter | hit, clear | lazy pruning, periodic sweep, boundaries of the window | the limit in every sliding window; exact retry time; bounded memory per key |
| Login throttling and password slots `B/api/v1/auth.py`, `B/services/auth.py` | the limiter's keys, a semaphore of two | hits on several keys, a wait of at most 5 s | attempts refused by a later key, a slot freed as the wait ends | no more password checks than the rules; no slot lost |
| Content order `B/services/content_admin.py` | `sort_order` of each row, row locks | reorder, create, delete | unlocked read before row-by-row updates, deadlocks, conflicts | the order asked for, or an error; a new row lands in its place; requests end |
| Projects and cover images `B/services/content_admin.py`, `B/services/files.py`, `B/seed` | row content, version (`updated_at`), image; stored files | create, update with `If-Match`, delete, upload, remove, seed | an upload reads, encodes for seconds, then writes | files are exactly those pointed at; placeholders have no image; versions move only with content |
| Content editor `F/admin/editor`, `F/admin/draftStore.ts`, `F/admin/hooks` | form draft, loaded row, kept draft, requests in flight | load, type, save, load latest, upload, remove, leave, reload | answers out of order, typing during a save, lost answers, sessions that expire | no lost typing, no unseen overwrite, no conflict with oneself |
| Contact form `F/components/ContactForm.tsx`, `useTurnstile.ts`, `B/services/contact.py`, `turnstile.py`, `email.py` | the form, the widget's token, message rows, delivery status | fill, send, retry, reset; verify, store, deliver, mark | failures and crashes between the four, lost answers, tokens that are single-use | accepted means stored; no status claims a delivery that did not happen; no spent token is ready to send |
| Inbox `B/services/messages.py`, `F/admin/pages/MessagesPage.tsx` | rows with `read_at`; the list, the marks in flight | list as of an instant, mark, delete | messages arriving while paging, marks racing, lists overtaken | the pages of one moment continue one another; the screen ends where the server is |
| Files and CV `B/services/files.py`, `B/api/v1/files.py`, `F/admin/pages/CvPage.tsx` | stored files, an LRU of bodies, the page | replace and delete the CV, serve, upload, remove | a file deleted between the metadata and the body; the answer's refresh after the commit | no deleted file served; cache within its size; the page shows the CV online |
| Sign-in page and session `F/admin/session`, `F/admin/pages/LoginPage.tsx`, `LoginCodeStep.tsx` | screen, session of the tab, login form, calls in flight | sign in, enter a code, start over, sign out, load pages, expire | answers of an older session, aborted requests that still reach the server, spent tokens | a 401 to an earlier session does not end this one; no spent token is ready to send |
| Security page `F/admin/pages/SecurityPage.tsx`, `F/admin/security` | status, setup, confirmation | start, scan, confirm, cancel, disable | several tabs, lost answers, conflicts | on only with a secret in the owner's app |
| Admin shell `F/admin/shell/AdminLayout.tsx`, `F/admin/hooks/useAdminQuery.ts` | unread count, summary request, leave guard | refresh, force, leave, sign out | late answers, joined requests | newest count wins; a forced refresh happens; nothing unsaved is dropped unasked |
| Admin list `F/admin/content/ContentList.tsx` | the shown order | move, delete, reload, retry | moves while a reload or another move is in flight | the list shows the order stored |
| Lists in the form `F/admin/editor/BulletsEditor.tsx`, `TagListEditor.tsx`, `F/admin/validation.ts` | rows in two languages, errors by path | add, remove, move, switch, type, check, save | errors kept by place, rows that move | an error is on the text it is about; focus is on a control that exists |
| Confirmations `F/admin/components/ConfirmDialog.tsx`, `F/admin/hooks/useConfirmedAction.ts` | question, native dialog, close event | open, cancel, Escape, confirm | asynchronous close events, closes forced by the platform | dialog and question agree; focus never nowhere |
| Pictures `F/animations/use{BlackHole,InkStream,InkWriting,MeteorContact,NightSky,BambooGrove,PageGlass}.ts`, `F/sections/Hero.tsx`, `Closing.tsx` | a scene per canvas, its frame callback, its state | mount, clean up, tick, resize, observe, pointer, fonts | changes between any two frames, lost WebGL contexts, loops that outlive their scene | the loop runs exactly when needed; nothing is left cleared; links belong to what is drawn |
| Entrances `F/animations/{useHeroIntro,useSectionReveal,useStatementReveal,useParallax,useSectionFades,useScrollProgress,gsap}.ts` | inline styles, GSAP contexts | set up, revert, run again, measure | setups that throw, content that comes and goes, breakpoints | nothing stays hidden |
| Reading place `F/animations/use{HashScroll,ScrollAnchor,ActiveSection,ScrollTo}.ts`, `F/components/LanguageSwitcher.tsx`, `F/content/useContent.ts` | scroll position, landing, anchor, content | land, correct, scroll, switch language, fetch, rebuild | late fonts and content, rebuilds in the middle of reading, Lenis coming and going | the reader stays where they went |
| Public dialogs `F/components/MobileMenu.tsx`, `ContactDialog.tsx` | open dialog, Lenis, focus | open, close, follow a link, widen, leave | asynchronous close events, replaced layouts | the page scrolls again; focus is right |
| Request pipeline `B/core/middleware.py`, `B/core/errors.py`, `B/core/client_ip.py`, `B/api/deps.py` | none | limits, errors, origin check | - | per-request, sequential |
| Build, containers, migrations, seed data | none at run time | - | - | outside a state model |

How they interact: admin requests write the tables through the services and then
clear the public cache (a dependency whose code after its `yield` runs when the
handler returned, after the response was sent, and not when it raised). The seed
command writes the same tables and clears nothing. The editor holds a version of
a row from a list, a save or a "load latest" and sends it back in `If-Match`;
image operations change the same row without changing its version. Every admin
request checks its token against the account row it reads at that moment. The
panel's pages share the session (a 401 to any of them ends it) and the unread
count, which the inbox and the shell's summary both write. The public page's
parts share the visitor's preferences, the scroll position and Lenis; each sees
the others only as changes of these, at any moment.

The hazards, with their lines and the properties aimed at them, are in
`PROJECT.json`.

## 2. Modules

| Module | Models | Proofs |
|---|---|---|
| `ContentCache` | cache, its readers and its writers | `ContentCacheProofs` |
| `AdminAuth` | account row, tokens, boot, reset | `AdminAuthProofs` |
| `RateLimiter`, refining `WindowLimit` | the limiter; the promise it makes | `RateLimiterProofs` |
| `ContentOrder` | reorder, placement, creation under row locks | `ContentOrderProofs` |
| `ProjectRow` | one project row and the image files | `ProjectEditorProofs` |
| `ProjectEditor`, extending `ProjectRow` | the tab composed with the server's row and with everybody else | `ProjectEditorProofs` |
| `Correspondence`, composed of the next nine | between the screens and the server | `CorrespondenceProofs`, `ScreensProofs` |
| `Contact`, `SignIn`, `LoginAttempts` | contact form and delivery; login page and session; limits and password slots | `CorrespondenceProofs` |
| `Cv`, `TwoFactor`, `Confirm` | the CV page and the security page with the server side of their requests; the question of a deletion | `CorrespondenceProofs` |
| `Inbox`, `ListPage`, `RowsEditor` | the inbox and the list pages with the server side of their requests; lists in the form | `ScreensProofs` |
| `PublicPage`, composed of the next seven | the home page's moving parts | `PublicPageProofs` |
| `HeroScene`, `ContactScene`, `Backdrop`, `Glass`, each extending `Stage` | the pictures; what they share | `PublicPageProofs` |
| `Entrance`, `Reading`, `Dialogs` | what is hidden and revealed; where the reader is; modal dialogs | `PublicPageProofs` |

`MCx.tla` gives the constants of `x` small values; the two compositions take them
in their `.cfg`. No module is recursive, so all of them can be proved about.

### ContentCache

An action is the code between two awaits. `Arrive` is the request's call,
`AcquireHit` and `AcquireMiss` are the second look at the entry under the lock,
`BuildQuery` one query of the build (query k reads table k as committed then),
`BuildDone` the rest of `get` after the last query, including the comparison of
generations. A document is the sequence of table versions its queries met. The
lock's queue is FIFO, as `asyncio.Lock` is, and is passed on by a failure.
`Commit`, `Reply` and `Clear` are an admin write, its response and the clear
after it; `HandlerFails` and `FailureSent` are a handler that raises after its
commit (the refresh it answers with fails). `SeedWrite` commits from another process. `Restart` loses the
cache, the locks and the requests. `floor` and `since` are history: the versions
when the cache was last cleared, and that value when a request arrived.

*Run `ContentCache`*: one locale, two gets, one writer, two tables read one
after the other, one commit to each table, two clears, lifetime 1, time to 2.
Two tables are what it takes for a build to read one side of a write each; two
gets for one to wait while the other builds; two clears for an entry to be built
between them. Locales share only the generation; they do not meet otherwise.
Fairness: weak, on the step each started get has next. The event loop runs what
is ready and the database answers or fails (a failure is one of the steps). No
fairness on arrivals, writes, clears, time or restarts.

*Run `CacheFailedWrite`* (violation): the docstring of
`clear_public_content_on_writes` says a failed write clears too. It does not: the
code after the `yield` is skipped when the handler raised.

### AdminAuth

Every handler that locks and re-reads the row (`_locked`) is one action
after its unlocked first read. What does not lock (logout, the rotation of the
password at boot) is two actions, a read and a write of what was computed from
it, of the columns the ORM writes only. Tokens carry the id and
version they were issued with, as in `core/security.py`, and, as history, whether
a code was given for them and the password they were issued for. `Matches` is
`match_code`: the step before, the current and the next, later than the last one
used. `Restart` stops everything and starts `ensure_admin_user` under a new
configuration; the reset command may run at any moment.

What is left out: expiry of tokens (an honoured token may be used at any later
time here, so there are more behaviours, and no property needs an expiry), codes
of different secrets that happen to coincide, wrong passwords and rate limits
(an attempt refused writes nothing), and encryption of the secrets.

`lost` is history: some logout wrote a version computed from a row that had
changed since. The two session invariants, `NeverRevived` and `ChangeRevokes` hold while that
has not happened (such a write can bring a revoked version back), so they say nothing of
the race itself; *run `AuthLogout`* (violation) shows what happens when it has: a
logout that leaves a session valid, against the docstring of `revoke_sessions`.
*Run `AdminAuth`*: two requests, one email, two passwords (password rotation
and a rotation back), one row id, three versions, two secrets, code steps to 2.
The requests are interchangeable and enter no property but through quantifiers, so
symmetry is sound (no liveness is checked there).

### RateLimiter and WindowLimit

`Allow` and `Refuse` are the two outcomes of `hit` with its `_tick` and `_prune`;
`Clear` is `clear`. `check` followed by `record` costs two operations of the
sweep counter, one when refused. The log of attempts since the last clear is
history for `LimitHolds`. `WindowLimit` is the promise: of the attempts in the
last window, at most the limit, and the time to retry. `ImplementsWindow` maps
`recent` to the deque as a prune would leave it now, so lazy pruning and the sweep
are stutters. *Run `RateLimiter`*: two keys with different limits and windows,
sweep every 3 operations, two clock units a second (so rounding matters), time
to 7, which is more than the longest window and a half. The code sweeps every
1,000 operations; 3 puts the sweep at every place relative to the hits.

### ContentOrder

A reorder or creation reads the order (`ReorderRead`, `CreateRead`) and writes
one row per action (`Write`) holding row locks until `ReorderCommit`,
`CreateCommit` or a rollback. `Blocked` and `DeadlockEnds` are PostgreSQL's
row locks and its deadlock detection. `Placement` is `_placed_sort_order` for
experience, `AfterLast` for the other collections. A request keeps the rows in the order
it updates them (`rows`), what it will write (`target`) and the places in `rows` it has
not written yet (`todo`). `MaxSort` bounds the sort orders and leaves one for
every row. *Run `ContentOrder`*: three
slugs (two present at first), two entries equally late, one row that clients
delete, two requests. `alone` is history: nobody else changed the
order since the request read it; `ReorderExact` and `CreatePlaces` are stated
for such requests, and *run `ReorderRace`* (violation) shows that the promise of
`docs/backend/admin-api.md` (a reorder "rewrites `sort_order` to 0..n-1") fails without it.
That run has reorders only (`ReorderSpec`), as a creation that overlaps one may be said to
have come after it, and `ReorderRewrites` allows such an order of events between reorders too:
a reorder that others overlapped may leave the list as they did. In the trace both
requests read 1, 2, 3; r2 stores 2, 1, 3 and r1, asked for 1, 3, 2, then writes the two rows it
believes moved. Rows 1 and 3 are left on one sort order, which nobody asked for. Fairness is strong, per request:
PostgreSQL queues the waiters of a row lock and does not pass one over for ever,
and the event loop resumes the handler that was answered.

### ProjectRow and ProjectEditor

`ProjectRow` is the server's side: the operations that lock the row are one
action each; an upload is the first read (`UploadRead`), the encoding without a
lock, and the write on the re-read row (`UploadWrite`). `updated_at` is
compared for equality only and stamped when the content really changes (or
always, by the seed), so a version is the number of its change. `Seed` deletes
the image files no project points at.

`ProjectEditor` is one tab: the loaded row (`item`), the form's draft, the kept
draft in session storage, and four requests that can be in flight together. Each
request is its send, the server's commit, what the server reads after the
commit for its answer, and the arrival of the answer. `SaveDone` leaves the
page, `SaveKeepsNewer` is `keepNewerChanges`, `SaveRefused` a 412,
`SaveFails` any other end, at any moment after the send, with or without the
commit having happened. `GoAway` is a reload, Back or an expired session: the
kept draft stays; `Discard` is leaving after the dialog. Other tabs, abandoned
requests and the seed command are `Others`.

History: `origin`, the version the draft was knowingly begun on; `typed`, typing
neither saved nor dropped; `foreign`, whether the row's version came from a save
this tab had no answer to (so a save that is retried after its answer was lost, and
refused by its own first try, is not what `NoSelfConflict` excludes); `slipped`, whether the form took a version it had
not shown. `SaveReplacesSeen` holds except after a slip, and *run `UnseenSave`*
(violation) shows the slip: a save overtaken between its commit and the refresh
is answered with the other save's row.

*Run `ProjectEditor`*: two contents and a placeholder, a draft that differs from
the content it is sent as, two uploads, two images, three versions: the draft's
own, another's and a third to be overwritten. The two contents are
interchangeable (symmetry; safety only). Not modelled: create mode, the other
collections (they have no image and otherwise the same form), two editor tabs
with drafts of their own (the second tab's requests are among `Others`).

### Correspondence

Nine modules describe what goes between a screen and the server. Each has both
ends: a request is sent, served in one step of the server (or refused, or lost),
and its answer lands, in any order with others. They meet in rows that each sees
change at any moment (`Outside`, `DeleteMessage`, an arrival), and in the session,
whose end is `SignIn`'s; no part writes another's variables. A behaviour of
`Correspondence` therefore follows one part, chosen at the start. That is no
product of the parts: it is their common run, with common properties.

- `Contact`. `submit` goes through the honeypot and `validateDraft`'s rules to a
  request; the server's steps are `Verify` (siteverify, which spends the token
  whatever becomes of its answer), `Store`, `Send`, `Mark`, with `Crash` between any two.
  The token counts only for the widget's current theme and language, as in
  `useTurnstile.ts`. Contents are known by how they fare: blank, faulty here,
  refused there, good.
- `SignIn`. One action for the answer of each kind of call on each screen. What an
  unmounted page sent is aborted, but the server may still serve it, and an answer
  may still set its cookie (`Kept`). `held` is the session the panel was opened with.
- `LoginAttempts`. `hits` is the handler's limits in their order, each counted on
  arrival; the log of a key is what `WindowLimit` promises, events by age. The
  slots are `asyncio.Semaphore` with its FIFO queue: a freed slot wakes the first waiter,
  which takes it when it resumes and wakes those behind it for whom one was free; the
  timeout of 5 s may come before that, and the slot goes on. The attempts that do not
  wait are counted, as nothing tells two alike apart. `guessed` is history: whose attempts
  reached a password check in the window. All attempts name the owner's email (others
  have keys of their own), and one handler reads one time.
- `Inbox`. `list_messages` is read in its three statements (`ListCount`, `ListRows`,
  `ListUnread`), `set_read` in its read (`ReadRow`), its `datetime.now` (`DateRead`) and its
  commit (`SetRead`). The contact form's INSERT and a read mark of another tab are dated
  (`Outside`, the row's `dated`) and committed later (`Commit`). `page` is `useAdminQuery`'s
  state with the URL; `shell` is the summary request with the version and the forced
  repeat, which `SummaryFails` ends without a count. `walk` is history: the moment's messages
  in order, whether a commit since then reshaped them (a deletion; a read that was dated by the
  moment undone or overwritten; an arrival or a read dated by the moment and committed
  after it), and whether a list was overtaken by a change.
- `ListPage`. `move` changes the order on screen and sends it; a refusal puts the
  former one back and reloads. `retry` does not wait for a move, as in the code.
  `behind` says that an answer under way misses what was stored since it was read, and
  `unseen` (history) that the screen took in such an answer.
- `Cv`. `GetMeta`, `GetBody`, `PutBody` are a download with the body cache;
  `Replace`, `Store`, `Refresh` an upload, the refresh failing for a CV replaced since.
- `TwoFactor`. The secrets at the server and the page, with other tabs (`Outside`)
  that start, enable and disable. `scanned` is what the owner's app holds.
- `RowsEditor`. The lists of a form and their errors by path, with `clearErrors`, the
  checks and the mapping of a rejection to a control. `edited` is history: the
  lists changed while a save was on its way.
- `Confirm`. The question's state and the native dialog, which the platform may close by
  itself (a second Escape).

*Run `Correspondence`*: every bound in `Correspondence.cfg` is the smallest at
which each part's case occurs: two tokens and two submissions (one spent by the first),
two sessions (an older one's answer), three messages of which one arrives, pages
of one message (so there are pages to continue), three slugs (so that a move and
a later reload differ in more than one place), two files and a cache of one,
three secrets (active, pending and another tab's), two rows (a swap), two
addresses, the code's two slots and three attempts at once (a waiter that is woken as its
wait ends, and one that waits behind it), limits of 2 and 1 in
the order of the code's, a window of 1 and a day of 2 units, so that an event leaves
one before the other. `MaxMishaps`, `MaxAccidents`, `MaxFaults`, `MaxUpsets` bound failures and other
tabs' changes. The screens may really stop (nothing left to do within the
bounds), so deadlock is not checked. No fairness and no liveness: that a request is
answered at all depends on the network.

- `TokenNotSpent`: neither form is ready to send a token the server has spent.
- `DeliveryTrue`: 202 means stored, a refusal means not; no two messages on one token; a row says
  sent only if the email was taken; nothing is mailed that was not stored.
- `NotShutOut`: the panel says a session has expired only when the server no longer takes it, never
  for a 401 to an earlier session's request (a late answer to that session's sign-out does end
  a newer one, see section 4); two-factor is on only with a
  scanned secret; failures from one address never fill the email's limit, nor do
  more than its share come to a check; slots are conserved and nobody
  waits beside a free one.
- `ReadsTrue`: the inbox's pages of one moment continue one another, unless a message among them
  is deleted, one read by that moment is marked again, or an arrival or a read dated by
  that moment is committed after it; a download that begins after
  a removal is not served.
- `ScreensTrue`: once everything is answered the screens show what the server has (badge, list, CV,
  two-factor), the dialog is the question's, an error is on the text it is about. Each has its
  provisos, which its comment names: the badge, that nothing failed and no list was overtaken; the
  list, that no Retry overlapped a move; the CV and two-factor, that nothing failed or
  crossed; the errors, that no row changed during the save.

Besides the mutants listed in `PROJECT.json` these modules keep others that the same properties
find: `ShellUnaborted` (an old session's answers are heard), `TimesOutHolding` (a wait that
ends keeps its slot), `enableAnyCode`, `GetMetaCached`, `onChangeAnew`,
`onCloseForGood`, `clearErrorsThere` and `refreshJoins`.

*Run `InboxBadge`* (violation, module `Inbox` alone): the badge follows every
change, as `MessagesPage.tsx` says, without the proviso of `ScreensTrue` that no
list was overtaken. The counterexample: a message is opened, and the view changed
while its mark is on the way; the new list was read before the mark was stored
and is answered last. The badge and the row are then those of before.

### PublicPage

The pictures extend `Stage`: `page` is the visitor's preferences (theme, motion) and
the tab, `scene` the mounted effect with what its closure keeps, `ticker` how many
callbacks gsap's ticker holds. `Become` is a change of the scene together with what
`start` and `stop` did to the ticker; `Rebuild` is the cleanup of one effect and
the setup of the next, which React runs in one commit. A frame is one action;
what it may do depends on how much time passed, so phases end, stars cross and
leaves drift away nondeterministically.

- `HeroScene`: the black hole (quality steps, meteors thrown by the pointer, a lost
  WebGL context, which is not restored), the ink stream (hills painted once, water
  every frame, leaves), and the plain glow without WebGL. Flying things are counted.
- `ContactScene`: the ink's phases with the link laid over the written word, and
  the meteors with the title as the link of the one beside it; fonts that arrive,
  resizes that clear the canvas, hovering that holds a word.
- `Backdrop`: the sky and its shooting stars, the grove with its sway, its
  leaves and their timer; sections that arrive.
- `Glass`: the pane round the box in view, gone while the page scrolls, and its rest timer.
- `Entrance`: one of the six GSAP hooks, its two elements (the second comes with
  the API's content), their inline style, the context, the scheduled refresh. A context
  records the look that each element has when it is set up, and a revert gives back that look,
  whatever it was; a `from()` tween ends at it. `runSafely` is its try and catch: a
  setup may throw after any of its elements, and what it had done is reverted. The fades
  write the opacity themselves, so GSAP does not revert it: only the cleanup of
  matchMedia clears it (`sections`).
- `Reading`: `place` is where the page is, `wanted` (history) where the reader last
  went or was promised to be. Landings, their late correction, the reader taking
  over (by scrolling, or by a key or a click that moves nothing, `TakesOver`), language switches, content replacing the snapshot, breakpoints that revert
  and refresh all triggers, Lenis coming and going.
- `Dialogs`: the native dialogs, their close events, Lenis stopped and started, and
  the focus.

As in `Correspondence`, the parts do not write each other's state, and a behaviour
of `PublicPage` follows one part. *Run `PublicPage`*: two channels (a drop follows
another; a meteor replaces another at the title), three sections, two shooting
stars, two boxes and none, three regions with the last one coming and going. Everything else is
of fixed size in the code. Fairness: weak for the ink's next frame and for the end of the
intro (gsap's ticker calls its callbacks while the tab is shown), for the scheduled
refresh and for the rest of a rebuild (timers and tasks of the browser run); strong for the correction of a
landing, which waits for the fonts and may be put off by content. None on
visitors, content, visibility or the network.

- `LoopFollows`: each frame callback is on the ticker exactly while there is
  something to move and someone to see it.
- `PictureTrue`: no canvas is left cleared or out of date; the link laid over the contact
  screen is that of what it shows; the glass rests where the reader is.
- `NothingHidden`: no part is left hidden, by failure, revert or replacement: without motion each
  has its own look, one that has not is animated or is a fade that the next cleanup clears, no
  setup takes what another left for an element's own look, nothing that fades is faded out
  on the screen, and the intro does not start over.
- `PlaceKept`: nothing the site does by itself leaves the reader elsewhere than they asked.
- `ScrollFree`: the page scrolls after a dialog, and behind one only with a Lenis made while it was
  open; buttons and
  focus agree with what is open.
- `Seen` (liveness): each ink drop's word is written in the end and goes again; what
  the intro hid it shows; a landing is corrected unless the reader took over.

## 3. Theorems

All are of the form `Spec => []P` or about `Spec`'s steps, for every value of
the constants that satisfies the module's assumption.

- `ContentCacheProofs`. `TypeCorrect` proves the types with `LockInv`
  (whoever builds holds its locale's lock), from which `SingleBuild` follows.
  `CacheCorrect` and `AnswersCorrect` need `IInv`: every entry is at least as
  new as `floor` (`EntriesInv`); a build that captured the current generation
  has read nothing older than `floor` (`BuildsInv`); `floor` and `since` never
  exceed what is committed (`HistoryInv`). The middle part is the reason the code
  compares generations: it is what makes storing the result safe.
  `StalenessCorrect` needs the other side of a document's age (`AgeInv`): one that is
  being built or cached lacks no commit made before its build began (`NoOlder`), so what
  an answer lacks is no older than the entry it came from, whose age the get checked.
- `AdminAuthProofs`. `CodesCorrect`: every accepted code of the current secret is
  at most the row's last step, so a second acceptance cannot match.
  `SecondFactorCorrect` and `PasswordCorrect` share `SessionsInv`: no token and no
  version a request carries is newer than the row (`TokensInv`, `RequestsInv`),
  what a request read of an unchanged version is still so, boot is between the
  old and the new configuration (`BootInv`), and the tokens honoured now are right
  (`ValidInv`). The invariant is `lost \/ SessionsInv`.
  `RevocationLasts` and `ChangesRevoke` are about steps: a change that revokes moves
  the version up by one (`RevokingBumps`), because a request that lost no update read
  the version it writes over, and no token is ahead of the row, so none is of the new
  version; every other step leaves the versions alone or brings no old one back. Both, like
  `SessionsInv`, are about behaviours in which no logout has overwritten a version it had
  not read; the run `AuthLogout` is about the others.
- `RateLimiterProofs`. `Inv` says the deque is the end of the log, and what was
  dropped from it is older than a window (`LogInv`) with the shape of both
  (`Shape`). `LimitCorrect` and `MemoryCorrect` follow.
  `RetryCorrect` adds that what a refusal said is about the limit-th last event of the
  log, rounded up to a second (`ToldInv`), which no prune or sweep can change.
  `WindowCorrect` is the refinement, step by step. What a prune leaves is determined by
  the first event that has not expired, which exists by the least-number principle
  (`GoneExists`, `GoneUnique`, `LeftIs`); pruning and then pruning later is pruning later
  (`LeftLater`), and a swept key had nothing left (`LeftSwept`), so the lazy deques show the
  same events as the promise after every hit, clear and tick (`AllowRefines`,
  `RefuseRefines`, `ClearRefines`, `TickRefines`).
- `ProjectEditorProofs` proves every property of the run `ProjectEditor`.
  `RowKeeps` shows each server step to keep types, files and placeholders
  together (`RowInv`: an upload needs both that files match and that the row's
  image was given out earlier); `FilesCorrect` and `PlaceholderCorrect` follow.
  `SavesOfForm` says a save on its way names the version of the row the form is
  compared with, which takes that no load can be in flight beside it (a conflict
  is cleared when a save is sent, the dialog of a load holds the page);
  with `SeenInv` (a form that has not slipped is compared with the version its
  draft began on, or says it is not) it gives `SeenCorrect`. `TypingInv` adds to
  `TypingSurvives` that storage has the typing also while the form does.
  `OwnInv`, for `ConflictCorrect`, says where the row's version is while nobody
  else has changed the row: in the form, in the save's answer or in the load.
- `ContentOrderProofs` proves `TypeCorrect`, `ReordersCorrect` and `CreationsCorrect`.
  `OrderInv` says of a request that is alone: the rows it read are those that
  exist, in the order read; its target is the index in the list asked for, or is computed
  from the display it read; and a row that is not where the target wants it is locked by
  the request or still to be written (`Unraced`), so at the commit every row is where it
  belongs (`Lands`). That what is displayed is then the list asked for takes that a
  display is determined by the sort orders: a row's place in it is the number of rows
  before it (`RankGrows`, `RankOnto`, `DisplaySorts`, `DisplayUnique`). For a creation, the
  target is a display with the new row put in at one place (`InsertedTypes`,
  `InsertedRemoved`), which leaves the others in their order (`CreateLeaves`).

- `PublicPageProofs` proves `LoopFollowsAlways` and `PictureTrueAlways` first. Neither is
  inductive alone: what is painted depends on the phase, and the phase on what
  started the loop. Each picture has an invariant of its own with one lemma per
  handler: `GlassInv` (types, the loop, and where a pane that stands still is);
  `BackInv` (a drawn sky or grove that runs exactly when it can); `HeroInv`
  (`HeroMoves`, the loop and what is in the air, and `HeroDrawn`); `ClosingInv`,
  which is nothing, or ink whose link follows its phase, whose held word is painted and
  which holds one when there is no motion (`InkFine`), or a night whose
  title, colour and meteor agree (`NightFine`, `Titled`). `PictureInv` combines them
  by the part followed. The lemmas that a scene's change and the ticker's count
  agree (`GlassBecomes`, `GlassRebuilt` and their like) carry the loop. The only
  assumptions are that the bounds are naturals.
  It then proves the other invariants, so every invariant of the run
  `PublicPage` holds for all constants. `ScrollFreeAlways` needs that only a closed
  dialog   has a close event on its way (`DialogParts`); `NothingHiddenAlways` that
  a context's parts are on the page, that the look it recorded of each is the part's own,
  that a section that fades is among those the cleanup clears, and that every scroll-linked look
  is the one of its place once measured (`EnterParts`). That the recorded looks are the
  parts' own is what makes a revert give them back, and it holds only because every setup
  follows a full cleanup of the one before (`EnterCleaned`). `PlaceKeptAlways` needs where
  `wanted` comes from at each moment (`ReadParts`): a blank page is at the top and
  its goal is what is wanted (`Arriving`); a correction is pending exactly while the
  landing is unsettled, and until then the goal is wanted (`Landing`); a page at rest
  is where its anchor says, and a rebuild keeps in the anchor the place that it
  leaves for the top (`Kept`). `TypeOKAlways` combines these with `PictureInv`.

- `CorrespondenceProofs` proves `TokensSpentOnce`, `DeliveryTold` and `OwnerGetsIn`, the
  run's invariants that speak of the contact form, the login page, the login limits,
  the password slots and two-factor sign-in; and `FilesTrue`, `StatusTrue` and
  `DialogTrue`, what `ReadsTrue` and `ScreensTrue` say of the CV page, the security
  page and the dialog. Each part has an invariant that its own steps keep; the others
  leave it alone (`SenderHolds` and its like).
  - `SenderInv`: a spent token is in the form only while the form waits for the answer of the
    submission that spent it, and no other submission that the server may still check has the
    form's (`TokenInv`); where a submission is says whether it is stored, mailed and
    its token spent, and no two that got past the check had the same (`DeliveryInv`).
  - `DoorInv`: which calls are under way fits the screen (`WaitsInv`); the login page's
    token is spent only by the attempt it waits for, never by one that is told to correct
    its fields (`LoginInv`); and sessions are revoked all at once, so a later one is valid if
    an earlier one is, while what the browser sends is never older than what the panel was
    opened with (`SessionsInv`): a 401 to a page is about the session on the screen.
  - `SecurityInv`: `NotLockedOut` is inductive; `StatusSettles` needs what the page may
    show while nothing failed or came from elsewhere (`Undisturbed`).
  - `AttemptsInv`: a log is oldest first, so what a window no longer counts is at its
    front (`Expiry`); what counts against the email from an address, and what came from it
    to a check, maps one-to-one to events of the same age on that address's own key
    (`GuessInv`), which leave no earlier and are bounded by its limit; and free slots,
    checks that run and waiters that are woken make up the slots, with nobody waiting
    beside a free one unless somebody is woken, who will look (`WakesUp`).
  - `FilesInv`: a download that began after its file went has an id that is not the CV's, and
    does not get past the metadata (`GoneInv`); while nothing failed or crossed, one upload
    or the removal is on its way, and the page shows the CV but for what it has not been
    told yet (`Smooth`).
  - `QuestionInv`: when the question and the dialog may differ, and where the focus is then.

  Besides naturals, the proofs assume of the constants at least one file and one secret
  (`MaxFiles`, `MaxSecrets`): with none there is nothing to upload or to enable.

- `ScreensProofs` proves the run's remaining invariants: `TypeCorrect` (`TypeOK`),
  `ReadsCorrect` (`ReadsTrue`) and `ScreensCorrect` (`ScreensTrue`). The pages proved
  above (`FilesTrue`, `StatusTrue`, `DialogTrue`) are parts of the last two; here are the
  other three, combined by `PartHolds`.
  - `ListInv`: a reload is under way exactly while the page is loading, and its answer is the
    server's list unless it is behind (`ReloadsInv`); a deletion's dialog is open alone
    (`ModalInv`); and what the screen shows is the server's list but for the one move or
    deletion on its way (`ShownInv`, `MovedInv`).
  - `EditInv`: what a save has sent is the draft unless that was changed since, and the
    server's objections are about what was sent (`SentInv`), so while the draft is not
    edited every error is about a control it has (`ErrorsInv`). `ErrorsTrue` needs, of each
    edit, which paths a removed or moved row takes along and that no cleared error
    was another row's.
  - `InboxInv` has two halves. `PagesTile` holds whatever fails and whoever else acts: what is
    there is dated (`DatedInv`), so a commit of an arrival or a read dated after a moment does not
    change the messages as of it, and while the walk is not reshaped its order is still the
    server's and a page as of its moment, fetched or shown, is its page of that order
    (`TilesInv`). Which row is on which
    page is counted: a message's place is the number of newer ones (`NewestIs`, `PageIs`).
    `BadgeSettles` needs more, but only while nothing failed, nobody else acted and no
    list was overtaken (`Untroubled`): then a patch under way will be answered with what it asked
    for (`PatchesInv`), an open message is read or about to be (`OpensInv`), what is removed
    is read already (`RemovesInv`), no list shows a message twice or one that is gone (`RowedInv`);
    and the badge is right, or an answer or a summary that is not stale is still on its way,
    or will be asked for again (`CountsInv`). `Quiet` leaves only the first.

  It assumes of the constants what `Bounds` of these modules say: pages and lists have at
  least one row, and the messages there at the start arrived within the time modelled.

Every invariant and action property that a passing run checks is proved for all values
of its constants. Only model-checked, being out of TLAPS' reach: `EveryGetAnswered`,
`RequestsEnd` and `Seen`, liveness under fairness.

## 4. Not modelled

- The request pipeline: size limit, error envelope, client address and origin check
  are functions of one request. Nothing in them meets another step.
- Configuration, database roles and migrations: one-off checks at start or deploy.
- Build scripts, containers and CI.
- Drawing: what a frame looks like, positions, colours, easing and durations. The
  pictures' control is modelled; the shaders and brush strokes have no state of
  their own between frames that a property could be about.
- Static sections, cards, timeline and footer: they render their props.
- Create mode of the editor, and its date fields: a new row has no version, draft
  base or image, so none of `ProjectEditor`'s properties says anything of it; the error
  "end before start" is cleared with its own field only.
- Expiry of sessions by time in the panel (any 401 stands for it), several tabs with
  drafts of their own (their requests are among the others' changes).

Met while modelling, outside what a run states:

- `logout` carries no signal: an answer that comes after a new sign-in clears the
  new session's cookie and signs the tab out.
- A theme switched twice makes an unspent token of the first theme count again, where
  `useTurnstile.ts:38-40` says a token issued before a switch is never returned.
- A 422 is mapped on the form as it is when the answer lands, by the rows of the
  draft that was sent: one for a row moved or removed in the meantime is
  shown elsewhere or nowhere (`validation.ts:226`: no rejection is ever silently
  dropped). `ErrorsTrue` excludes it by `edited`. A rejected chip keeps its
  rejection when only one of its texts is corrected.
- Retry, offered after a failed reload, is not blocked while a move is in flight
  (`ContentList.tsx:115`; `busy` of line 45 holds back moves and deletes only). What it read
  before the move was stored can land after the move's answer and put the former order back on
  the screen. The case is in the model (`retry`, `load.behind`) and is the exception in
  `ListSettles`.
- `list_messages` says that later pages page through the same set "however many messages are
  read or arrive in between" (`messages.py:44-47`, `MessagesPage.tsx:28-30`). `set_read` stamps
  `read_at` before its commit (`messages.py:85-86`) and a message is stamped with the start of
  the INSERT's transaction, so a first page whose moment falls in that gap and a later page
  as of it disagree by one message. The case is in the model (`DateRead`, `Commit`) and is the
  exception in `PagesTile`.
- A setup of the section fades that throws leaves the opacities it had written until the next
  cleanup: `ctx.revert()` does not know of them, where `gsap.ts:29-30` says that no content is left
  hidden (`runSafely` in `Entrance`; `NothingHidden` allows it by `context.sections`). That `apply`
  throws halfway is the model's choice; nothing in it is likely to.
- Remove is not blocked during a CV upload: the page can end with a removed
  CV (`crossed`). A body read before a deletion and cached after it stays in the cache
  until evicted; it is never served, as the metadata is read first.
- A confirmation dialog closed by the platform whose request fails before the close
  event arrives loses the error message.
- Cancelling while two-factor is being enabled leaves the page at "off" until the next
  attempt is answered with a conflict; a failed reload after a conflict says nothing.
- A Lenis created while a dialog is open (the motion preference changed) is not
  stopped (`fresh`); the page scrolls behind that dialog.
- The glass does not follow a shift of the layout above a box that itself keeps its size;
  a lost WebGL context is never restored.
- Content that moves a reader in the middle of their own scrolling during a rebuild
  puts them back where they last rested.
