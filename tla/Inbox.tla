-------------------------------- MODULE Inbox --------------------------------
(***************************************************************************)
(* The owner's inbox in one tab of the admin panel: the list, read, unread *)
(* and delete requests of services/messages.py, the page that makes them   *)
(* (pages/MessagesPage.tsx over hooks/useAdminQuery.ts) and the unread     *)
(* badge of the shell (AdminLayout.tsx), which follows the summary and the *)
(* page.  Messages arrive and other tabs change them in between; answers   *)
(* come in any order, or fail.  What a transaction dates (a message's      *)
(* arrival, a read) is dated before it commits, and seen only after.       *)
(*                                                                         *)
(* A message is its number, in order of arrival.  Instants are numbers,    *)
(* and 0 is none: an unread message's readAt, a URL without asOf.          *)
(***************************************************************************)
EXTENDS Naturals, Sequences, FiniteSets

CONSTANTS
  NumMessages,   (* Bound: messages that ever arrive.                        *)
  Arrived,       (* How many of them are there at the start.                 *)
  PageSize,      (* MESSAGES_PAGE_SIZE.                                      *)
  MaxTime,       (* Bound on the clock.                                      *)
  MaxMishaps,    (* Bound: arrivals, changes in other tabs, failed requests. *)
  MaxClicks      (* Bound: what the user does on the page.                   *)

Bounds ==
  /\ NumMessages \in Nat /\ Arrived \in 0 .. NumMessages
  /\ PageSize \in Nat \ {0}
  /\ MaxTime \in Nat /\ Arrived <= MaxTime
  /\ MaxMishaps \in Nat /\ MaxClicks \in Nat

VARIABLES
  clock,         (* The last instant at which something was dated.           *)
  msg,           (* msg[i]: the row of message i, and the date that another  *)
                 (* tab's transaction or the form's, not committed, gives it. *)
  page,          (* The messages page.                                       *)
  patch,         (* patch[i]: the read or unread request for message i.      *)
  removal,       (* The delete dialog and its request.                       *)
  shell,         (* The badge, and the summary request.                      *)
  mishaps,       (* Arrivals, changes in other tabs and failures so far.     *)
  clicks,        (* How much the user has done.                              *)
  walk           (* History: what is being paged through (see PagesTile).    *)

vars == <<clock, msg, page, patch, removal, shell, mishaps, clicks, walk>>

Messages == 1 .. NumMessages
Views == {"all", "unread"}
Time == 0 .. MaxTime

Lesser(a, b) == IF a < b THEN a ELSE b
Greater(a, b) == IF a < b THEN b ELSE a

Unread == {i \in Messages : msg[i].there /\ msg[i].read = 0}

NoData == [key |-> <<>>, items |-> <<>>, total |-> 0, asOf |-> 0]
NoFetch == [at |-> "none", asOf |-> 0, total |-> 0, items |-> <<>>, unread |-> 0]
NoPatch == [at |-> "none", want |-> FALSE, was |-> FALSE, seen |-> 0, when |-> 0, live |-> TRUE]
NoRemoval == [target |-> 0, unread |-> FALSE, at |-> "none"]

\* The page as it mounts, on its first URL: useAdminQuery fetches at once.
Load(p) ==
  [p EXCEPT !.status = "loading", !.reloadAsOf = 0,
            !.fetch = [NoFetch EXCEPT !.at = "sent", !.asOf = IF p.asOf # 0 THEN p.asOf ELSE p.reloadAsOf]]

Unmounted == [mounted |-> FALSE, view |-> "all", number |-> 1, asOf |-> 0, data |-> NoData,
              status |-> "loading", fetch |-> NoFetch, reloadAsOf |-> 0, open |-> {}]
Mounted == Load([Unmounted EXCEPT !.mounted = TRUE])

Requested == [at |-> "sent", count |-> 0, stale |-> FALSE]
NoSummary == [Requested EXCEPT !.at = "none"]

Init ==
  /\ clock = Arrived
  /\ msg = [i \in Messages |-> [there |-> i <= Arrived, created |-> IF i <= Arrived THEN i ELSE 0,
                               read |-> 0, dated |-> 0]]
  /\ page = Mounted
  /\ patch = [i \in Messages |-> NoPatch]
  /\ removal = NoRemoval
  /\ shell = [known |-> FALSE, unread |-> 0, request |-> Requested, again |-> FALSE]
  /\ mishaps = 0 /\ clicks = 0
  /\ walk = [asOf |-> 0, view |-> "all", order |-> <<>>, reshaped |-> FALSE, overtaken |-> FALSE]

-------------------------------------------------------------------------------
(* The server.                                                               *)

Now == clock + 1
Tick == clock < MaxTime /\ clock' = Now

\* Mutant: a message read since the first page leaves the unread view.
AsOfNow(view, moment) ==
  {i \in Messages : msg[i].there /\ msg[i].created <= moment /\ (view = "all" \/ msg[i].read = 0)}

\* list_messages: the set as of a moment, newest first.
AsOf(view, moment) ==
  {i \in Messages : /\ msg[i].there /\ msg[i].created <= moment
                    /\ view = "all" \/ msg[i].read = 0 \/ msg[i].read > moment}
Newest(S) == [n \in 1 .. Cardinality(S) |-> CHOOSE i \in S : Cardinality({j \in S : j >= i}) = n]
PageOf(order, number) == SubSeq(order, (number - 1) * PageSize + 1, Lesser(number * PageSize, Len(order)))

\* A change this tab or another has committed, as the history sees it: it may
\* undo what the set as of the moment, which is not after the walk's, was made of.
ByThen(moment) == moment \in 1 .. walk.asOf
Reshape(undone) ==
  walk' = [walk EXCEPT !.reshaped = @ \/ undone,
                       !.overtaken = @ \/ page.fetch.at = "answered"]

\* moment, and SELECT count; the page's own asOf is taken as it came.
ListCount ==
  /\ page.fetch.at = "sent"
  /\ LET moment == IF page.fetch.asOf = 0 THEN Now ELSE page.fetch.asOf
         order == Newest(AsOf(page.view, moment))
     IN /\ IF page.fetch.asOf = 0
           THEN /\ Tick
                /\ walk' = [walk EXCEPT !.asOf = moment, !.view = page.view,
                                        !.order = order, !.reshaped = FALSE]
           ELSE UNCHANGED <<clock, walk>>
        /\ page' = [page EXCEPT !.fetch.at = "counted", !.fetch.asOf = moment, !.fetch.total = Len(order)]
  /\ UNCHANGED <<msg, patch, removal, shell, mishaps>>

ListRows ==
  /\ page.fetch.at = "counted"
  /\ LET rows == PageOf(Newest(AsOf(page.view, page.fetch.asOf)), page.number)
     IN page' = [page EXCEPT !.fetch.at = "listed",
                   !.fetch.items = [n \in 1 .. Len(rows) |-> [id |-> rows[n], read |-> msg[rows[n]].read # 0]]]
  /\ UNCHANGED <<clock, msg, patch, removal, shell, mishaps, walk>>

ListUnread ==
  /\ page.fetch.at = "listed"
  /\ page' = [page EXCEPT !.fetch.at = "answered", !.fetch.unread = Cardinality(Unread)]
  /\ UNCHANGED <<clock, msg, patch, removal, shell, mishaps, walk>>

SummaryRead ==
  /\ shell.request.at = "sent"
  /\ shell' = [shell EXCEPT !.request.at = "answered", !.request.count = Cardinality(Unread)]
  /\ UNCHANGED <<clock, msg, page, patch, removal, mishaps, walk>>

\* set_read, up to its commit: the row is read without a lock.
ReadRow(i) ==
  /\ patch[i].at = "sent"
  /\ patch' = [patch EXCEPT ![i].at = IF msg[i].there THEN "read" ELSE "failed", ![i].seen = msg[i].read]
  /\ UNCHANGED <<clock, msg, page, removal, shell, mishaps, walk>>

\* What was read decides whether there is anything to write: the date first,
DateRead(i) ==
  /\ patch[i].at = "read" /\ patch[i].want /\ patch[i].seen = 0
  /\ Tick /\ patch' = [patch EXCEPT ![i].at = "dated", ![i].when = Now]
  /\ UNCHANGED <<msg, page, removal, shell, mishaps, walk>>

\* and then the commit, where an UPDATE that finds no row fails.
SetRead(i) ==
  LET p == patch[i]
      write == p.at = "dated" \/ (~p.want /\ p.seen # 0)
  IN /\ p.at = "dated" \/ (p.at = "read" /\ (p.want => p.seen # 0))
     /\ IF write /\ msg[i].there
        THEN msg' = [msg EXCEPT ![i].read = p.when] /\ Reshape(ByThen(p.when) \/ ByThen(msg[i].read))
        ELSE UNCHANGED <<msg, walk>>
     /\ patch' = [patch EXCEPT ![i].at = IF write /\ ~msg[i].there THEN "failed" ELSE "answered"]
     /\ UNCHANGED <<clock, page, removal, shell, mishaps>>

\* delete_message; one already gone is a 404, which counts as done.
Delete ==
  /\ removal.at = "sent"
  /\ removal' = [removal EXCEPT !.at = "answered"]
  /\ msg' = [msg EXCEPT ![removal.target].there = FALSE]
  /\ Reshape(TRUE)
  /\ UNCHANGED <<clock, page, patch, shell, mishaps>>

\* The contact form's INSERT begins, and dates its message; another tab dates the
\* read of a message that it has found unread, or marks one unread, or deletes it.
Outside ==
  /\ mishaps < MaxMishaps /\ mishaps' = mishaps + 1
  /\ \/ \E i \in Messages :
          /\ msg[i].dated = 0
          /\ msg[i].created = 0 => \A j \in 1 .. i - 1 : msg[j].created # 0 \/ msg[j].dated # 0
          /\ msg[i].created # 0 => msg[i].there
          /\ Tick /\ msg' = [msg EXCEPT ![i].dated = Now] /\ UNCHANGED walk
     \/ \E i \in Messages :
          /\ msg[i].there /\ UNCHANGED clock
          /\ \/ /\ msg[i].read # 0 /\ Reshape(ByThen(msg[i].read))
                /\ msg' = [msg EXCEPT ![i].read = 0]
             \/ msg' = [msg EXCEPT ![i].there = FALSE] /\ Reshape(TRUE)
  /\ UNCHANGED <<page, patch, removal, shell>>

\* Their commits: the message is there from now on, or read unless it is gone.
Commit(i) ==
  /\ msg[i].dated # 0
  /\ msg' = [msg EXCEPT ![i] =
               IF msg[i].created = 0 THEN [there |-> TRUE, created |-> msg[i].dated, read |-> 0, dated |-> 0]
               ELSE [msg[i] EXCEPT !.read = IF msg[i].there THEN msg[i].dated ELSE msg[i].read, !.dated = 0]]
  /\ Reshape(ByThen(msg[i].dated) \/ ByThen(msg[i].read))
  /\ UNCHANGED <<clock, page, patch, removal, shell, mishaps>>

Server ==
  \/ ListCount \/ ListRows \/ ListUnread \/ SummaryRead \/ Delete \/ Outside
  \/ \E i \in Messages : ReadRow(i) \/ DateRead(i) \/ SetRead(i) \/ Commit(i)

-------------------------------------------------------------------------------
(* The shell.                                                                *)

\* setUnread: a summary requested before it no longer counts.
SetUnread(s, count) == [s EXCEPT !.known = TRUE, !.unread = count, !.request.stale = TRUE]
\* Mutant: the badge is counted down below zero.
AdjustBelow(s, change) ==
  IF ~s.known THEN [s EXCEPT !.request.stale = TRUE]
  ELSE SetUnread(s, CASE change = "less" -> s.unread - 1 [] change = "more" -> s.unread + 1 [] OTHER -> s.unread)

Adjust(s, change) ==
  IF ~s.known THEN [s EXCEPT !.request.stale = TRUE]
  ELSE SetUnread(s, CASE change = "less" -> IF s.unread = 0 THEN 0 ELSE s.unread - 1
                      [] change = "more" -> s.unread + 1
                      [] OTHER -> s.unread)

\* Mutant: a forced refresh joins the running request, and that is all.
refreshJoins(s, force) ==
  IF s.request.at # "none" THEN s ELSE [s EXCEPT !.request = Requested]

\* refresh: joins a running request; a forced one asks for another after it.
refresh(s, force) ==
  IF s.request.at # "none" THEN [s EXCEPT !.again = @ \/ force]
  ELSE [s EXCEPT !.request = Requested]

\* .finally(): the request made during this one.
Finish(s) ==
  LET done == [s EXCEPT !.request = NoSummary, !.again = FALSE]
  IN IF s.again THEN refresh(done, FALSE) ELSE done

SummaryLands ==
  /\ shell.request.at = "answered"
  /\ shell' = Finish(IF shell.request.stale THEN shell
                     ELSE [shell EXCEPT !.known = TRUE, !.unread = shell.request.count])
  /\ UNCHANGED <<clock, msg, page, patch, removal, mishaps, walk>>

\* Its failure is not shown: the count stays as it was.
Fail == mishaps < MaxMishaps /\ mishaps' = mishaps + 1
SummaryFails ==
  /\ shell.request.at # "none" /\ Fail
  /\ shell' = Finish(shell)
  /\ UNCHANGED <<clock, msg, page, patch, removal, walk>>

-------------------------------------------------------------------------------
(* The page.                                                                 *)

Key(p) == <<p.view, p.number, p.asOf>>
Shown == IF page.data.key = Key(page) THEN page.data ELSE NoData
Pages(total) == Greater(1, (total + PageSize - 1) \div PageSize)

\* setData: only the data of the key on screen is edited.
Edit(p, items, total) ==
  IF p.data.key = Key(p) THEN [p EXCEPT !.data.items = items, !.data.total = total] ELSE p

\* An answer to the page's fetch: its data, the badge, and, on a page emptied
\* by deletions, the last page that has messages.
ListLands ==
  /\ page.fetch.at = "answered"
  /\ LET f == page.fetch
         ready == [page EXCEPT !.status = "ready", !.fetch = NoFetch,
                     !.data = [key |-> Key(page), items |-> f.items, total |-> f.total, asOf |-> f.asOf]]
     IN page' = IF f.items = <<>> /\ page.number > 1
                THEN Load([ready EXCEPT !.number = Lesser(page.number - 1, Pages(f.total)), !.asOf = f.asOf])
                ELSE ready
  /\ shell' = SetUnread(shell, page.fetch.unread)
  /\ UNCHANGED <<clock, msg, patch, removal, mishaps, walk>>

ListFails ==
  /\ page.fetch.at # "none" /\ Fail
  /\ page' = [page EXCEPT !.status = "error", !.fetch = NoFetch]
  /\ UNCHANGED <<clock, msg, patch, removal, shell, walk>>

\* The views, the pages (another URL, so another key), and Retry; whatever was
\* being fetched is aborted.
Browse ==
  /\ page.mounted /\ removal.target = 0
  /\ \/ \E view \in Views : Key(page) # <<view, 1, 0>> /\ page' = Load([page EXCEPT !.view = view, !.number = 1, !.asOf = 0])
     \/ \E n \in {page.number - 1, page.number + 1} :
          /\ Shown # NoData /\ n >= 1 /\ n <= Pages(Shown.total)
          /\ page' = Load([page EXCEPT !.number = n, !.asOf = Shown.asOf])
     \/ page.status = "error" /\ page' = Load(page)
  /\ UNCHANGED <<clock, msg, patch, removal, shell, mishaps, walk>>

\* The history notes a click on a row that shows what is no longer so.
Act(row) == walk' = [walk EXCEPT !.overtaken = @ \/ (row.read # (msg[row.id].read # 0))]
Rows == {Shown.items[n] : n \in 1 .. Len(Shown.items)}

\* toggle: opening an unread message marks it read, unless a change is under way.
toggle(row) ==
  /\ removal.target = 0
  /\ page' = [page EXCEPT !.open = IF row.id \in @ THEN @ \ {row.id} ELSE @ \cup {row.id}]
  /\ patch' = IF row.id \in page.open \/ row.read \/ patch[row.id].at # "none" THEN patch
              ELSE [patch EXCEPT ![row.id] = [NoPatch EXCEPT !.at = "sent", !.want = TRUE]]
  /\ Act(row)
  /\ UNCHANGED <<clock, msg, removal, shell, mishaps>>

markUnread(row) ==
  /\ removal.target = 0 /\ row.id \in page.open /\ patch[row.id].at = "none"
  /\ patch' = [patch EXCEPT ![row.id] = [NoPatch EXCEPT !.at = "sent", !.was = row.read]]
  /\ Act(row)
  /\ UNCHANGED <<clock, msg, page, removal, shell, mishaps>>

\* The answer: the row returned takes its place, the badge moves at once, and
\* the summary is asked for the server's count.
PatchLands(i) ==
  LET p == patch[i]
      items == [n \in 1 .. Len(page.data.items) |->
                  IF page.data.items[n].id = i THEN [id |-> i, read |-> p.want] ELSE page.data.items[n]]
      change == IF p.want THEN "less" ELSE IF p.was THEN "more" ELSE "none"
      counted == IF change = "none" THEN shell ELSE Adjust(shell, change)
  IN /\ p.at = "answered"
     /\ patch' = [patch EXCEPT ![i] = NoPatch]
     /\ IF p.live
        THEN /\ page' = [Edit(page, items, page.data.total) EXCEPT !.open = IF p.want THEN @ ELSE @ \ {i}]
             /\ shell' = refresh(counted, TRUE)
        ELSE UNCHANGED <<page, shell>>
     /\ UNCHANGED <<clock, msg, removal, mishaps, walk>>

\* It failed, at the server or on its way there or back.
PatchFails(i) ==
  /\ \/ patch[i].at = "failed" /\ UNCHANGED mishaps
     \/ patch[i].at \in {"sent", "answered"} /\ Fail
  /\ patch' = [patch EXCEPT ![i] = NoPatch]
  /\ UNCHANGED <<clock, msg, page, removal, shell, walk>>

\* useConfirmedAction: the dialog, which is modal, its request, its answer.
OpenRemoval(row) ==
  /\ removal.target = 0 /\ row.id \in page.open /\ patch[row.id].at = "none"
  /\ removal' = [target |-> row.id, unread |-> ~row.read, at |-> "none"]
  /\ Act(row)
  /\ UNCHANGED <<clock, msg, page, patch, shell, mishaps>>

ConfirmRemoval ==
  /\ removal.target # 0 /\ removal.at = "none"
  /\ removal' \in {NoRemoval, [removal EXCEPT !.at = "sent"]}
  /\ UNCHANGED <<clock, msg, page, patch, shell, mishaps, walk>>

\* filter, of items that have an id at most once.
Without(items, id) ==
  LET places == {n \in DOMAIN items : items[n].id = id}
      at == CHOOSE n \in places : TRUE
  IN IF places = {} THEN items
     ELSE [n \in 1 .. Len(items) - 1 |-> IF n < at THEN items[n] ELSE items[n + 1]]

RemovalLands ==
  /\ removal.at = "answered"
  /\ LET items == Without(page.data.items, removal.target)
         total == IF page.data.total = 0 THEN 0 ELSE page.data.total - 1
     IN page' = Load([Edit(page, items, total) EXCEPT !.reloadAsOf = Shown.asOf])
  /\ shell' = IF removal.unread THEN Adjust(shell, "less") ELSE shell
  /\ removal' = NoRemoval
  /\ UNCHANGED <<clock, msg, patch, mishaps, walk>>

RemovalFails ==
  /\ removal.at \in {"sent", "answered"} /\ Fail
  /\ removal' = [removal EXCEPT !.at = "none"]
  /\ UNCHANGED <<clock, msg, page, patch, shell, walk>>

\* To the dashboard, which refreshes the summary; the page's requests are
\* dropped, though the server may still carry them out.  And back.
Leave ==
  /\ page.mounted /\ page' = Unmounted
  /\ removal.target = 0 /\ UNCHANGED removal
  /\ mishaps' = IF \E i \in Messages : patch[i].at # "none" THEN Greater(1, mishaps) ELSE mishaps
  /\ patch' = [i \in Messages |-> IF patch[i].at = "none" THEN NoPatch ELSE [patch[i] EXCEPT !.live = FALSE]]
  /\ shell' = refresh(shell, FALSE)
  /\ UNCHANGED <<clock, msg, walk>>

Return ==
  /\ ~page.mounted /\ page' = Mounted
  /\ UNCHANGED <<clock, msg, patch, removal, shell, mishaps, walk>>

User ==
  \/ /\ clicks < MaxClicks /\ clicks' = clicks + 1
     /\ \/ Browse \/ Leave
        \/ \E row \in Rows : toggle(row) \/ markUnread(row) \/ OpenRemoval(row)
  \/ (ConfirmRemoval \/ Return) /\ UNCHANGED clicks

Landings ==
  \/ SummaryLands \/ SummaryFails \/ ListLands \/ ListFails \/ RemovalLands \/ RemovalFails
  \/ \E i \in Messages : PatchLands(i) \/ PatchFails(i)

Next ==
  \/ User
  \/ Server /\ UNCHANGED clicks
  \/ Landings /\ UNCHANGED clicks

Spec == Init /\ [][Next]_vars

-------------------------------------------------------------------------------

Item == [id : Messages, read : BOOLEAN]

TypeOK ==
  /\ clock \in Time
  /\ msg \in [Messages -> [there : BOOLEAN, created : Time, read : Time, dated : Time]]
  /\ page.view \in Views /\ page.number \in Nat \ {0} /\ page.asOf \in Time
  /\ page.status \in {"loading", "ready", "error"} /\ page.open \subseteq Messages
  /\ page.data.items \in Seq(Item) /\ page.fetch.items \in Seq(Item)
  /\ patch \in [Messages -> [at : {"none", "sent", "read", "dated", "answered", "failed"},
                             want : BOOLEAN, was : BOOLEAN, seen : Time, when : Time, live : BOOLEAN]]
  /\ removal \in [target : 0 .. NumMessages, unread : BOOLEAN, at : {"none", "sent", "answered"}]
  /\ shell \in [known : BOOLEAN, unread : Nat, again : BOOLEAN,
                request : [at : {"none", "sent", "answered"}, count : Nat, stale : BOOLEAN]]

\* Paging forward and back from a first page taken as of a moment shows that
\* moment's messages, each once, whatever arrives or is read after it
\* (services/messages.py list_messages, MessagesPage's asOf).  What shifts a page:
\* a deletion; a message, read by that moment, marked unread or read again by a
\* request that had found it unread; and, against the docstring of list_messages,
\* an arrival or a read dated by that moment and committed after it.
PagesTile ==
  page.status = "ready" /\ Shown.asOf = walk.asOf /\ page.view = walk.view /\ ~walk.reshaped =>
    [n \in 1 .. Len(Shown.items) |-> Shown.items[n].id] = PageOf(walk.order, page.number)

Quiet ==
  /\ page.fetch.at = "none" /\ removal.at = "none" /\ shell.request.at = "none"
  /\ \A i \in Messages : patch[i].at = "none"

\* Once every request is answered, the badge counts the unread messages: after
\* any overlapping reads, unread marks and deletions of this tab, provided that
\* none failed, that nobody else changed anything, and that no list was on its
\* way back while a change was made, nor a stale row clicked (AdminLayout's
\* joined and forced refreshes, and the version of the count).
BadgeSettles ==
  Quiet /\ mishaps = 0 /\ ~walk.overtaken => shell.unread = Cardinality(Unread)

\* The same of every order of answers: "The navigation badge follows every
\* change" (MessagesPage.tsx:30).
BadgeFollows ==
  Quiet /\ mishaps = 0 => shell.unread = Cardinality(Unread)
=============================================================================
