------------------------------- MODULE ListPage -------------------------------
(***************************************************************************)
(* One collection's list in the admin panel (content/ContentList.tsx over  *)
(* hooks/useAdminQuery.ts): rows are moved and deleted on the screen, each *)
(* change is saved as it is made, answers and reloads come back late, out  *)
(* of order or not at all, and other tabs change the collection meanwhile. *)
(* At the server a request is one step here; ContentOrder follows its      *)
(* statements.                                                             *)
(***************************************************************************)
EXTENDS Naturals, Sequences, FiniteSets

CONSTANTS
  Slugs,           (* The rows there can be.                                 *)
  MaxAccidents     (* Bound: failed requests and changes in other tabs.      *)
Bounds == IsFiniteSet(Slugs) /\ MaxAccidents \in Nat

VARIABLES
  rows,            (* The collection at the server, in display order.        *)
  list,            (* [status, loaded, data]: useAdminQuery's state.         *)
  load,            (* The reload: [at, items, behind].                       *)
  moving,          (* The move's request: [at, next, before, items, behind]. *)
  removing,        (* The delete dialog and its request: [target, at].       *)
  accidents,
  unseen           (* History: what the screen need not show (ListSettles).  *)

vars == <<rows, list, load, moving, removing, accidents, unseen>>

Orders == {s \in UNION {[1..n -> Slugs] : n \in 0..Cardinality(Slugs)} : \A i, j \in DOMAIN s : s[i] = s[j] => i = j}
Row(s) == {s[i] : i \in DOMAIN s}
\* filter, of a list that has a slug at most once.
Without(s, slug) ==
  IF slug \notin Row(s) THEN s
  ELSE LET at == CHOOSE i \in DOMAIN s : s[i] = slug
       IN [n \in 1 .. Len(s) - 1 |-> IF n < at THEN s[n] ELSE s[n + 1]]
swapped(s, a, b) == [s EXCEPT ![a] = s[b], ![b] = s[a]]

NoOne == "nobody"
NoLoad == [at |-> "none", items |-> <<>>, behind |-> FALSE]
Asked == [NoLoad EXCEPT !.at = "sent"]
NoMove == [at |-> "none", next |-> <<>>, before |-> <<>>, items |-> <<>>, behind |-> FALSE]
NoRemoval == [target |-> NoOne, at |-> "none"]

Init ==
  /\ rows \in Orders
  /\ list = [status |-> "loading", loaded |-> FALSE, data |-> <<>>] /\ load = Asked
  /\ moving = NoMove /\ removing = NoRemoval /\ accidents = 0 /\ unseen = FALSE

-------------------------------------------------------------------------------
(* The server, and other tabs.                                               *)

ListItems ==
  /\ load.at = "sent" /\ load' = [load EXCEPT !.at = "answered", !.items = rows]
  /\ UNCHANGED <<rows, list, moving, removing, accidents, unseen>>

\* reorder_items: every row once, or the request is refused.  A Retry's answer
\* that is under way misses it.
ReorderItems ==
  /\ moving.at = "sent"
  /\ IF Row(moving.next) = Row(rows)
     THEN /\ rows' = moving.next
          /\ moving' = [moving EXCEPT !.at = "answered", !.items = moving.next]
          /\ load' = [load EXCEPT !.behind = @ \/ load.at = "answered"]
     ELSE moving' = [moving EXCEPT !.at = "refused"] /\ UNCHANGED <<rows, load>>
  /\ UNCHANGED <<list, removing, accidents, unseen>>

\* delete_item; one already gone is a 404, which counts as done.
DeleteItem ==
  /\ removing.at = "sent" /\ removing' = [removing EXCEPT !.at = "answered"]
  /\ rows' = Without(rows, removing.target)
  /\ UNCHANGED <<list, load, moving, accidents, unseen>>

Accident == accidents < MaxAccidents /\ accidents' = accidents + 1

\* Another tab moves, deletes or creates: answers that are under way miss it.
Outside ==
  /\ Accident
  /\ rows' \in Orders \ {rows}
  /\ load' = [load EXCEPT !.behind = @ \/ load.at = "answered"]
  /\ moving' = [moving EXCEPT !.behind = @ \/ moving.at = "answered"]
  /\ unseen' = TRUE
  /\ UNCHANGED <<list, removing>>

-------------------------------------------------------------------------------
(* The page.                                                                 *)

\* Mutant: moves do not wait for a reload.
busyMoving == moving.at # "none"

\* A reload's answer would replace whatever a move made of the list meanwhile.
busy == moving.at # "none" \/ list.status = "loading"

Modal == removing.target # NoOne

\* The list replaces what is on the screen, whatever was made of it.
ListLands ==
  /\ load.at = "answered" /\ load' = NoLoad
  /\ list' = [status |-> "ready", loaded |-> TRUE, data |-> load.items]
  /\ unseen' = load.behind
  /\ UNCHANGED <<rows, moving, removing, accidents>>

\* A failed reload leaves the list, with a notice and a Retry.
ListFails ==
  /\ load.at # "none" /\ Accident /\ load' = NoLoad
  /\ list' = [list EXCEPT !.status = "error"]
  /\ UNCHANGED <<rows, moving, removing, unseen>>

\* Retry does not wait for a move: what is read before the move commits and
\* lands after its answer is older than the screen.
retry ==
  /\ list.status = "error" /\ ~Modal
  /\ list' = [list EXCEPT !.status = "loading"] /\ load' = Asked
  /\ UNCHANGED <<rows, moving, removing, accidents, unseen>>

\* The move shows at once.
move(index, target) ==
  /\ list.loaded /\ ~busy /\ ~Modal /\ target \in DOMAIN list.data
  /\ LET next == swapped(list.data, index, target) IN
       /\ list' = [list EXCEPT !.data = next]
       /\ moving' = [NoMove EXCEPT !.at = "sent", !.next = next, !.before = list.data]
  /\ UNCHANGED <<rows, load, removing, accidents, unseen>>

\* The server's list takes its place.
MoveLands ==
  /\ moving.at = "answered" /\ moving' = NoMove
  /\ list' = [list EXCEPT !.data = moving.items]
  /\ unseen' = moving.behind
  /\ UNCHANGED <<rows, load, removing, accidents>>

\* It is rolled back, and the list fetched again: the server may have it.
MoveFails ==
  /\ \/ moving.at = "refused" /\ UNCHANGED accidents
     \/ moving.at \in {"sent", "answered"} /\ Accident
  /\ moving' = NoMove
  /\ list' = [list EXCEPT !.data = moving.before, !.status = "loading"] /\ load' = Asked
  /\ UNCHANGED <<rows, removing, unseen>>

\* The dialog, which is modal; its request; its answer.
openRemoval(slug) ==
  /\ list.loaded /\ ~busy /\ ~Modal
  /\ removing' = [NoRemoval EXCEPT !.target = slug]
  /\ UNCHANGED <<rows, list, load, moving, accidents, unseen>>

confirm ==
  /\ Modal /\ removing.at = "none"
  /\ removing' \in {NoRemoval, [removing EXCEPT !.at = "sent"]}
  /\ UNCHANGED <<rows, list, load, moving, accidents, unseen>>

RemovalLands ==
  /\ removing.at = "answered" /\ removing' = NoRemoval
  /\ list' = [list EXCEPT !.data = Without(@, removing.target)]
  /\ UNCHANGED <<rows, load, moving, accidents, unseen>>

\* The dialog stays; the row may be gone at the server.
RemovalFails ==
  /\ removing.at \in {"sent", "answered"} /\ Accident
  /\ removing' = [removing EXCEPT !.at = "none"]
  /\ unseen' = (unseen \/ removing.at = "answered")
  /\ UNCHANGED <<rows, list, load, moving>>

Next ==
  \/ ListItems \/ ReorderItems \/ DeleteItem \/ Outside
  \/ ListLands \/ ListFails \/ retry \/ MoveLands \/ MoveFails
  \/ \E index \in DOMAIN list.data, delta \in {"up", "down"} :
       IF delta = "up" THEN index > 1 /\ move(index, index - 1) ELSE move(index, index + 1)
  \/ \E slug \in Row(list.data) : openRemoval(slug)
  \/ confirm \/ RemovalLands \/ RemovalFails

Spec == Init /\ [][Next]_vars

-------------------------------------------------------------------------------

TypeOK ==
  /\ rows \in Orders /\ list \in [status : {"loading", "ready", "error"}, loaded : BOOLEAN, data : Orders]
  /\ load \in [at : {"none", "sent", "answered"}, items : Orders, behind : BOOLEAN]
  /\ moving \in [at : {"none", "sent", "answered", "refused"}, next : Orders, before : Orders,
                 items : Orders, behind : BOOLEAN]
  /\ removing \in [target : Slugs \cup {NoOne}, at : {"none", "sent", "answered"}]
  /\ accidents \in 0..MaxAccidents /\ unseen \in BOOLEAN

\* The list takes in every answer: with no request under way it is the server's,
\* order and all, after any failed, lost or refused move, unless another tab has
\* changed the collection since, a deletion's answer was lost, or the list that a
\* Retry read before a move was stored landed after the move's answer.  That last
\* puts the former order back on the screen: Retry does not wait for a move.
ListSettles ==
  list.status = "ready" /\ load.at = "none" /\ moving.at = "none" /\ removing.at = "none" /\ ~unseen =>
    list.data = rows
===============================================================================
