---------------------------- MODULE ContentOrder ----------------------------
(***************************************************************************)
(* The display order of one sortable content collection                    *)
(* (src/backend/app/services/content_admin.py): where a new row is placed  *)
(* and how a reorder rewrites sort_order, by overlapping requests, each in *)
(* a transaction of its own at READ COMMITTED.  A request reads the order  *)
(* without a lock, then updates row by row; a row it updated is locked     *)
(* until its transaction ends, and its changes are seen only then.         *)
(*                                                                         *)
(* A slug is a number, and slugs compare as numbers.  An update without    *)
(* sortOrder (the only one the admin panel sends) leaves the order alone.  *)
(***************************************************************************)
EXTENDS Naturals, Sequences, FiniteSets, FiniteSetsExt, SequencesExt

CONSTANTS
  NumSlugs,      (* The slugs are 1 .. NumSlugs.                             *)
  When,          (* When[s]: _chronology's sort key of experience entry s.   *)
  Requests,      (* Concurrent reorder and create requests.                  *)
  None,          (* No holder of a lock.                                     *)
  MaxSort,       (* Bound on sort_order.                                     *)
  Deletable      (* Bound: the rows that clients delete.                     *)

Slugs == 1 .. NumSlugs

ASSUME OrderAssumption ==
  /\ NumSlugs \in Nat /\ MaxSort \in Nat /\ NumSlugs <= MaxSort + 1
  /\ When \in [Slugs -> Nat]
  /\ None \notin Requests
  /\ Deletable \subseteq Slugs

VARIABLES
  collection,    (* "experience", or any other sortable collection.          *)
  order,         (* order[s]: sort_order of row s, as committed.             *)
  lock,          (* lock[s]: the request whose transaction has updated row s *)
  req            (* req[r]: where request r is.                              *)

vars == <<collection, order, lock, req>>

Absent == MaxSort + 1   \* No row with that slug.

NoSlug == 0

\* A request: rows lists the rows in the order they are updated, new is the slug
\* to create; target holds the sort orders to write, todo the places in rows not
\* written yet; alone is history: nobody else has changed the order since it was
\* read.
Idle == [at |-> "idle", rows |-> <<>>, new |-> NoSlug, target |-> [s \in Slugs |-> 0],
         todo |-> {}, alone |-> FALSE]

Init ==
  /\ collection \in {"experience", "other"}
  /\ order = [s \in Slugs |-> IF s = NumSlugs THEN Absent ELSE s - 1]
  /\ lock = [s \in Slugs |-> None]
  /\ req = [r \in Requests |-> Idle]

-------------------------------------------------------------------------------

Present(o) == {s \in Slugs : o[s] # Absent}

Before(o, s, t) == o[s] < o[t] \/ (o[s] = o[t] /\ s < t)

\* list_items: ORDER BY sort_order, slug.
Display(o) ==
  CHOOSE rows \in [1 .. Cardinality(Present(o)) -> Present(o)] :
    \A i, j \in DOMAIN rows : i < j => Before(o, rows[i], rows[j])

Position(seq, s) == CHOOSE i \in DOMAIN seq : seq[i] = s

Start(r, at, rows, new, target, todo) ==
  req' = [req EXCEPT ![r] = [at |-> at, rows |-> rows, new |-> new, target |-> target,
                             todo |-> todo, alone |-> TRUE]]

\* The rows whose sort order differs from the target.
Changed(rows, target) == {i \in DOMAIN rows : order[rows[i]] # target[rows[i]]}

\* reorder_items: the index of each row in the list.
Indices(want) ==
  [s \in Slugs |-> IF s \in Present(order) THEN Position(want, s) - 1 ELSE 0]

\* Mutant: only the rows that move up are written.
ReorderReadMovingUp(r, want) ==
  LET target == Indices(want)
  IN  /\ req[r].at = "idle"
      /\ Len(want) = Cardinality(Present(order)) /\ Range(want) = Present(order)
      /\ Start(r, "reorder", want, NoSlug, target,
               {i \in DOMAIN want : order[want[i]] > target[want[i]]})
      /\ UNCHANGED <<collection, order, lock>>

\* reorder_items: every slug exactly once, or it is refused; only the rows whose
\* sort order differs from their index will be written, in the list's order.
ReorderRead(r, want) ==
  LET target == Indices(want)
  IN  /\ req[r].at = "idle"
      /\ Len(want) = Cardinality(Present(order)) /\ Range(want) = Present(order)
      /\ Start(r, "reorder", want, NoSlug, target, Changed(want, target))
      /\ UNCHANGED <<collection, order, lock>>

\* Mutant: the rows after the new one stay where they are.
PlacementInPlace(s) ==
  LET rows  == Display(order)
      index == Cardinality({i \in DOMAIN rows : When[rows[i]] <= When[s]})
  IN  [t \in Slugs |-> IF t = s THEN index
                       ELSE IF t \in Present(order) THEN Position(rows, t) - 1 ELSE 0]

\* _placed_sort_order of an experience entry: before the first row that comes
\* later on the timeline; that row and those after it move down one.
Placement(s) ==
  LET rows  == Display(order)
      later == {i \in DOMAIN rows : When[rows[i]] > When[s]}
      index == IF later = {} THEN Len(rows) ELSE Min(later) - 1
      place(i) == IF i - 1 < index THEN i - 1 ELSE i
  IN  [t \in Slugs |-> IF t = s THEN index
                       ELSE IF t \in Present(order) THEN place(Position(rows, t)) ELSE 0]

\* _placed_sort_order of any other row: after the highest.
AfterLast(s) ==
  [t \in Slugs |->
     IF t # s THEN order[t]
     ELSE IF Present(order) = {} THEN 0
     ELSE Max({order[u] : u \in Present(order)}) + 1]

\* create_item up to the insert.  Its lookup of the slug and the reads of the
\* placement are one step: what commits in between fails the insert as well.
CreateRead(r, s) ==
  LET target == IF collection = "experience" THEN Placement(s) ELSE AfterLast(s)
  IN  /\ req[r].at = "idle" /\ order[s] = Absent
      /\ \A t \in Slugs : order[t] # Absent => target[t] <= MaxSort
      /\ target[s] <= MaxSort
      /\ Start(r, "create", Display(order), s, target, Changed(Display(order), target))
      /\ UNCHANGED <<collection, order, lock>>

\* The row of r's next UPDATE.
Row(r) == req[r].rows[Min(req[r].todo)]

\* _set_sort_orders: the next UPDATE, once nobody else's transaction has the
\* row; a row deleted meanwhile matches nothing.
Write(r) ==
  /\ req[r].todo # {}
  /\ LET s == Row(r) IN
     /\ lock[s] \in {None, r}
     /\ lock' = IF order[s] = Absent THEN lock ELSE [lock EXCEPT ![s] = r]
  /\ req' = [req EXCEPT ![r].todo = @ \ {Min(@)}]
  /\ UNCHANGED <<collection, order>>

Released(r) == [s \in Slugs |-> IF lock[s] = r THEN None ELSE lock[s]]

Written(r) == [s \in Slugs |-> IF lock[s] = r THEN req[r].target[s] ELSE order[s]]

\* r is over; whoever else has read the order has not read what r leaves.
Over(r) ==
  req' = [q \in Requests |->
            IF q = r \/ req[q].at = "idle" THEN Idle
            ELSE [req[q] EXCEPT !.alone = @ /\ order' = order]]

\* Mutant: the transaction is left open.
ReorderUncommitted(r) ==
  /\ req[r].at = "reorder" /\ req[r].todo = {}
  /\ UNCHANGED <<collection, order, lock>>
  /\ Over(r)

\* The reorder commits.
ReorderCommit(r) ==
  /\ req[r].at = "reorder" /\ req[r].todo = {}
  /\ order' = Written(r)
  /\ lock' = Released(r)
  /\ Over(r)
  /\ UNCHANGED collection

\* The insert and the commit of create_item.
CreateCommit(r) ==
  /\ req[r].at = "create" /\ req[r].todo = {}
  /\ LET s == req[r].new IN
     /\ order[s] = Absent
     /\ order' = [Written(r) EXCEPT ![s] = req[r].target[s]]
  /\ lock' = Released(r)
  /\ Over(r)
  /\ UNCHANGED collection

\* The transaction is rolled back: the slug was taken by another create, the
\* database ended a deadlock r is part of, or a statement failed.
Rollback(r) ==
  /\ lock' = Released(r)
  /\ order' = order
  /\ Over(r)
  /\ UNCHANGED collection

CreateConflict(r) ==
  /\ req[r].at = "create" /\ req[r].todo = {} /\ order[req[r].new] # Absent
  /\ Rollback(r)

Holder(r) == lock[Row(r)]

Blocked(r) == req[r].todo # {} /\ Holder(r) \notin {None, r}

\* PostgreSQL's deadlock check: r waits in a cycle.
DeadlockEnds(r) ==
  /\ \E cycle \in SUBSET Requests :
       /\ r \in cycle
       /\ \A q \in cycle : Blocked(q)
       /\ {Holder(q) : q \in cycle} = cycle
  /\ Rollback(r)

Fails(r) ==
  /\ req[r].at # "idle"
  /\ Rollback(r)

\* delete_item, once nobody else's transaction has the row.
Delete(s) ==
  /\ order[s] # Absent /\ lock[s] = None
  /\ order' = [order EXCEPT ![s] = Absent]
  /\ req' = [q \in Requests |-> IF req[q].at = "idle" THEN Idle ELSE [req[q] EXCEPT !.alone = FALSE]]
  /\ UNCHANGED <<collection, lock>>

-------------------------------------------------------------------------------

\* The lists a client may ask for: the rows, each once.
Lists == {want \in UNION {[1 .. n -> Slugs] : n \in 1 .. NumSlugs} :
            Cardinality(Range(want)) = Len(want)}

Step(r) ==
  Write(r) \/ ReorderCommit(r) \/ CreateCommit(r) \/ CreateConflict(r) \/ DeadlockEnds(r)

Next ==
  \/ \E r \in Requests :
       \/ \E want \in Lists : ReorderRead(r, want)
       \/ \E s \in Slugs : CreateRead(r, s)
       \/ Step(r) \/ Fails(r)
  \/ \E s \in Deletable : Delete(s)

Spec == Init /\ [][Next]_vars

\* A statement that can run is answered, the database ends deadlocks, and it
\* grants a row lock in the order it was asked for: no request is passed over
\* for ever.
FairSpec == Spec /\ \A r \in Requests : SF_vars(Step(r))

-------------------------------------------------------------------------------
(* Properties                                                               *)

\* Every variable has its type; who writes a row has read the order.
TypeOK ==
  /\ collection \in {"experience", "other"}
  /\ order \in [Slugs -> 0 .. Absent]
  /\ lock \in [Slugs -> Requests \union {None}]
  /\ req \in [Requests -> [at : {"idle", "reorder", "create"}, rows : Seq(Slugs),
                           new : Slugs \union {NoSlug}, target : [Slugs -> 0 .. Absent],
                           todo : SUBSET (1 .. NumSlugs), alone : BOOLEAN]]
  /\ \A s \in Slugs : lock[s] # None => order[s] # Absent /\ req[lock[s]].at # "idle"

\* A reorder that nobody overlapped leaves exactly the order it was asked for,
\* sort orders 0 .. n-1, although it writes only the rows that moved.
ReorderExact ==
  [][\A r \in Requests : ReorderCommit(r) /\ req[r].alone =>
       /\ Display(order') = req[r].rows
       /\ \A i \in DOMAIN req[r].rows : order'[req[r].rows[i]] = i - 1]_vars

Chronological(rows) == \A i, j \in DOMAIN rows : i < j => When[rows[i]] <= When[rows[j]]

\* A row whose creation nobody overlapped does not disturb the others, and goes
\* last, or where a chronological timeline stays chronological.
CreatePlaces ==
  [][\A r \in Requests : CreateCommit(r) /\ req[r].alone =>
       LET s == req[r].new
           before == Display(order)
           after == Display(order')
       IN  /\ RemoveAt(after, Position(after, s)) = before
           /\ collection = "other" => after[Len(after)] = s
           /\ collection = "experience" /\ Chronological(before) => Chronological(after)]_vars

\* Requests that wait for each other's rows do not wait forever.
RequestsEnd == \A r \in Requests : req[r].at # "idle" ~> req[r].at = "idle"

\* Reorders alone: no row comes or goes.
ReorderNext ==
  \E r \in Requests :
    (\E want \in Lists : ReorderRead(r, want)) \/ Write(r) \/ ReorderCommit(r) \/ DeadlockEnds(r) \/ Fails(r)
ReorderSpec == Init /\ [][ReorderNext]_vars

\* What the API's documentation says of a reorder, of reorders alone: it rewrites
\* the sort orders of the list to 0 .. n-1.  One that others have overlapped may
\* count as having come before them, and then the list is as they left it; it is
\* never a mixture that nobody asked for.
ReorderRewrites ==
  [][\A r \in Requests : ReorderCommit(r) =>
       \E rows \in {req[r].rows, Display(order)} :
         \A i \in DOMAIN rows : order'[rows[i]] = i - 1]_vars

=============================================================================
