---------------------------- MODULE ScreensProofs ----------------------------
(***************************************************************************)
(* The three parts of Correspondence whose rows make their invariants      *)
(* long: the lists of the panel and the order of their rows, the form that *)
(* edits rows and the errors they carry, and the inbox with its pages and  *)
(* its badge.  With the parts of CorrespondenceProofs, they prove the      *)
(* invariants of all nine.                                                 *)
(***************************************************************************)
EXTENDS CorrespondenceProofs

-------------------------------------------------------------------------------
(* The lists.                                                                *)

Reloads == [at : {"none", "sent", "answered"}, items : List!Orders, behind : BOOLEAN]
Movings ==
  [at : {"none", "sent", "answered", "refused"}, next : List!Orders, before : List!Orders,
   items : List!Orders, behind : BOOLEAN]
Listings == [status : {"loading", "ready", "error"}, loaded : BOOLEAN, data : List!Orders]
Removings == [target : Slugs \cup {List!NoOne}, at : {"none", "sent", "answered"}]

\* A reload is under way just while the page is loading; and its answer, unless something
\* has been stored since it was read, is what the server has.
ReloadsInv ==
  /\ load.at # "none" <=> list.status = "loading"
  /\ load.at = "answered" /\ ~load.behind => load.items = rows

\* The dialog of a deletion is open alone.
ModalInv ==
  /\ removing.at # "none" => removing.target # List!NoOne
  /\ removing.target # List!NoOne => moving.at = "none" /\ load.at = "none"

\* The screen shows the server's list, but for a move or a deletion on its way.
ShownInv ==
  list.status = "ready" /\ ~unseen =>
    /\ moving.at = "none" /\ removing.at # "answered" => list.data = rows
    /\ removing.at = "answered" => List!Without(list.data, removing.target) = rows

MovedInv == moving.at = "answered" /\ ~moving.behind => moving.items = rows

ListTyped ==
  /\ rows \in List!Orders /\ list \in Listings /\ load \in Reloads /\ moving \in Movings
  /\ removing \in Removings /\ accidents \in 0 .. MaxAccidents /\ unseen \in BOOLEAN

ListInv == ListTyped /\ ReloadsInv /\ ModalInv /\ ShownInv /\ MovedInv

LEMMA ListTypes == List!TypeOK <=> ListTyped
  BY DEF List!TypeOK, ListTyped, Listings, Reloads, Movings, Removings

LEMMA SlugsCounted == List!Cardinality(Slugs) \in Nat /\ MaxAccidents \in Nat
<1>1. IsFiniteSet(Slugs) /\ MaxAccidents \in Nat
  BY CorrespondenceAssumption DEF List!Bounds, List!IsFiniteSet, IsFiniteSet
<1>2. List!Cardinality(Slugs) = Cardinality(Slugs)
  BY DEF List!Cardinality, Cardinality
<1> QED BY <1>1, <1>2, FS_CardinalityType

\* What a list in the server's order is, and what makes one.
LEMMA OrdersAre ==
  ASSUME NEW s \in List!Orders
  PROVE  /\ s \in Seq(Slugs) /\ Len(s) \in 0 .. List!Cardinality(Slugs)
         /\ DOMAIN s = 1 .. Len(s) /\ \A i \in DOMAIN s : s[i] \in Slugs
         /\ \A i, j \in DOMAIN s : s[i] = s[j] => i = j
<1>1. PICK n \in 0 .. List!Cardinality(Slugs) : s \in [1 .. n -> Slugs]
  BY DEF List!Orders
<1>2. n \in Nat
  BY <1>1, SlugsCounted
<1>3. s \in Seq(Slugs) /\ Len(s) = n /\ DOMAIN s = 1 .. n
  BY <1>1, <1>2
<1> QED BY <1>1, <1>3 DEF List!Orders

LEMMA OrdersMade ==
  ASSUME NEW n \in 0 .. List!Cardinality(Slugs), NEW s \in [1 .. n -> Slugs],
         \A i, j \in 1 .. n : s[i] = s[j] => i = j
  PROVE  s \in List!Orders
<1>1. DOMAIN s = 1 .. n
  OBVIOUS
<1> QED BY <1>1 DEF List!Orders

LEMMA NoRows == <<>> \in List!Orders
<1>1. 0 \in 0 .. List!Cardinality(Slugs) /\ <<>> \in [1 .. 0 -> Slugs]
  BY SlugsCounted
<1>2. \A i, j \in 1 .. 0 : <<>>[i] = <<>>[j] => i = j
  OBVIOUS
<1> QED BY <1>1, <1>2, OrdersMade

LEMMA SwappedOrder ==
  ASSUME NEW s \in List!Orders, NEW a \in DOMAIN s, NEW b \in DOMAIN s
  PROVE  List!swapped(s, a, b) \in List!Orders
<1> DEFINE n == Len(s)
           t == List!swapped(s, a, b)
<1>1. n \in 0 .. List!Cardinality(Slugs) /\ DOMAIN s = 1 .. n
  BY OrdersAre
<1>2. /\ DOMAIN t = DOMAIN s
      /\ \A i \in DOMAIN s : t[i] = IF i = b THEN s[a] ELSE IF i = a THEN s[b] ELSE s[i]
  BY OrdersAre DEF List!swapped
<1>3. t = [i \in DOMAIN s |-> t[i]]
  BY OrdersAre DEF List!swapped
<1> HIDE DEF n, t
<1>4. t \in [1 .. n -> Slugs]
  BY <1>1, <1>2, <1>3, OrdersAre
<1>5. \A i, j \in 1 .. n : t[i] = t[j] => i = j
  BY <1>1, <1>2, OrdersAre
<1>6. t \in List!Orders
  BY <1>1, <1>4, <1>5, OrdersMade
<1> QED BY <1>6 DEF t

LEMMA WithoutOrder ==
  ASSUME NEW s \in List!Orders, NEW slug
  PROVE  List!Without(s, slug) \in List!Orders
<1>0. /\ s \in Seq(Slugs) /\ Len(s) \in 0 .. List!Cardinality(Slugs)
      /\ DOMAIN s = 1 .. Len(s) /\ \A i \in DOMAIN s : s[i] \in Slugs
      /\ \A i, j \in DOMAIN s : s[i] = s[j] => i = j
  BY OrdersAre
<1>1. CASE slug \notin List!Row(s)
  BY <1>1 DEF List!Without
<1>2. CASE slug \in List!Row(s)
  <2> DEFINE at_ == CHOOSE i \in DOMAIN s : s[i] = slug
             n == Len(s) - 1
             t == [m \in 1 .. n |-> IF m < at_ THEN s[m] ELSE s[m + 1]]
  <2>1. at_ \in DOMAIN s
    BY <1>2 DEF List!Row
  <2>2. List!Without(s, slug) = t
    BY <1>2 DEF List!Without
  <2> HIDE DEF at_
  <2>3. at_ \in 1 .. Len(s) /\ Len(s) \in Nat /\ n \in 0 .. List!Cardinality(Slugs)
    BY <1>0, <2>1, SlugsCounted
  <2>4. \A m \in 1 .. n : m \in DOMAIN s /\ m + 1 \in DOMAIN s
    BY <1>0, <2>3
  <2>5. t \in [1 .. n -> Slugs]
    BY <1>0, <2>4
  <2>6. \A i, j \in 1 .. n : t[i] = t[j] => i = j
    <3> SUFFICES ASSUME NEW i \in 1 .. n, NEW j \in 1 .. n, t[i] = t[j] PROVE i = j
      OBVIOUS
    <3> DEFINE p == IF i < at_ THEN i ELSE i + 1
               q == IF j < at_ THEN j ELSE j + 1
    <3>1. p \in DOMAIN s /\ q \in DOMAIN s /\ s[p] = s[q]
      BY <2>4
    <3>2. p = q
      BY <1>0, <3>1
    <3> QED BY <2>3, <3>2
  <2> HIDE DEF n, t
  <2> QED BY <2>2, <2>3, <2>5, <2>6, OrdersMade
<1> QED BY <1>1, <1>2

LEMMA ListInit == List!Init => ListInv
<1> SUFFICES ASSUME List!Init PROVE ListInv
  OBVIOUS
<1>1. list \in Listings /\ load \in Reloads /\ moving \in Movings /\ removing \in Removings
  BY NoRows DEF List!Init, Listings, Reloads, Movings, Removings, List!Asked, List!NoLoad, List!NoMove, List!NoRemoval
<1>2. /\ list.status = "loading" /\ load.at = "sent" /\ moving.at = "none"
      /\ removing.at = "none" /\ removing.target = List!NoOne
  BY DEF List!Init, List!Asked, List!NoLoad, List!NoMove, List!NoRemoval
<1>3. rows \in List!Orders /\ accidents \in 0 .. MaxAccidents
  BY SlugsCounted DEF List!Init
<1>4. unseen \in BOOLEAN
  BY Zenon DEF List!Init
<1>5. ListTyped
  BY <1>1, <1>3, <1>4 DEF ListTyped
<1> QED BY <1>2, <1>5 DEF ListInv, ReloadsInv, ModalInv, ShownInv, MovedInv

LEMMA ListFacts ==
  ASSUME ListInv
  PROVE  /\ ListTyped /\ ReloadsInv /\ ModalInv /\ ShownInv /\ MovedInv
         /\ rows \in List!Orders /\ list \in Listings /\ load \in Reloads /\ moving \in Movings
         /\ removing \in Removings /\ accidents \in 0 .. MaxAccidents /\ unseen \in BOOLEAN
  BY Zenon DEF ListInv, ListTyped

LEMMA ListAccidents ==
  ASSUME accidents \in 0 .. MaxAccidents, List!Accident
  PROVE  accidents' \in 0 .. MaxAccidents
  BY SlugsCounted DEF List!Accident

\* The server's steps: a reload is read, a move is made or refused, a row goes.
LEMMA ListItemsKeeps == ListInv /\ List!ListItems => ListInv'
<1> SUFFICES ASSUME ListInv, List!ListItems PROVE ListInv'
  OBVIOUS
<1>0. /\ load.at = "sent" /\ load' = [load EXCEPT !.at = "answered", !.items = rows]
      /\ UNCHANGED <<rows, list, moving, removing, accidents, unseen>>
  BY DEF List!ListItems
<1>1. load' \in Reloads /\ load'.at = "answered" /\ load'.items = rows /\ load'.behind = load.behind
  BY <1>0, ListFacts DEF Reloads
<1>2. ListTyped'
  BY <1>0, <1>1, ListFacts DEF ListTyped
<1>3. ReloadsInv'
  BY <1>0, <1>1, ListFacts DEF ReloadsInv
<1>4. ModalInv'
  BY <1>0, <1>1, ListFacts DEF ModalInv
<1>5. ShownInv' /\ MovedInv'
  BY <1>0, ListFacts DEF ShownInv, MovedInv
<1> QED BY <1>2, <1>3, <1>4, <1>5 DEF ListInv

LEMMA ReorderKeeps == ListInv /\ List!ReorderItems => ListInv'
<1> SUFFICES ASSUME ListInv, List!ReorderItems PROVE ListInv'
  OBVIOUS
<1> DEFINE b == load.behind \/ load.at = "answered"
<1>0. /\ moving.at = "sent" /\ UNCHANGED <<list, removing, accidents, unseen>>
      /\ \/ /\ rows' = moving.next /\ moving' = [moving EXCEPT !.at = "answered", !.items = moving.next]
            /\ load' = [load EXCEPT !.behind = b]
         \/ rows' = rows /\ moving' = [moving EXCEPT !.at = "refused"] /\ load' = load
  BY DEF List!ReorderItems
<1>b. b \in BOOLEAN
  BY Zenon
<1>c. load.at = "answered" => b
  OBVIOUS
<1> HIDE DEF b
<1>l. /\ load' \in Reloads /\ load'.at = load.at
      /\ load'.at = "answered" /\ ~load'.behind => load' = load /\ rows' = rows
  BY <1>0, <1>b, <1>c, ListFacts DEF Reloads
<1>1. /\ moving' \in Movings /\ rows' \in List!Orders /\ moving'.at \in {"answered", "refused"}
      /\ moving'.at = "answered" => moving'.items = rows'
      /\ moving'.behind = moving.behind
  BY <1>0, ListFacts DEF Movings
<1>2. ListTyped'
  BY <1>0, <1>1, <1>l, ListFacts DEF ListTyped
<1>3. ReloadsInv'
  BY <1>0, <1>l, ListFacts DEF ReloadsInv
<1>4. ModalInv'
  BY <1>0, <1>l, ListFacts DEF ModalInv
<1>5. ShownInv'
  BY <1>0, <1>1, ListFacts DEF ShownInv, ModalInv
<1>6. MovedInv'
  BY <1>1 DEF MovedInv
<1> QED BY <1>2, <1>3, <1>4, <1>5, <1>6 DEF ListInv

LEMMA DeleteItemKeeps == ListInv /\ List!DeleteItem => ListInv'
<1> SUFFICES ASSUME ListInv, List!DeleteItem PROVE ListInv'
  OBVIOUS
<1>0. /\ removing.at = "sent" /\ removing' = [removing EXCEPT !.at = "answered"]
      /\ rows' = List!Without(rows, removing.target)
      /\ UNCHANGED <<list, load, moving, accidents, unseen>>
  BY DEF List!DeleteItem
<1>1. removing' \in Removings /\ removing'.at = "answered" /\ removing'.target = removing.target
  BY <1>0, ListFacts DEF Removings
<1>2. rows' \in List!Orders
  BY <1>0, ListFacts, WithoutOrder
<1>3. removing.target # List!NoOne /\ moving.at = "none" /\ load.at = "none"
  BY <1>0, ListFacts DEF ModalInv
<1>4. ListTyped'
  BY <1>0, <1>1, <1>2, ListFacts DEF ListTyped
<1>5. ReloadsInv' /\ ModalInv' /\ MovedInv'
  BY <1>0, <1>1, <1>3, ListFacts DEF ReloadsInv, ModalInv, MovedInv
<1>6. ShownInv'
  BY <1>0, <1>1, <1>3, ListFacts DEF ShownInv
<1> QED BY <1>4, <1>5, <1>6 DEF ListInv

\* What another tab changes need not be shown.
LEMMA ListOutsideKeeps == ListInv /\ List!Outside => ListInv'
<1> SUFFICES ASSUME ListInv, List!Outside PROVE ListInv'
  OBVIOUS
<1> DEFINE b == load.behind \/ load.at = "answered"
           c == moving.behind \/ moving.at = "answered"
<1>0. /\ List!Accident /\ rows' \in List!Orders
      /\ load' = [load EXCEPT !.behind = b] /\ moving' = [moving EXCEPT !.behind = c]
      /\ unseen' = TRUE /\ UNCHANGED <<list, removing>>
  BY DEF List!Outside
<1>1. b \in BOOLEAN /\ c \in BOOLEAN
  BY Zenon
<1>2. /\ load.at = "answered" => b
      /\ load.at # "answered" /\ ~b => ~load.behind
      /\ moving.at = "answered" => c
  OBVIOUS
<1>3. ~b => ~load.behind
  OBVIOUS
<1> HIDE DEF b, c
<1>4. load' \in Reloads /\ load'.at = load.at /\ load'.behind = b
  BY <1>0, <1>1, ListFacts DEF Reloads
<1>5. moving' \in Movings /\ moving'.at = moving.at /\ moving'.behind = c
  BY <1>0, <1>1, ListFacts DEF Movings
<1>6. ListTyped'
  <2>1. unseen' \in BOOLEAN
    BY <1>0, Zenon
  <2> QED BY <1>0, <1>4, <1>5, <2>1, ListFacts, ListAccidents DEF ListTyped
<1>7. ReloadsInv'
  BY <1>0, <1>2, <1>3, <1>4, <1>5, ListFacts DEF ReloadsInv
<1>8. ModalInv'
  BY <1>0, <1>4, <1>5, ListFacts DEF ModalInv
<1>9. ShownInv'
  BY <1>0 DEF ShownInv
<1>10. MovedInv'
  BY <1>2, <1>5 DEF MovedInv
<1> QED BY <1>6, <1>7, <1>8, <1>9, <1>10 DEF ListInv

\* The page's steps.
LEMMA ListLandsKeeps == ListInv /\ List!ListLands => ListInv'
<1> SUFFICES ASSUME ListInv, List!ListLands PROVE ListInv'
  OBVIOUS
<1>0. /\ load.at = "answered" /\ load' = List!NoLoad
      /\ list' = [status |-> "ready", loaded |-> TRUE, data |-> load.items]
      /\ unseen' = load.behind /\ UNCHANGED <<rows, moving, removing, accidents>>
  BY DEF List!ListLands
<1>1. load' \in Reloads /\ load'.at = "none"
  BY <1>0, NoRows DEF Reloads, List!NoLoad
<1>2. /\ list' \in Listings /\ list'.status = "ready" /\ list'.data = load.items
  BY <1>0, ListFacts DEF Listings, Reloads
<1>3. unseen' \in BOOLEAN
  BY <1>0, ListFacts DEF Reloads
<1>4. ListTyped'
  BY <1>0, <1>1, <1>2, <1>3, ListFacts DEF ListTyped
<1>5. ReloadsInv' /\ ModalInv' /\ MovedInv'
  BY <1>0, <1>1, <1>2, ListFacts DEF ReloadsInv, ModalInv, MovedInv
<1>6. removing.at = "none"
  BY <1>0, ListFacts DEF ModalInv
<1>7. ShownInv'
  BY <1>0, <1>2, <1>6, ListFacts DEF ShownInv, ReloadsInv
<1> QED BY <1>4, <1>5, <1>7 DEF ListInv

LEMMA ListFailsKeeps == ListInv /\ List!ListFails => ListInv'
<1> SUFFICES ASSUME ListInv, List!ListFails PROVE ListInv'
  OBVIOUS
<1>0. /\ load.at # "none" /\ List!Accident /\ load' = List!NoLoad
      /\ list' = [list EXCEPT !.status = "error"]
      /\ UNCHANGED <<rows, moving, removing, unseen>>
  BY DEF List!ListFails
<1>1. load' \in Reloads /\ load'.at = "none"
  BY <1>0, NoRows DEF Reloads, List!NoLoad
<1>2. list' \in Listings /\ list'.status = "error"
  BY <1>0, ListFacts DEF Listings
<1>3. ListTyped'
  BY <1>0, <1>1, <1>2, ListFacts, ListAccidents DEF ListTyped
<1>4. ReloadsInv' /\ ModalInv' /\ MovedInv' /\ ShownInv'
  BY <1>0, <1>1, <1>2, ListFacts DEF ReloadsInv, ModalInv, MovedInv, ShownInv
<1> QED BY <1>3, <1>4 DEF ListInv

LEMMA RetryKeeps == ListInv /\ List!retry => ListInv'
<1> SUFFICES ASSUME ListInv, List!retry PROVE ListInv'
  OBVIOUS
<1>0. /\ list.status = "error" /\ removing.target = List!NoOne
      /\ list' = [list EXCEPT !.status = "loading"] /\ load' = List!Asked
      /\ UNCHANGED <<rows, moving, removing, accidents, unseen>>
  BY DEF List!retry, List!Modal
<1>3. load' \in Reloads /\ load'.at = "sent"
  BY <1>0, NoRows DEF Reloads, List!Asked, List!NoLoad
<1>4. list' \in Listings /\ list'.status = "loading"
  BY <1>0, ListFacts DEF Listings
<1>5. ListTyped'
  BY <1>0, <1>3, <1>4, ListFacts DEF ListTyped
<1>6. ReloadsInv' /\ ModalInv' /\ MovedInv' /\ ShownInv'
  BY <1>0, <1>3, <1>4, ListFacts DEF ReloadsInv, ModalInv, MovedInv, ShownInv
<1> QED BY <1>5, <1>6 DEF ListInv

LEMMA MoveKeeps ==
  ASSUME ListInv, NEW index \in DOMAIN list.data, NEW target, List!move(index, target)
  PROVE  ListInv'
<1> DEFINE next_ == List!swapped(list.data, index, target)
<1>0. /\ moving.at = "none" /\ list.status # "loading" /\ removing.target = List!NoOne
      /\ target \in DOMAIN list.data
      /\ list' = [list EXCEPT !.data = next_]
      /\ moving' = [List!NoMove EXCEPT !.at = "sent", !.next = next_, !.before = list.data]
      /\ UNCHANGED <<rows, load, removing, accidents, unseen>>
  BY DEF List!move, List!busy, List!Modal
<1>1. list.data \in List!Orders
  BY ListFacts DEF Listings
<1>2. next_ \in List!Orders
  BY <1>0, <1>1, SwappedOrder
<1> HIDE DEF next_
<1>3. list' \in Listings /\ list'.status = list.status
  BY <1>0, <1>2, ListFacts DEF Listings
<1>4. moving' \in Movings /\ moving'.at = "sent"
  BY <1>0, <1>1, <1>2, NoRows DEF Movings, List!NoMove
<1>5. load.at = "none" /\ removing.at = "none"
  BY <1>0, ListFacts DEF ReloadsInv, ModalInv
<1>6. ListTyped'
  BY <1>0, <1>3, <1>4, ListFacts DEF ListTyped
<1>7. ReloadsInv' /\ ModalInv' /\ MovedInv' /\ ShownInv'
  BY <1>0, <1>3, <1>4, <1>5, ListFacts DEF ReloadsInv, ModalInv, MovedInv, ShownInv
<1> QED BY <1>6, <1>7 DEF ListInv

LEMMA NoMoveType == List!NoMove \in Movings /\ List!NoMove.at = "none"
  BY NoRows DEF Movings, List!NoMove

LEMMA MoveLandsKeeps == ListInv /\ List!MoveLands => ListInv'
<1> SUFFICES ASSUME ListInv, List!MoveLands PROVE ListInv'
  OBVIOUS
<1>0. /\ moving.at = "answered" /\ moving' = List!NoMove
      /\ list' = [list EXCEPT !.data = moving.items] /\ unseen' = moving.behind
      /\ UNCHANGED <<rows, load, removing, accidents>>
  BY DEF List!MoveLands
<1>1. list' \in Listings /\ list'.status = list.status /\ list'.data = moving.items
  BY <1>0, ListFacts DEF Listings, Movings
<1>2. unseen' \in BOOLEAN
  BY <1>0, ListFacts DEF Movings
<1>3. ListTyped'
  BY <1>0, <1>1, <1>2, ListFacts, NoMoveType DEF ListTyped
<1>4. removing.at = "none"
  BY <1>0, ListFacts DEF ModalInv
<1>5. ReloadsInv' /\ ModalInv' /\ MovedInv'
  BY <1>0, <1>1, ListFacts, NoMoveType DEF ReloadsInv, ModalInv, MovedInv
<1>6. ShownInv'
  BY <1>0, <1>1, <1>4, ListFacts DEF ShownInv, MovedInv
<1> QED BY <1>3, <1>5, <1>6 DEF ListInv

LEMMA MoveFailsKeeps == ListInv /\ List!MoveFails => ListInv'
<1> SUFFICES ASSUME ListInv, List!MoveFails PROVE ListInv'
  OBVIOUS
<1>0. /\ moving.at # "none" /\ moving' = List!NoMove
      /\ accidents' = accidents \/ List!Accident
      /\ list' = [list EXCEPT !.data = moving.before, !.status = "loading"] /\ load' = List!Asked
      /\ UNCHANGED <<rows, removing, unseen>>
  BY DEF List!MoveFails
<1>1. list' \in Listings /\ list'.status = "loading"
  BY <1>0, ListFacts DEF Listings, Movings
<1>2. load' \in Reloads /\ load'.at = "sent"
  BY <1>0, NoRows DEF Reloads, List!Asked, List!NoLoad
<1>3. accidents' \in 0 .. MaxAccidents
  BY <1>0, ListFacts, ListAccidents
<1>4. ListTyped'
  BY <1>0, <1>1, <1>2, <1>3, ListFacts, NoMoveType DEF ListTyped
<1>5. ReloadsInv' /\ ModalInv' /\ MovedInv' /\ ShownInv'
  BY <1>0, <1>1, <1>2, ListFacts, NoMoveType DEF ReloadsInv, ModalInv, MovedInv, ShownInv
<1> QED BY <1>4, <1>5 DEF ListInv

\* The dialog of a deletion opens, is answered, and tells how it went.
LEMMA OpenRemovalKeeps ==
  ASSUME ListInv, NEW slug \in List!Row(list.data), List!openRemoval(slug)
  PROVE  ListInv'
<1>0. /\ moving.at = "none" /\ list.status # "loading" /\ removing.target = List!NoOne
      /\ removing' = [List!NoRemoval EXCEPT !.target = slug]
      /\ UNCHANGED <<rows, list, load, moving, accidents, unseen>>
  BY DEF List!openRemoval, List!busy, List!Modal
<1>1. slug \in Slugs
  <2>1. list.data \in List!Orders
    BY ListFacts DEF Listings
  <2> QED BY <2>1, OrdersAre DEF List!Row
<1>2. removing' \in Removings /\ removing'.at = "none"
  BY <1>0, <1>1 DEF Removings, List!NoRemoval
<1>3. load.at = "none" /\ removing.at = "none"
  BY <1>0, ListFacts DEF ReloadsInv, ModalInv
<1>4. ListTyped'
  BY <1>0, <1>2, ListFacts DEF ListTyped
<1>5. ReloadsInv' /\ ModalInv' /\ MovedInv' /\ ShownInv'
  BY <1>0, <1>2, <1>3, ListFacts DEF ReloadsInv, ModalInv, MovedInv, ShownInv
<1> QED BY <1>4, <1>5 DEF ListInv

LEMMA NoRemovalType == List!NoRemoval \in Removings /\ List!NoRemoval.at = "none" /\ List!NoRemoval.target = List!NoOne
  BY DEF Removings, List!NoRemoval

LEMMA ListConfirmKeeps == ListInv /\ List!confirm => ListInv'
<1> SUFFICES ASSUME ListInv, List!confirm PROVE ListInv'
  OBVIOUS
<1>0. /\ removing.target # List!NoOne /\ removing.at = "none"
      /\ removing' = List!NoRemoval \/ removing' = [removing EXCEPT !.at = "sent"]
      /\ UNCHANGED <<rows, list, load, moving, accidents, unseen>>
  BY DEF List!confirm, List!Modal
<1>1. /\ removing' \in Removings /\ removing'.at \in {"none", "sent"}
      /\ removing'.at # "none" => removing'.target = removing.target
  BY <1>0, ListFacts, NoRemovalType DEF Removings
<1>2. moving.at = "none" /\ load.at = "none"
  BY <1>0, ListFacts DEF ModalInv
<1>3. ListTyped'
  BY <1>0, <1>1, ListFacts DEF ListTyped
<1>4. ReloadsInv' /\ ModalInv' /\ MovedInv' /\ ShownInv'
  BY <1>0, <1>1, <1>2, ListFacts DEF ReloadsInv, ModalInv, MovedInv, ShownInv
<1> QED BY <1>3, <1>4 DEF ListInv

LEMMA ListRemovalLands == ListInv /\ List!RemovalLands => ListInv'
<1> SUFFICES ASSUME ListInv, List!RemovalLands PROVE ListInv'
  OBVIOUS
<1> DEFINE left == List!Without(list.data, removing.target)
<1>0. /\ removing.at = "answered" /\ removing' = List!NoRemoval
      /\ list' = [list EXCEPT !.data = left]
      /\ UNCHANGED <<rows, load, moving, accidents, unseen>>
  BY DEF List!RemovalLands
<1>1. left \in List!Orders
  BY ListFacts, WithoutOrder DEF Listings
<1>2. list.status = "ready" /\ ~unseen => left = rows
  BY <1>0, ListFacts DEF ShownInv
<1> HIDE DEF left
<1>3. list' \in Listings /\ list'.status = list.status /\ list'.data = left
  BY <1>0, <1>1, ListFacts DEF Listings
<1>4. ListTyped'
  BY <1>0, <1>3, ListFacts, NoRemovalType DEF ListTyped
<1>5. ReloadsInv' /\ ModalInv' /\ MovedInv' /\ ShownInv'
  BY <1>0, <1>2, <1>3, ListFacts, NoRemovalType DEF ReloadsInv, ModalInv, MovedInv, ShownInv
<1> QED BY <1>4, <1>5 DEF ListInv

LEMMA ListRemovalFails == ListInv /\ List!RemovalFails => ListInv'
<1> SUFFICES ASSUME ListInv, List!RemovalFails PROVE ListInv'
  OBVIOUS
<1>0. /\ removing.at \in {"sent", "answered"} /\ List!Accident
      /\ removing' = [removing EXCEPT !.at = "none"]
      /\ unseen' = (unseen \/ removing.at = "answered")
      /\ UNCHANGED <<rows, list, load, moving>>
  BY DEF List!RemovalFails
<1>1. removing' \in Removings /\ removing'.at = "none" /\ removing'.target = removing.target
  BY <1>0, ListFacts DEF Removings
<1>2. unseen' \in BOOLEAN
  BY <1>0, Zenon
<1>3. ~unseen' => ~unseen /\ removing.at # "answered"
  BY <1>0
<1>4. ListTyped'
  BY <1>0, <1>1, <1>2, ListFacts, ListAccidents DEF ListTyped
<1>5. ReloadsInv' /\ ModalInv' /\ MovedInv'
  BY <1>0, <1>1, ListFacts DEF ReloadsInv, ModalInv, MovedInv
<1>6. ShownInv'
  BY <1>0, <1>1, <1>3, ListFacts DEF ShownInv
<1> QED BY <1>4, <1>5, <1>6 DEF ListInv

LEMMA ListStep == ListInv /\ List!Next => ListInv'
<1> SUFFICES ASSUME ListInv, List!Next PROVE ListInv'
  OBVIOUS
<1>1. \/ List!ListItems \/ List!ReorderItems \/ List!DeleteItem \/ List!Outside
      \/ List!ListLands \/ List!ListFails \/ List!retry \/ List!MoveLands \/ List!MoveFails
      \/ List!confirm \/ List!RemovalLands \/ List!RemovalFails
      \/ \E index \in DOMAIN list.data : List!move(index, index - 1) \/ List!move(index, index + 1)
      \/ \E slug \in List!Row(list.data) : List!openRemoval(slug)
  BY DEF List!Next
<1>2. ASSUME NEW index \in DOMAIN list.data, List!move(index, index - 1) \/ List!move(index, index + 1)
      PROVE ListInv'
  BY <1>2, MoveKeeps
<1> QED
  BY <1>1, <1>2, ListItemsKeeps, ReorderKeeps, DeleteItemKeeps, ListOutsideKeeps, ListLandsKeeps,
     ListFailsKeeps, RetryKeeps, MoveLandsKeeps, MoveFailsKeeps, ListConfirmKeeps,
     ListRemovalLands, ListRemovalFails, OpenRemovalKeeps

LEMMA ListKeepsTrue == ListInv => List!TypeOK /\ List!ListSettles
<1> SUFFICES ASSUME ListInv PROVE List!TypeOK /\ List!ListSettles
  OBVIOUS
<1>1. List!TypeOK
  BY ListFacts, ListTypes
<1>2. List!ListSettles
  BY ListFacts DEF List!ListSettles, ShownInv
<1> QED BY <1>1, <1>2

LEMMA ListStands == ListInv /\ UNCHANGED lists => ListInv'
  BY DEF lists, ListInv, ListTyped, ReloadsInv, ModalInv, ShownInv, MovedInv
-------------------------------------------------------------------------------
(* The lists inside the editor's form.                                       *)

Column == UNION {[1 .. n -> Form!Texts] : n \in 0 .. MaxRows}
ChipRow == UNION {[1 .. n -> Form!Chips] : n \in 0 .. MaxRows}

Draftable(d) ==
  /\ field = "bullets" => d \in [en : Column, zh : Column] /\ Len(d.en) = Len(d.zh)
  /\ field = "tags" => d \in [tags : ChipRow]

\* An error is at a place that the draft has, and about what is there.
About(d, e) ==
  /\ e.path \in Form!errorSlots(d)
  /\ e.why = "invalid" => e.path \in Form!validateDraft(d)
  /\ e.why = "rejected" /\ e.path \in Form!Cells(d) => Form!getAt(d, e.path) = "odd"

EditTyped ==
  /\ field \in {"bullets", "tags"} /\ Draftable(written)
  /\ \A e \in errors : e.why \in {"invalid", "rejected"}
  /\ message \in BOOLEAN /\ edited \in BOOLEAN
  /\ saving = [at |-> saving.at, sent |-> saving.sent, fields |-> saving.fields]
  /\ saving.at \in {"none", "sent", "refused", "saved"}
  /\ put \in Form!Controls(written) \cup {<<"user">>, <<"message">>}

\* What a save has sent is the draft, unless that was changed since; and what the
\* server says is about what was sent.
SentInv ==
  /\ saving.at # "none" => Draftable(saving.sent) /\ (~edited => written = saving.sent)
  /\ saving.at = "refused" => saving.fields \subseteq Form!Keys(saving.sent) \cup {<<>>}

ErrorsInv == ~edited => \A e \in errors : About(written, e)

EditInv == EditTyped /\ SentInv /\ ErrorsInv

LEMMA RowsBound == MaxRows \in Nat \ {0}
  BY CorrespondenceAssumption DEF Form!Bounds

LEMMA RowsOf ==
  ASSUME NEW S, NEW s
  PROVE  s \in UNION {[1 .. n -> S] : n \in 0 .. MaxRows} <=> s \in Seq(S) /\ Len(s) <= MaxRows
<1>1. ASSUME NEW n \in 0 .. MaxRows, s \in [1 .. n -> S] PROVE s \in Seq(S) /\ Len(s) <= MaxRows
  BY <1>1, RowsBound
<1>2. ASSUME s \in Seq(S), Len(s) <= MaxRows PROVE s \in UNION {[1 .. n -> S] : n \in 0 .. MaxRows}
  <2>1. Len(s) \in 0 .. MaxRows /\ s \in [1 .. Len(s) -> S]
    BY <1>2, RowsBound
  <2> QED BY <2>1
<1> QED BY <1>1, <1>2

LEMMA DraftsAre ==
  /\ \A s : s \in Column <=> s \in Seq(Form!Texts) /\ Len(s) <= MaxRows
  /\ \A s : s \in ChipRow <=> s \in Seq(Form!Chips) /\ Len(s) <= MaxRows
  BY RowsOf DEF Column, ChipRow

LEMMA ListsAre == Form!Lists = [en : Column, zh : Column] /\ Form!Tags = [tags : ChipRow]
  BY DEF Form!Lists, Form!Tags, Column, ChipRow

LEMMA ChipsAre ==
  /\ \A c \in Form!Chips : /\ c = [term |-> c.term, en |-> c.en, zh |-> c.zh]
                           /\ c.term \in {TRUE, FALSE} /\ c.en \in Form!Texts /\ c.zh \in Form!Texts
                           /\ c["en"] = c.en /\ c["zh"] = c.zh /\ (c.term = FALSE => c.zh = "")
  /\ \A en \in Form!Texts : Form!Noun(en) \in Form!Chips /\ Form!Noun(en).term = FALSE
  /\ \A en, zh \in Form!Texts : Form!Term(en, zh) \in Form!Chips /\ Form!Term(en, zh).term = TRUE
<1>1. "" \in Form!Texts
  BY DEF Form!Texts
<1>2. \A c \in Form!Chips : (\E en \in Form!Texts : c = Form!Noun(en)) \/ (\E en, zh \in Form!Texts : c = Form!Term(en, zh))
  BY DEF Form!Chips
<1>3. \A en \in Form!Texts : Form!Noun(en) = [term |-> FALSE, en |-> en, zh |-> ""]
  BY DEF Form!Noun
<1>4. \A en, zh \in Form!Texts : Form!Term(en, zh) = [term |-> TRUE, en |-> en, zh |-> zh]
  BY DEF Form!Term
<1>5. ASSUME NEW c \in Form!Chips
      PROVE  /\ c = [term |-> c.term, en |-> c.en, zh |-> c.zh]
             /\ c.term \in {TRUE, FALSE} /\ c.en \in Form!Texts /\ c.zh \in Form!Texts
             /\ c["en"] = c.en /\ c["zh"] = c.zh /\ (c.term = FALSE => c.zh = "")
  <2>1. CASE \E en \in Form!Texts : c = Form!Noun(en)
    <3>1. PICK en \in Form!Texts : c = [term |-> FALSE, en |-> en, zh |-> ""]
      BY <1>3, <2>1
    <3> QED BY <1>1, <3>1
  <2>2. CASE \E en, zh \in Form!Texts : c = Form!Term(en, zh)
    <3>1. PICK en \in Form!Texts, zh \in Form!Texts : c = [term |-> TRUE, en |-> en, zh |-> zh]
      BY <1>4, <2>2
    <3>2. c.term = TRUE
      BY <3>1
    <3> QED BY <3>1, <3>2
  <2> QED BY <1>2, <2>1, <2>2
<1>6. \A en \in Form!Texts : Form!Noun(en) \in Form!Chips /\ Form!Noun(en).term = FALSE
  <2>1. \A en \in Form!Texts : Form!Noun(en).term = FALSE
    BY DEF Form!Noun
  <2>2. \A en \in Form!Texts : Form!Noun(en) \in Form!Chips
    BY DEF Form!Chips
  <2> QED BY <2>1, <2>2
<1>7. \A en, zh \in Form!Texts : Form!Term(en, zh) \in Form!Chips /\ Form!Term(en, zh).term = TRUE
  BY <1>4 DEF Form!Chips
<1> QED BY <1>5, <1>6, <1>7

-------------------------------------------------------------------------------
(* Paths.                                                                    *)

LEMMA Prefixes ==
  /\ \A a, c : Form!startsWith(<<a>>, <<c>>) <=> a = c
  /\ \A a, b, c : Form!startsWith(<<a, b>>, <<c>>) <=> a = c
  /\ \A a, b, e, c : Form!startsWith(<<a, b, e>>, <<c>>) <=> a = c
  /\ \A a, c, d : ~ Form!startsWith(<<a>>, <<c, d>>)
  /\ \A a, b, c, d : Form!startsWith(<<a, b>>, <<c, d>>) <=> a = c /\ b = d
  /\ \A a, b, e, c, d : Form!startsWith(<<a, b, e>>, <<c, d>>) <=> a = c /\ b = d
  /\ \A a, b, e, c, d, f : Form!startsWith(<<a, b, e>>, <<c, d, f>>) <=> a = c /\ b = d /\ e = f
  BY DEF Form!startsWith

LEMMA BulletCells ==
  ASSUME field = "bullets", NEW d
  PROVE  /\ \A p : p \in Form!Cells(d) <=> \E l \in {"en", "zh"} : \E i \in DOMAIN d[l] : p = <<l, i>>
         /\ \A l, i : Form!getAt(d, <<l, i>>) = d[l][i]
  BY DEF Form!Cells, Form!Locales, Form!getAt

LEMMA BulletSlots ==
  ASSUME field = "bullets", NEW d
  PROVE  Form!Whole = {<<"en">>, <<"zh">>} /\ Form!errorSlots(d) = Form!Whole \cup Form!Cells(d)
  BY DEF Form!Whole, Form!Locales, Form!errorSlots

LEMMA TagCells ==
  ASSUME field = "tags", NEW d
  PROVE  /\ \A p : p \in Form!Cells(d) <=>
              \/ \E i \in DOMAIN d.tags : d.tags[i].term /\ \E l \in {"en", "zh"} : p = <<"tags", i, l>>
              \/ \E i \in DOMAIN d.tags : ~ d.tags[i].term /\ p = <<"tags", i>>
         /\ \A i : Form!getAt(d, <<"tags", i>>) = d.tags[i].en
         /\ \A i, l : Form!getAt(d, <<"tags", i, l>>) = d.tags[i][l]
<1>1. \A p : p \in Form!Cells(d) <=>
              \/ \E i \in DOMAIN d.tags : d.tags[i].term /\ \E l \in {"en", "zh"} : p = <<"tags", i, l>>
              \/ \E i \in DOMAIN d.tags : ~ d.tags[i].term /\ p = <<"tags", i>>
  BY DEF Form!Cells, Form!Locales
<1>2. \A i : Form!getAt(d, <<"tags", i>>) = d.tags[i].en
  BY DEF Form!getAt
<1>3. \A i, l : Form!getAt(d, <<"tags", i, l>>) = d.tags[i][l]
  BY DEF Form!getAt
<1> QED BY <1>1, <1>2, <1>3

LEMMA TagSlots ==
  ASSUME field = "tags", NEW d
  PROVE  /\ Form!Whole = {<<"tags">>}
         /\ Form!errorSlots(d) = {<<"tags">>} \cup Form!Cells(d) \cup {<<"tags", i>> : i \in DOMAIN d.tags}
  BY DEF Form!Whole, Form!errorSlots

\* What the form itself finds wrong: an empty text, or an empty list.
LEMMA Invalids ==
  ASSUME NEW d, NEW p
  PROVE  p \in Form!validateDraft(d) <=>
           \/ p \in Form!Cells(d) /\ Form!getAt(d, p) = ""
           \/ p \in Form!Whole /\ d[p[1]] = <<>>
  BY Zenon DEF Form!validateDraft

\* Every place is in a list of the field, and shows what is wrong at it on a control.
LEMMA PlacesShow ==
  ASSUME field \in {"bullets", "tags"}, NEW d, Draftable(d)
  PROVE  /\ \A p \in Form!errorSlots(d) : Form!Shows(d, p) # {} /\ \E w \in Form!Whole : Form!startsWith(p, w)
         /\ \A p : Form!Shows(d, p) \subseteq Form!Controls(d)
<1>1. \A p \in Form!errorSlots(d) : Form!Shows(d, p) # {}
  BY DEF Form!Shows
<1>2. \A p \in Form!errorSlots(d) : \E w \in Form!Whole : Form!startsWith(p, w)
  <2>1. CASE field = "bullets"
    <3>0. d \in [en : Column, zh : Column]
      BY <2>1 DEF Draftable
    <3>1. /\ \A p \in Form!Cells(d) : \E l \in {"en", "zh"} : \E i \in DOMAIN d[l] : p = <<l, i>>
          /\ Form!Whole = {<<"en">>, <<"zh">>} /\ Form!errorSlots(d) = Form!Whole \cup Form!Cells(d)
      BY <2>1, BulletCells, BulletSlots
    <3> SUFFICES ASSUME NEW p \in Form!errorSlots(d)
                 PROVE  \E l \in {"en", "zh"} : Form!startsWith(p, <<l>>)
      BY <3>1
    <3>2. CASE p \in Form!Whole
      BY <3>1, <3>2, Prefixes
    <3>3. CASE p \in Form!Cells(d)
      <4>1. PICK l \in {"en", "zh"} : \E i \in DOMAIN d[l] : p = <<l, i>>
        BY <3>1, <3>3
      <4>2. PICK i \in DOMAIN d[l] : p = <<l, i>>
        BY <4>1
      <4> QED BY <4>2, Prefixes
    <3> QED BY <3>1, <3>2, <3>3
  <2>2. CASE field = "tags"
    <3>0. d \in [tags : ChipRow]
      BY <2>2 DEF Draftable
    <3> SUFFICES ASSUME NEW p \in Form!errorSlots(d) PROVE Form!startsWith(p, <<"tags">>)
      <4>1. Form!Whole = {<<"tags">>}
        BY <2>2, TagSlots
      <4> QED BY <4>1
    <3>1. p = <<"tags">> \/ p \in Form!Cells(d) \/ \E i \in DOMAIN d.tags : p = <<"tags", i>>
      BY <2>2, TagSlots
    <3>2. CASE p \in Form!Cells(d)
      <4>1. (\E i : p = <<"tags", i>>) \/ \E i, l : p = <<"tags", i, l>>
        BY <2>2, <3>2, TagCells
      <4> QED BY <4>1, Prefixes
    <3> QED BY <3>1, <3>2, Prefixes
  <2> QED BY <2>1, <2>2
<1>3. ASSUME NEW p PROVE Form!Shows(d, p) \subseteq Form!Controls(d)
  <2>1. CASE p \in Form!Whole \/ p \in Form!Cells(d) \/ p \notin Form!errorSlots(d)
    BY <2>1 DEF Form!Shows, Form!Controls
  <2>2. CASE p \notin Form!Whole /\ p \notin Form!Cells(d) /\ p \in Form!errorSlots(d)
    <3>0. field # "bullets"
      <4> SUFFICES ASSUME field = "bullets" PROVE FALSE
        OBVIOUS
      <4>1. d \in [en : Column, zh : Column]
        BY DEF Draftable
      <4>2. Form!errorSlots(d) = Form!Whole \cup Form!Cells(d)
        BY BulletSlots
      <4> QED BY <2>2, <4>2
    <3>1. field = "tags" /\ d \in [tags : ChipRow]
      BY <3>0 DEF Draftable
    <3>2. PICK i \in DOMAIN d.tags : p = <<"tags", i>> /\ d.tags[i].term
      BY <2>2, <3>1, TagSlots, TagCells
    <3>3. <<"tags", i, "en">> \in Form!Cells(d)
      <4>1. \E l \in {"en", "zh"} : <<"tags", i, "en">> = <<"tags", i, l>>
        OBVIOUS
      <4> QED BY <3>1, <3>2, <4>1, TagCells
    <3>4. <<p[1], p[2], "en">> = <<"tags", i, "en">>
      BY <3>2
    <3> QED BY <2>2, <3>3, <3>4 DEF Form!Shows, Form!Controls
  <2> QED BY <2>1, <2>2
<1> QED BY <1>1, <1>2, <1>3

-------------------------------------------------------------------------------
(* What a change of the draft leaves of its errors.                          *)

Controlled(d) == Form!Controls(d) \cup {<<"user">>, <<"message">>}

\* An error at p is about the same in the one draft as in the other.
Carries(d, e, p) ==
  /\ p \in Form!errorSlots(e)
  /\ p \in Form!validateDraft(d) => p \in Form!validateDraft(e)
  /\ p \in Form!Cells(e) => p \in Form!Cells(d) /\ Form!getAt(e, p) = Form!getAt(d, p)

LEMMA EditFacts ==
  ASSUME EditInv
  PROVE  /\ EditTyped /\ SentInv /\ ErrorsInv
         /\ field \in {"bullets", "tags"} /\ Draftable(written) /\ message \in BOOLEAN /\ edited \in BOOLEAN
         /\ saving = [at |-> saving.at, sent |-> saving.sent, fields |-> saving.fields]
         /\ saving.at \in {"none", "sent", "refused", "saved"} /\ put \in Controlled(written)
         /\ \A e \in errors : e.why \in {"invalid", "rejected"}
  BY Zenon DEF EditInv, EditTyped, Controlled

LEMMA Steady ==
  ASSUME field' = field, NEW d, written' = d
  PROVE  /\ Form!Cells(written)' = Form!Cells(d) /\ Form!errorSlots(written)' = Form!errorSlots(d)
         /\ Form!validateDraft(written)' = Form!validateDraft(d)
         /\ Form!Controls(written)' = Form!Controls(d) /\ Controlled(written)' = Controlled(d)
         /\ \A p : Form!getAt(written, p)' = Form!getAt(d, p)
         /\ Draftable(written)' <=> Draftable(d)
<1>1. Form!Cells(written)' = Form!Cells(d) /\ \A p : Form!getAt(written, p)' = Form!getAt(d, p)
  BY DEF Form!Cells, Form!getAt
<1>2. Form!errorSlots(written)' = Form!errorSlots(d)
  BY <1>1 DEF Form!errorSlots, Form!Whole
<1>3. Form!validateDraft(written)' = Form!validateDraft(d)
  BY <1>1 DEF Form!validateDraft, Form!Whole
<1>4. Form!Controls(written)' = Form!Controls(d)
  BY <1>1 DEF Form!Controls, Form!Count
<1>5. Controlled(written)' = Controlled(d)
  BY <1>4 DEF Controlled
<1>6. Draftable(written)' <=> Draftable(d)
  BY DEF Draftable
<1> QED BY <1>1, <1>2, <1>3, <1>4, <1>5, <1>6

LEMMA SentSteady ==
  ASSUME field' = field, NEW d, saving'.sent = d
  PROVE  (Draftable(saving.sent)' <=> Draftable(d)) /\ Form!Keys(saving.sent)' = Form!Keys(d)
  BY DEF Draftable, Form!Keys, Form!Cells, Form!getAt

LEMMA ApplyKeeps ==
  ASSUME EditInv, NEW d, NEW paths, Form!apply(d, paths), Draftable(d), put' \in Controlled(d),
         \A p \in Form!errorSlots(written) :
           (\A q \in paths : ~ Form!startsWith(p, q)) => Carries(written, d, p)
  PROVE  EditInv'
<1> DEFINE b == edited \/ saving.at # "none"
<1>0. /\ written' = d /\ errors' = Form!clearErrors(errors, paths) /\ edited' = b
      /\ UNCHANGED <<field, message, saving>>
  BY DEF Form!apply
<1>1. b \in BOOLEAN /\ (~ b => ~ edited /\ saving.at = "none")
  <2>1. b \in BOOLEAN
    BY Zenon
  <2> QED BY <2>1
<1> HIDE DEF b
<1>2. errors' \subseteq errors /\ \A e \in errors' : \A q \in paths : ~ Form!startsWith(e.path, q)
  BY <1>0 DEF Form!clearErrors
<1>3. EditTyped'
  <2>1. Draftable(written)' /\ put' \in Controlled(written)'
    BY <1>0, Steady
  <2>2. /\ field' \in {"bullets", "tags"} /\ \A e \in errors' : e.why \in {"invalid", "rejected"}
        /\ message' \in BOOLEAN /\ edited' \in BOOLEAN
        /\ saving' = [at |-> saving'.at, sent |-> saving'.sent, fields |-> saving'.fields]
        /\ saving'.at \in {"none", "sent", "refused", "saved"}
    BY <1>0, <1>1, <1>2, EditFacts
  <2> QED BY <2>1, <2>2 DEF EditTyped, Controlled
<1>4. SentInv'
  <2>1. (Draftable(saving.sent)' <=> Draftable(saving.sent)) /\ Form!Keys(saving.sent)' = Form!Keys(saving.sent)
    BY <1>0, SentSteady
  <2> QED BY <1>0, <1>1, <2>1, EditFacts DEF SentInv
<1>5. ErrorsInv'
  <2> SUFFICES ASSUME ~ edited', NEW e \in errors' PROVE About(written, e)'
    BY DEF ErrorsInv
  <2>1. About(written, e) /\ e.path \in Form!errorSlots(written)
    BY <1>0, <1>1, <1>2, EditFacts DEF ErrorsInv, About
  <2>2. Carries(written, d, e.path)
    BY <1>2, <2>1
  <2>3. About(d, e)
    BY <2>1, <2>2 DEF About, Carries
  <2> QED BY <1>0, <2>3, Steady DEF About
<1> QED BY <1>3, <1>4, <1>5 DEF EditInv

\* What changes a list as a whole clears every error.
LEMMA WholeKeeps ==
  ASSUME EditInv, NEW d, Form!apply(d, Form!Whole), Draftable(d), put' \in Controlled(d)
  PROVE  EditInv'
<1>1. \A p \in Form!errorSlots(written) : \E w \in Form!Whole : Form!startsWith(p, w)
  BY EditFacts, PlacesShow
<1> QED BY <1>1, ApplyKeeps

-------------------------------------------------------------------------------
(* Typing, and a chip that is switched.                                      *)

LEMMA BulletTyped ==
  ASSUME field = "bullets", NEW d, Draftable(d), NEW cell \in Form!Cells(d), NEW text \in Form!Texts,
         NEW e, e = Form!setAt(d, cell, text)
  PROVE  Draftable(e) /\ \A p \in Form!errorSlots(d) : ~ Form!startsWith(p, cell) => Carries(d, e, p)
<1>0. d \in [en : Column, zh : Column] /\ Len(d.en) = Len(d.zh)
  BY DEF Draftable
<1>1. PICK l \in {"en", "zh"} : \E i \in DOMAIN d[l] : cell = <<l, i>>
  BY BulletCells
<1>2. PICK i \in DOMAIN d[l] : cell = <<l, i>>
  BY <1>1
<1>3. e = [d EXCEPT ![l] = [d[l] EXCEPT ![i] = text]]
  BY <1>2 DEF Form!setAt
<1> DEFINE s == [d[l] EXCEPT ![i] = text]
<1>4. d[l] \in Seq(Form!Texts) /\ Len(d[l]) <= MaxRows
  BY <1>0, DraftsAre
<1>5. s \in Seq(Form!Texts) /\ Len(s) = Len(d[l]) /\ DOMAIN s = DOMAIN d[l]
      /\ \A j \in DOMAIN d[l] : s[j] = IF j = i THEN text ELSE d[l][j]
  BY <1>4
<1>6. s \in Column /\ Len(s) = Len(d[l])
  BY <1>4, <1>5, DraftsAre
<1> HIDE DEF s
<1>7. /\ e \in [en : Column, zh : Column] /\ Len(e.en) = Len(e.zh)
      /\ \A m \in {"en", "zh"} : e[m] = IF m = l THEN s ELSE d[m]
  BY <1>0, <1>3, <1>6 DEF s
<1>8. \A m \in {"en", "zh"} : DOMAIN e[m] = DOMAIN d[m]
  BY <1>5, <1>7
<1>9. Form!Cells(e) = Form!Cells(d)
  <2>1. \A p : p \in Form!Cells(d) <=> \E m \in {"en", "zh"} : \E j \in DOMAIN d[m] : p = <<m, j>>
    BY BulletCells
  <2>2. \A p : p \in Form!Cells(e) <=> \E m \in {"en", "zh"} : \E j \in DOMAIN e[m] : p = <<m, j>>
    BY BulletCells
  <2>3. \A p : p \in Form!Cells(e) <=> p \in Form!Cells(d)
    BY <1>8, <2>1, <2>2
  <2> QED BY <2>3
<1>10. ASSUME NEW p \in Form!errorSlots(d), ~ Form!startsWith(p, cell) PROVE Carries(d, e, p)
  <2>1. p \in Form!errorSlots(e)
    BY <1>9, BulletSlots
  <2>2. CASE p \in Form!Cells(d)
    <3>1. PICK m \in {"en", "zh"} : \E j \in DOMAIN d[m] : p = <<m, j>>
      BY <2>2, BulletCells
    <3>2. PICK j \in DOMAIN d[m] : p = <<m, j>>
      BY <3>1
    <3>3. m # l \/ j # i
      BY <1>2, <1>10, <3>2, Prefixes
    <3>4. e[m][j] = d[m][j]
      BY <1>5, <1>7, <3>3
    <3>5. Form!getAt(e, p) = Form!getAt(d, p)
      BY <3>2, <3>4, BulletCells
    <3>6. p \notin Form!Whole
      BY <3>2, BulletSlots
    <3> QED BY <1>9, <2>1, <2>2, <3>5, <3>6, Invalids DEF Carries
  <2>3. CASE p \notin Form!Cells(d)
    <3>1. PICK m \in {"en", "zh"} : p = <<m>>
      BY <2>3, BulletSlots
    <3>2. d[m] = <<>> => e[m] = <<>>
      <4>1. d[m] = <<>> => m # l
        BY <1>2
      <4> QED BY <1>7, <4>1
    <3>3. p[1] = m
      BY <3>1
    <3> QED BY <1>9, <2>1, <2>3, <3>2, <3>3, Invalids DEF Carries
  <2> QED BY <2>2, <2>3
<1>11. Draftable(e)
  BY <1>7 DEF Draftable
<1> QED BY <1>10, <1>11

LEMMA ChipSet ==
  ASSUME NEW d \in [tags : ChipRow], NEW i \in DOMAIN d.tags, NEW c \in Form!Chips,
         NEW e, e = [d EXCEPT !.tags = [d.tags EXCEPT ![i] = c]]
  PROVE  /\ e \in [tags : ChipRow] /\ DOMAIN e.tags = DOMAIN d.tags /\ e.tags # <<>>
         /\ e.tags[i] = c /\ \A j \in DOMAIN d.tags : j # i => e.tags[j] = d.tags[j]
<1> DEFINE s == [d.tags EXCEPT ![i] = c]
<1>1. d.tags \in Seq(Form!Chips) /\ Len(d.tags) <= MaxRows
  BY DraftsAre
<1>2. /\ s \in Seq(Form!Chips) /\ Len(s) = Len(d.tags) /\ DOMAIN s = DOMAIN d.tags
      /\ s[i] = c /\ \A j \in DOMAIN d.tags : j # i => s[j] = d.tags[j]
  BY <1>1
<1>3. s \in ChipRow /\ s # <<>>
  BY <1>1, <1>2, DraftsAre
<1> HIDE DEF s
<1>4. e = [d EXCEPT !.tags = s]
  BY DEF s
<1>5. e.tags = s /\ e \in [tags : ChipRow]
  BY <1>3, <1>4
<1> QED BY <1>2, <1>3, <1>5

\* Another chip in the place of one: what is said of the others stands.
LEMMA ChipOthers ==
  ASSUME field = "tags", NEW d \in [tags : ChipRow], NEW i \in DOMAIN d.tags, NEW c \in Form!Chips,
         NEW e, e = [d EXCEPT !.tags = [d.tags EXCEPT ![i] = c]],
         NEW p \in Form!errorSlots(d), ~ Form!startsWith(p, <<"tags", i>>)
  PROVE  Carries(d, e, p)
<1>1. /\ e \in [tags : ChipRow] /\ DOMAIN e.tags = DOMAIN d.tags /\ d.tags # <<>>
      /\ \A j \in DOMAIN d.tags : j # i => e.tags[j] = d.tags[j]
  BY ChipSet
<1>2. CASE p \in Form!Cells(d)
  <2>1. CASE \E j \in DOMAIN d.tags : d.tags[j].term /\ \E l \in {"en", "zh"} : p = <<"tags", j, l>>
    <3>1. PICK j \in DOMAIN d.tags, l \in {"en", "zh"} : d.tags[j].term /\ p = <<"tags", j, l>>
      BY <2>1
    <3>2. j # i
      BY <3>1, Prefixes
    <3>3. e.tags[j] = d.tags[j]
      BY <1>1, <3>2
    <3>4. p \in Form!Cells(e)
      BY <1>1, <3>1, <3>3, TagCells
    <3>5. Form!getAt(e, p) = Form!getAt(d, p)
      BY <3>1, <3>3, TagCells
    <3>6. p \notin Form!Whole /\ p \in Form!errorSlots(e)
      BY <3>1, <3>4, TagSlots
    <3> QED BY <1>2, <3>4, <3>5, <3>6, Invalids DEF Carries
  <2>2. CASE \E j \in DOMAIN d.tags : ~ d.tags[j].term /\ p = <<"tags", j>>
    <3>1. PICK j \in DOMAIN d.tags : ~ d.tags[j].term /\ p = <<"tags", j>>
      BY <2>2
    <3>2. j # i
      BY <3>1, Prefixes
    <3>3. e.tags[j] = d.tags[j]
      BY <1>1, <3>2
    <3>4. p \in Form!Cells(e)
      BY <1>1, <3>1, <3>3, TagCells
    <3>5. Form!getAt(e, p) = Form!getAt(d, p)
      BY <3>1, <3>3, TagCells
    <3>6. p \notin Form!Whole /\ p \in Form!errorSlots(e)
      BY <3>1, <3>4, TagSlots
    <3> QED BY <1>2, <3>4, <3>5, <3>6, Invalids DEF Carries
  <2> QED BY <1>2, <2>1, <2>2, TagCells
<1>3. CASE p = <<"tags">>
  <2>1. p[1] = "tags"
    BY <1>3
  <2>2. (\A k : p # <<"tags", k>>) /\ (\A k, l : p # <<"tags", k, l>>)
    BY <1>3
  <2>3. p \notin Form!Cells(d) /\ p \notin Form!Cells(e)
    BY <2>2, TagCells
  <2>4. d[p[1]] # <<>>
    BY <1>1, <2>1
  <2>5. p \notin Form!validateDraft(d)
    BY <2>3, <2>4, Invalids
  <2> QED BY <1>3, <2>3, <2>5, TagSlots DEF Carries
<1>4. CASE p \notin Form!Cells(d) /\ p # <<"tags">>
  <2>1. PICK j \in DOMAIN d.tags : p = <<"tags", j>>
    BY <1>4, TagSlots
  <2>2. j # i
    BY <2>1, Prefixes
  <2>3. e.tags[j] = d.tags[j]
    BY <1>1, <2>2
  <2>4. d.tags[j].term
    BY <1>4, <2>1, TagCells
  <2>5. p \notin Form!Cells(e)
    <3>1. ASSUME NEW k \in DOMAIN e.tags, p = <<"tags", k>> PROVE e.tags[k].term
      <4>1. k = j
        BY <2>1, <3>1
      <4> QED BY <2>3, <2>4, <4>1
    <3>2. \A k, l : p # <<"tags", k, l>>
      BY <2>1
    <3> QED BY <3>1, <3>2, TagCells
  <2>6. p \notin Form!validateDraft(d)
    <3>1. p \notin Form!Whole
      BY <1>4, TagSlots
    <3> QED BY <1>4, <3>1, Invalids
  <2>7. p \in Form!errorSlots(e)
    BY <1>1, <2>1, TagSlots
  <2> QED BY <2>5, <2>6, <2>7 DEF Carries
<1> QED BY <1>2, <1>3, <1>4

LEMMA WithText ==
  ASSUME NEW term, NEW en, NEW zh, NEW text, NEW l
  PROVE  LET c == [[term |-> term, en |-> en, zh |-> zh] EXCEPT ![l] = text] IN
         /\ l = "en" => c = [term |-> term, en |-> text, zh |-> zh]
         /\ l = "zh" => c = [term |-> term, en |-> en, zh |-> text]
  OBVIOUS

LEMMA ChipText ==
  ASSUME NEW tag \in Form!Chips, NEW text \in Form!Texts, NEW l \in {"en", "zh"}, tag.term \/ l = "en",
         NEW c, c = [tag EXCEPT ![l] = text]
  PROVE  c \in Form!Chips /\ c.term = tag.term /\ \A m \in {"en", "zh"} : m # l => c[m] = tag[m]
<1>1. (\E en \in Form!Texts : tag = Form!Noun(en)) \/ (\E en, zh \in Form!Texts : tag = Form!Term(en, zh))
  BY DEF Form!Chips
<1>2. CASE \E en \in Form!Texts : tag = Form!Noun(en)
  <2>1. PICK en \in Form!Texts : tag = [term |-> FALSE, en |-> en, zh |-> ""]
    BY <1>2 DEF Form!Noun
  <2>2. l = "en"
    <3>1. tag.term = FALSE
      BY <2>1
    <3> QED BY <3>1
  <2>3. c = [term |-> FALSE, en |-> text, zh |-> ""]
    BY <2>1, <2>2, WithText
  <2>4. Form!Noun(text) = [term |-> FALSE, en |-> text, zh |-> ""]
    BY DEF Form!Noun
  <2>5. c \in Form!Chips
    <3>1. c = Form!Noun(text)
      BY Zenon, <2>3, <2>4
    <3>2. Form!Noun(text) \in Form!Chips
      BY ChipsAre
    <3> QED BY <3>1, <3>2
  <2> QED BY <2>1, <2>2, <2>3, <2>5
<1>3. CASE \E en, zh \in Form!Texts : tag = Form!Term(en, zh)
  <2>1. PICK en \in Form!Texts, zh \in Form!Texts : tag = [term |-> TRUE, en |-> en, zh |-> zh]
    BY <1>3 DEF Form!Term
  <2>2. CASE l = "en"
    <3>1. c = [term |-> TRUE, en |-> text, zh |-> zh]
      BY <2>1, <2>2, WithText
    <3>2. c = Form!Term(text, zh)
      BY <3>1 DEF Form!Term
    <3>3. c \in Form!Chips
      BY <3>2, ChipsAre, ZenonT(30)
    <3> QED BY <2>1, <2>2, <3>1, <3>3
  <2>3. CASE l = "zh"
    <3>1. c = [term |-> TRUE, en |-> en, zh |-> text]
      BY <2>1, <2>3, WithText
    <3>2. c = Form!Term(en, text)
      BY <3>1 DEF Form!Term
    <3>3. c \in Form!Chips
      BY <3>2, ChipsAre, ZenonT(30)
    <3> QED BY <2>1, <2>3, <3>1, <3>3
  <2> QED BY <2>2, <2>3
<1> QED BY <1>1, <1>2, <1>3

LEMMA TagTyped ==
  ASSUME field = "tags", NEW d, Draftable(d), NEW cell \in Form!Cells(d), NEW text \in Form!Texts,
         NEW e, e = Form!setAt(d, cell, text)
  PROVE  Draftable(e) /\ \A p \in Form!errorSlots(d) : ~ Form!startsWith(p, cell) => Carries(d, e, p)
<1>0. d \in [tags : ChipRow]
  BY DEF Draftable
<1>1. \A i \in DOMAIN d.tags : d.tags[i] \in Form!Chips
  <2>1. d.tags \in Seq(Form!Chips)
    BY <1>0, DraftsAre
  <2> QED BY <2>1
<1>2. CASE \E i \in DOMAIN d.tags : ~ d.tags[i].term /\ cell = <<"tags", i>>
  <2>1. PICK i \in DOMAIN d.tags : ~ d.tags[i].term /\ cell = <<"tags", i>>
    BY <1>2
  <2> DEFINE c == [d.tags[i] EXCEPT !.en = text]
  <2>2. Len(cell) = 2 /\ cell[2] = i
    BY <2>1
  <2>3. e = [d EXCEPT !.tags[i].en = text]
    BY <2>2 DEF Form!setAt
  <2>4. e = [d EXCEPT !.tags = [d.tags EXCEPT ![i] = c]]
    BY <1>0, <2>3
  <2>5. c \in Form!Chips
    BY <1>1, ChipText
  <2> HIDE DEF c
  <2>6. Draftable(e)
    BY <1>0, <2>4, <2>5, ChipSet DEF Draftable
  <2>7. \A p \in Form!errorSlots(d) : ~ Form!startsWith(p, cell) => Carries(d, e, p)
    BY <1>0, <2>1, <2>4, <2>5, ChipOthers
  <2> QED BY <2>6, <2>7
<1>3. CASE \E i \in DOMAIN d.tags : d.tags[i].term /\ \E l \in {"en", "zh"} : cell = <<"tags", i, l>>
  <2>1. PICK i \in DOMAIN d.tags, l \in {"en", "zh"} : d.tags[i].term /\ cell = <<"tags", i, l>>
    BY <1>3
  <2> DEFINE c == [d.tags[i] EXCEPT ![l] = text]
  <2>2. Len(cell) # 2 /\ cell[2] = i /\ cell[3] = l
    BY <2>1
  <2>3. e = [d EXCEPT !.tags[i][l] = text]
    BY <2>2 DEF Form!setAt
  <2>4. e = [d EXCEPT !.tags = [d.tags EXCEPT ![i] = c]]
    BY <1>0, <2>3
  <2>5. c \in Form!Chips /\ c.term = TRUE /\ \A m \in {"en", "zh"} : m # l => c[m] = d.tags[i][m]
    <3>1. d.tags[i] \in Form!Chips /\ d.tags[i].term = TRUE
      <4>1. d.tags[i] \in Form!Chips /\ d.tags[i].term \in {TRUE, FALSE}
        BY <1>1, ChipsAre
      <4> QED BY <2>1, <4>1
    <3> QED BY <2>1, <3>1, ChipText
  <2> HIDE DEF c
  <2>6. /\ e \in [tags : ChipRow] /\ DOMAIN e.tags = DOMAIN d.tags /\ e.tags[i] = c
    BY <1>0, <2>4, <2>5, ChipSet
  <2>7. Draftable(e)
    BY <2>6 DEF Draftable
  <2>8. ASSUME NEW p \in Form!errorSlots(d), ~ Form!startsWith(p, cell) PROVE Carries(d, e, p)
    <3>1. CASE ~ Form!startsWith(p, <<"tags", i>>)
      BY <1>0, <2>4, <2>5, <3>1, ChipOthers
    <3>2. CASE p = <<"tags", i>>
      <4>1. p \in Form!errorSlots(e)
        BY <2>6, <3>2, TagSlots
      <4>2. \A k, m : p # <<"tags", k, m>>
        BY <3>2
      <4>3. p \notin Form!Cells(d)
        <5>1. ASSUME NEW k \in DOMAIN d.tags, p = <<"tags", k>> PROVE d.tags[k].term
          <6>1. k = i
            BY <3>2, <5>1
          <6> QED BY <2>1, <6>1
        <5> QED BY <4>2, <5>1, TagCells
      <4>4. p \notin Form!Cells(e)
        <5>1. ASSUME NEW k \in DOMAIN e.tags, p = <<"tags", k>> PROVE e.tags[k].term
          <6>1. k = i
            BY <3>2, <5>1
          <6> QED BY <2>5, <2>6, <6>1
        <5> QED BY <4>2, <5>1, TagCells
      <4>5. p \notin Form!Whole
        BY <3>2, TagSlots
      <4> QED BY <4>1, <4>3, <4>4, <4>5, Invalids DEF Carries
    <3>3. CASE Form!startsWith(p, <<"tags", i>>) /\ p # <<"tags", i>>
      <4>1. p \in Form!Cells(d) /\ p \notin Form!Whole
        <5>1. p # <<"tags">>
          BY <3>3, Prefixes
        <5>2. ASSUME NEW k, p = <<"tags", k>> PROVE FALSE
          BY <3>3, <5>2, Prefixes
        <5> QED BY <5>1, <5>2, TagSlots
      <4>2. PICK k \in DOMAIN d.tags, m \in {"en", "zh"} : p = <<"tags", k, m>>
        <5>1. \A k : p # <<"tags", k>>
          BY <3>3, Prefixes
        <5> QED BY <4>1, <5>1, TagCells
      <4>3. k = i /\ m # l
        BY <2>1, <2>8, <3>3, <4>2, Prefixes
      <4>4. p \in Form!Cells(e)
        BY <2>5, <2>6, <4>2, <4>3, TagCells
      <4>5. Form!getAt(e, p) = Form!getAt(d, p)
        <5>1. Form!getAt(e, p) = e.tags[i][m] /\ Form!getAt(d, p) = d.tags[i][m]
          BY <4>2, <4>3, TagCells
        <5> QED BY <2>5, <2>6, <4>3, <5>1
      <4>6. p \in Form!errorSlots(e)
        BY <4>4, TagSlots
      <4> QED BY <4>1, <4>4, <4>5, <4>6, Invalids DEF Carries
    <3> QED BY <3>1, <3>2, <3>3
  <2> QED BY <2>7, <2>8
<1> QED BY <1>2, <1>3, TagCells

LEMMA TypeKeeps ==
  ASSUME EditInv, NEW cell \in Form!Cells(written), NEW text \in Form!Texts, Form!type(cell, text)
  PROVE  EditInv'
<1> DEFINE d == Form!setAt(written, cell, text)
<1>1. Form!apply(d, {cell}) /\ put' = <<"user">>
  BY DEF Form!type
<1>2. Draftable(d) /\ \A p \in Form!errorSlots(written) : ~ Form!startsWith(p, cell) => Carries(written, d, p)
  BY EditFacts, BulletTyped, TagTyped
<1>3. put' \in Controlled(d)
  BY <1>1 DEF Controlled
<1> HIDE DEF d
<1> QED BY <1>1, <1>2, <1>3, ApplyKeeps

LEMMA SetKindKeeps ==
  ASSUME EditInv, field = "tags", NEW i \in DOMAIN written.tags, Form!setKind(i)
  PROVE  EditInv'
<1> DEFINE tag == written.tags[i]
           c == IF tag.term THEN Form!Noun(tag.en) ELSE Form!Term(tag.en, "")
           d == [written EXCEPT !.tags[i] = c]
<1>1. Form!apply(d, {<<"tags", i>>}) /\ put' = <<"user">>
  BY DEF Form!setKind
<1>2. written \in [tags : ChipRow]
  BY EditFacts DEF Draftable
<1>3. c \in Form!Chips
  <2>1. written.tags \in Seq(Form!Chips)
    BY <1>2, DraftsAre
  <2>2. tag \in Form!Chips
    BY <2>1
  <2>3. tag.en \in Form!Texts /\ "" \in Form!Texts
    BY <2>2, ChipsAre DEF Form!Texts
  <2> QED BY <2>3, ChipsAre
<1> HIDE DEF tag, c
<1>4. d = [written EXCEPT !.tags = [written.tags EXCEPT ![i] = c]]
  BY <1>2
<1> HIDE DEF d
<1>5. Draftable(d)
  BY <1>2, <1>3, <1>4, ChipSet DEF Draftable
<1>6. \A p \in Form!errorSlots(written) : ~ Form!startsWith(p, <<"tags", i>>) => Carries(written, d, p)
  BY <1>2, <1>3, <1>4, ChipOthers
<1>7. put' \in Controlled(d)
  BY <1>1 DEF Controlled
<1> QED BY <1>1, <1>5, <1>6, <1>7, ApplyKeeps

-------------------------------------------------------------------------------
(* Rows that are added, moved and removed.                                   *)

LEMMA Counting ==
  ASSUME field \in {"bullets", "tags"}, NEW d, Draftable(d)
  PROVE  /\ Form!Count(d) \in 0 .. MaxRows
         /\ field = "bullets" => \A l \in {"en", "zh"} : d[l] \in Seq(Form!Texts) /\ Len(d[l]) = Form!Count(d)
         /\ field = "tags" => d.tags \in Seq(Form!Chips) /\ Len(d.tags) = Form!Count(d)
<1>1. CASE field = "bullets"
  <2>1. d \in [en : Column, zh : Column] /\ Len(d.en) = Len(d.zh)
    BY <1>1 DEF Draftable
  <2>2. d.en \in Seq(Form!Texts) /\ d.zh \in Seq(Form!Texts) /\ Len(d.en) <= MaxRows
    BY <2>1, DraftsAre
  <2>3. Form!Count(d) = Len(d.en) /\ Len(d.en) \in 0 .. MaxRows
    BY <1>1, <2>1, <2>2, RowsBound DEF Form!Count
  <2> QED BY <1>1, <2>1, <2>2, <2>3
<1>2. CASE field = "tags"
  <2>1. d \in [tags : ChipRow]
    BY <1>2 DEF Draftable
  <2>2. d.tags \in Seq(Form!Chips) /\ Len(d.tags) <= MaxRows
    BY <2>1, DraftsAre
  <2>3. Form!Count(d) = Len(d.tags)
    BY <1>2 DEF Form!Count
  <2> QED BY <1>2, <2>2, <2>3, RowsBound
<1> QED BY <1>1, <1>2

\* A draft of as many rows in each of its lists.
LEMMA OfRows ==
  ASSUME EditInv, NEW n \in 0 .. MaxRows, NEW d, d = [l \in DOMAIN d |-> d[l]], DOMAIN d = DOMAIN written,
         field = "bullets" => \A l \in {"en", "zh"} : d[l] \in Seq(Form!Texts) /\ Len(d[l]) = n,
         field = "tags" => d["tags"] \in Seq(Form!Chips) /\ Len(d["tags"]) = n
  PROVE  Draftable(d) /\ Form!Count(d) = n
<1>1. CASE field = "bullets"
  <2>1. DOMAIN written = {"en", "zh"}
    BY <1>1, EditFacts DEF Draftable
  <2>2. d["en"] \in Column /\ d["zh"] \in Column /\ Len(d["en"]) = n /\ Len(d["zh"]) = n
    BY <1>1, DraftsAre
  <2>3. d \in [en : Column, zh : Column] /\ d.en = d["en"] /\ d.zh = d["zh"]
    BY <2>1, <2>2
  <2>4. Draftable(d)
    BY <1>1, <2>2, <2>3 DEF Draftable
  <2> QED BY <1>1, <2>2, <2>3, <2>4 DEF Form!Count
<1>2. CASE field = "tags"
  <2>1. DOMAIN written = {"tags"}
    BY <1>2, EditFacts DEF Draftable
  <2>2. d["tags"] \in ChipRow /\ Len(d["tags"]) = n
    BY <1>2, DraftsAre
  <2>3. d \in [tags : ChipRow] /\ d.tags = d["tags"]
    BY <2>1, <2>2
  <2>4. Draftable(d)
    BY <1>2, <2>3 DEF Draftable
  <2> QED BY <1>2, <2>2, <2>3, <2>4 DEF Form!Count
<1> QED BY <1>1, <1>2, EditFacts

\* Every list of a draft is one of the field's.
LEMMA Columns ==
  ASSUME EditInv
  PROVE  /\ field = "bullets" => DOMAIN written = {"en", "zh"}
         /\ field = "tags" => DOMAIN written = {"tags"}
  BY EditFacts DEF Draftable

\* The lists of a draft are of one length: nothing is padded.
LEMMA Padded ==
  ASSUME EditInv
  PROVE  /\ field = "bullets" => \A l \in {"en", "zh"} : Form!pad(written[l]) = written[l]
         /\ field = "tags" => Form!pad(written["tags"]) = written.tags
<1>1. /\ field = "bullets" => \A l \in {"en", "zh"} : written[l] \in Seq(Form!Texts) /\ Len(written[l]) = Form!Count(written)
      /\ field = "tags" => written.tags \in Seq(Form!Chips) /\ Len(written.tags) = Form!Count(written)
  BY EditFacts, Counting
<1>2. ASSUME NEW S, NEW s \in Seq(S), Len(s) = Form!Count(written) PROVE Form!pad(s) = s
  BY <1>2 DEF Form!pad
<1> QED BY <1>1, <1>2

LEMMA Added ==
  ASSUME NEW S, NEW s \in Seq(S), NEW x \in S, NEW t, t = Append(s, x)
  PROVE  t \in Seq(S) /\ Len(t) = Len(s) + 1 /\ t[Len(s) + 1] = x
  OBVIOUS

LEMMA Moved ==
  ASSUME NEW S, NEW s \in Seq(S), NEW i \in 1 .. Len(s), NEW j \in 1 .. Len(s)
  PROVE  Form!swapped(s, i, j) \in Seq(S) /\ Len(Form!swapped(s, i, j)) = Len(s)
  BY DEF Form!swapped

LEMMA Removed ==
  ASSUME NEW S, NEW s \in Seq(S), NEW i \in 1 .. Len(s)
  PROVE  Form!without(s, i) \in Seq(S) /\ Len(Form!without(s, i)) = Len(s) - 1
<1> DEFINE r == [n \in 1 .. Len(s) - 1 |-> IF n < i THEN s[n] ELSE s[n + 1]]
<1>1. Len(s) - 1 \in Nat /\ \A n \in 1 .. Len(s) - 1 : r[n] \in S
  OBVIOUS
<1>2. r \in [1 .. Len(s) - 1 -> S]
  BY <1>1
<1> QED BY <1>1, <1>2 DEF Form!without

\* The buttons of the rows that there are, and the one that adds.
LEMMA Buttons ==
  ASSUME NEW d
  PROVE  /\ <<"add">> \in Controlled(d)
         /\ \A k \in 1 .. Form!Count(d), a \in {"up", "down", "remove"} : <<"row", k, a>> \in Controlled(d)
         /\ Form!Cells(d) \subseteq Controlled(d)
  BY DEF Controlled, Form!Controls

LEMMA AddBulletKeeps ==
  ASSUME EditInv, field = "bullets", Form!addBullet
  PROVE  EditInv'
<1> DEFINE n == Form!Count(written)
           blank == ""
           d == [l \in DOMAIN written |-> Append(Form!pad(written[l]), blank)]
<1>1. Form!apply(d, Form!Whole) /\ put' = <<"en", n + 1>> /\ n < MaxRows
  BY DEF Form!addBullet
<1>2. n \in 0 .. MaxRows /\ \A l \in {"en", "zh"} : written[l] \in Seq(Form!Texts) /\ Len(written[l]) = n
  BY EditFacts, Counting
<1>3. \A l \in {"en", "zh"} : d[l] = Append(written[l], blank)
  <2> HIDE DEF blank
  <2> QED BY Padded, Columns
<1>4. d = [l \in DOMAIN d |-> d[l]] /\ DOMAIN d = DOMAIN written
  OBVIOUS
<1>0. blank \in Form!Texts
  BY DEF Form!Texts
<1> HIDE DEF n, d, blank
<1>5. \A l \in {"en", "zh"} : d[l] \in Seq(Form!Texts) /\ Len(d[l]) = n + 1
  <2> SUFFICES ASSUME NEW l \in {"en", "zh"} PROVE d[l] \in Seq(Form!Texts) /\ Len(d[l]) = n + 1
    OBVIOUS
  <2>1. written[l] \in Seq(Form!Texts) /\ Len(written[l]) = n /\ d[l] = Append(written[l], blank)
    BY <1>2, <1>3
  <2> QED BY <1>0, <2>1, Added
<1>6. n + 1 \in 0 .. MaxRows
  BY <1>1, <1>2, RowsBound
<1>7. Draftable(d) /\ Form!Count(d) = n + 1
  BY <1>4, <1>5, <1>6, OfRows
<1>8. <<"en", n + 1>> \in Form!Cells(d)
  <2>1. n + 1 \in DOMAIN d["en"]
    BY <1>2, <1>5, RowsBound
  <2> QED BY <2>1, BulletCells
<1> QED BY <1>1, <1>7, <1>8, Buttons, WholeKeeps

LEMMA AddTagKeeps ==
  ASSUME EditInv, field = "tags", NEW tag \in Form!Chips, Form!addTag(tag)
  PROVE  EditInv'
<1> DEFINE n == Form!Count(written)
           s == Append(written.tags, tag)
           d == [written EXCEPT !.tags = s]
<1>1. /\ Form!apply(d, Form!Whole) /\ n < MaxRows
      /\ put' = IF tag.term THEN <<"tags", n + 1, "en">> ELSE <<"tags", n + 1>>
  BY DEF Form!addTag
<1>2. n \in 0 .. MaxRows /\ written.tags \in Seq(Form!Chips) /\ Len(written.tags) = n
  BY EditFacts, Counting
<1> HIDE DEF n
<1>3. s \in Seq(Form!Chips) /\ Len(s) = n + 1 /\ s[n + 1] = tag /\ n + 1 \in DOMAIN s
  <2>1. n + 1 \in 1 .. n + 1
    BY <1>2, RowsBound
  <2> QED BY <1>2, <2>1, Added
<1> HIDE DEF s
<1>4. s \in ChipRow
  <2>1. n + 1 <= MaxRows
    BY <1>1, <1>2, RowsBound
  <2> QED BY <1>3, <2>1, DraftsAre
<1>5. d.tags = s /\ d \in [tags : ChipRow]
  BY <1>4, EditFacts DEF Draftable
<1>6. Draftable(d)
  BY <1>5 DEF Draftable
<1>7. put' \in Form!Cells(d)
  <2>1. CASE tag.term
    <3>1. <<"tags", n + 1, "en">> \in Form!Cells(d)
      BY <1>3, <1>5, <2>1, TagCells
    <3> QED BY <1>1, <2>1, <3>1
  <2>2. CASE ~ tag.term
    <3>1. <<"tags", n + 1>> \in Form!Cells(d)
      BY <1>3, <1>5, <2>2, TagCells
    <3> QED BY <1>1, <2>2, <3>1
  <2> QED BY <2>1, <2>2
<1> HIDE DEF d
<1> QED BY <1>1, <1>6, <1>7, Buttons, WholeKeeps

LEMMA RowsMoveKeeps ==
  ASSUME EditInv, NEW i \in 1 .. Form!Count(written), NEW action \in {"up", "down"}, Form!move(i, action)
  PROVE  EditInv'
<1> DEFINE n == Form!Count(written)
           target == IF action = "up" THEN i - 1 ELSE i + 1
           d == [l \in DOMAIN written |-> Form!swapped(Form!pad(written[l]), i, target)]
<1>1. Form!apply(d, Form!Whole) /\ put' = <<"row", target, action>> /\ target \in 1 .. n
  BY DEF Form!move
<1>2. /\ n \in 0 .. MaxRows
      /\ field = "bullets" => \A l \in {"en", "zh"} : written[l] \in Seq(Form!Texts) /\ Len(written[l]) = n
      /\ field = "tags" => written.tags \in Seq(Form!Chips) /\ Len(written.tags) = n
  BY EditFacts, Counting
<1>3. /\ field = "bullets" => \A l \in {"en", "zh"} : d[l] = Form!swapped(written[l], i, target)
      /\ field = "tags" => d["tags"] = Form!swapped(written.tags, i, target)
  BY Padded, Columns
<1>0. d = [l \in DOMAIN d |-> d[l]] /\ DOMAIN d = DOMAIN written
  OBVIOUS
<1> HIDE DEF d, target
<1>4. /\ field = "bullets" => \A l \in {"en", "zh"} : d[l] \in Seq(Form!Texts) /\ Len(d[l]) = n
      /\ field = "tags" => d["tags"] \in Seq(Form!Chips) /\ Len(d["tags"]) = n
  BY <1>1, <1>2, <1>3, Moved, RowsBound
<1> HIDE DEF n
<1>5. Draftable(d) /\ Form!Count(d) = n
  BY <1>0, <1>2, <1>4, OfRows
<1> QED BY <1>1, <1>5, Buttons, WholeKeeps

LEMMA RemoveKeeps ==
  ASSUME EditInv, NEW i \in 1 .. Form!Count(written), Form!remove(i)
  PROVE  EditInv'
<1> DEFINE n == Form!Count(written)
           d == [l \in DOMAIN written |-> Form!without(Form!pad(written[l]), i)]
<1>1. /\ Form!apply(d, Form!Whole)
      /\ put' = IF n - 1 = 0 THEN <<"add">> ELSE <<"row", IF i <= n - 1 THEN i ELSE n - 1, "remove">>
  BY DEF Form!remove
<1>2. /\ n \in 0 .. MaxRows
      /\ field = "bullets" => \A l \in {"en", "zh"} : written[l] \in Seq(Form!Texts) /\ Len(written[l]) = n
      /\ field = "tags" => written.tags \in Seq(Form!Chips) /\ Len(written.tags) = n
  BY EditFacts, Counting
<1>3. /\ field = "bullets" => \A l \in {"en", "zh"} : d[l] = Form!without(written[l], i)
      /\ field = "tags" => d["tags"] = Form!without(written.tags, i)
  BY Padded, Columns
<1>0. d = [l \in DOMAIN d |-> d[l]] /\ DOMAIN d = DOMAIN written
  OBVIOUS
<1> HIDE DEF d
<1>4. /\ field = "bullets" => \A l \in {"en", "zh"} : d[l] \in Seq(Form!Texts) /\ Len(d[l]) = n - 1
      /\ field = "tags" => d["tags"] \in Seq(Form!Chips) /\ Len(d["tags"]) = n - 1
  <2>1. ASSUME field = "bullets", NEW l \in {"en", "zh"} PROVE d[l] \in Seq(Form!Texts) /\ Len(d[l]) = n - 1
    <3>1. written[l] \in Seq(Form!Texts) /\ i \in 1 .. Len(written[l]) /\ Len(written[l]) = n
      BY <1>2, <2>1
    <3> HIDE DEF n
    <3> QED BY <1>3, <2>1, <3>1, Removed
  <2>2. ASSUME field = "tags" PROVE d["tags"] \in Seq(Form!Chips) /\ Len(d["tags"]) = n - 1
    <3>1. written.tags \in Seq(Form!Chips) /\ i \in 1 .. Len(written.tags) /\ Len(written.tags) = n
      BY <1>2, <2>2
    <3> HIDE DEF n
    <3> QED BY <1>3, <2>2, <3>1, Removed
  <2> QED BY <2>1, <2>2
<1>5. i \in 1 .. n
  OBVIOUS
<1> HIDE DEF n
<1>6. n - 1 \in 0 .. MaxRows
  BY <1>2, <1>5, RowsBound
<1>7. Draftable(d) /\ Form!Count(d) = n - 1
  BY <1>0, <1>4, <1>6, OfRows
<1>8. put' \in Controlled(d)
  <2>1. CASE n - 1 = 0
    BY <1>1, <2>1, Buttons
  <2>2. CASE n - 1 # 0
    <3>1. (IF i <= n - 1 THEN i ELSE n - 1) \in 1 .. n - 1
      BY <1>2, <1>5, <2>2
    <3> QED BY <1>1, <1>7, <2>2, <3>1, Buttons
  <2> QED BY <2>1, <2>2
<1> QED BY <1>1, <1>7, <1>8, WholeKeeps

-------------------------------------------------------------------------------
(* Saving.                                                                   *)

\* What a failed save puts on the form, when the draft is still what was sent.
LEMMA FailedKeeps ==
  ASSUME EditInv, NEW es, NEW m \in BOOLEAN, Form!failed(es, m),
         UNCHANGED <<field, written, edited>>,
         saving' = Form!Idle \/ (UNCHANGED saving /\ saving.at = "none"),
         \A e \in es : e.why \in {"invalid", "rejected"},
         ~ edited' => \A e \in es : About(written, e)
  PROVE  EditInv'
<1>1. /\ errors' = es /\ message' = m
      /\ put' = <<"message">> \/ put' = put \/ put' \in Form!Invalid(written, es)
  BY DEF Form!failed
<1>2. Form!Invalid(written, es) \subseteq Form!Controls(written)
  BY EditFacts, PlacesShow DEF Form!Invalid
<1>3. put' \in Controlled(written)
  BY <1>1, <1>2, EditFacts DEF Controlled
<1>4. /\ saving' = [at |-> saving'.at, sent |-> saving'.sent, fields |-> saving'.fields]
      /\ saving'.at = "none"
  BY EditFacts DEF Form!Idle
<1>5. EditTyped'
  <2>1. Draftable(written)' /\ put' \in Controlled(written)'
    BY <1>3, EditFacts, Steady
  <2> QED BY <1>1, <1>4, <2>1, EditFacts DEF EditTyped, Controlled
<1>6. SentInv'
  BY <1>4 DEF SentInv
<1>7. ErrorsInv'
  <2> SUFFICES ASSUME ~ edited', NEW e \in es PROVE About(written, e)'
    BY <1>1 DEF ErrorsInv
  <2>1. About(written, e)
    OBVIOUS
  <2> QED BY <2>1, Steady DEF About
<1> QED BY <1>5, <1>6, <1>7 DEF EditInv

\* What the form finds wrong itself is wrong.
LEMMA SaveKeeps ==
  ASSUME EditInv, Form!onSubmit
  PROVE  EditInv'
<1>0. UNCHANGED <<field, written>> /\ saving.at = "none" /\ edited' = FALSE
  <2>1. saving.at = "none" /\ edited' = FALSE
    BY DEF Form!onSubmit
  <2>2. UNCHANGED <<field, written>>
    BY DEF Form!onSubmit
  <2> QED BY <2>1, <2>2
<1>1. CASE Form!validateDraft(written) # {}
  <2> DEFINE es == {[path |-> p, why |-> "invalid"] : p \in Form!validateDraft(written)}
  <2>1. Form!failed(es, FALSE) /\ UNCHANGED saving
    BY <1>1 DEF Form!onSubmit
  <2>2. \A e \in es : e.why = "invalid" /\ About(written, e)
    <3>1. \A p \in Form!validateDraft(written) : p \in Form!errorSlots(written)
      BY Invalids DEF Form!errorSlots
    <3> SUFFICES ASSUME NEW e \in es PROVE e.why = "invalid" /\ About(written, e)
      OBVIOUS
    <3>2. PICK p \in Form!validateDraft(written) : e = [path |-> p, why |-> "invalid"]
      OBVIOUS
    <3>3. e.why = "invalid" /\ e.path = p
      BY <3>2
    <3> QED BY <3>1, <3>3 DEF About
  <2> HIDE DEF es
  <2>3. /\ errors' = es /\ message' = FALSE
        /\ put' = put \/ put' \in Form!Invalid(written, es)
    BY <2>1 DEF Form!failed
  <2>4. put' \in Controlled(written)
    <3>1. Form!Invalid(written, es) \subseteq Form!Controls(written)
      BY EditFacts, PlacesShow DEF Form!Invalid
    <3> QED BY <2>3, <3>1, EditFacts DEF Controlled
  <2>5. EditTyped'
    <3>1. Draftable(written)' /\ put' \in Controlled(written)'
      BY <1>0, <2>4, EditFacts, Steady
    <3> QED BY <1>0, <2>1, <2>2, <2>3, <3>1, EditFacts DEF EditTyped, Controlled
  <2>6. SentInv'
    BY <1>0, <2>1 DEF SentInv
  <2>7. ErrorsInv'
    <3> SUFFICES ASSUME NEW e \in es PROVE About(written, e)'
      BY <2>3 DEF ErrorsInv
    <3>1. About(written, e)
      BY <2>2
    <3> QED BY <1>0, <3>1, Steady DEF About
  <2> QED BY <2>5, <2>6, <2>7 DEF EditInv
<1>2. CASE Form!validateDraft(written) = {}
  <2>1. /\ errors' = {} /\ message' = FALSE /\ put' = <<"user">>
        /\ saving' = [at |-> "sent", sent |-> written, fields |-> {}]
    BY <1>2 DEF Form!onSubmit, Form!Idle
  <2>2. EditTyped'
    <3>1. Draftable(written)'
      BY <1>0, EditFacts, Steady
    <3> QED BY <1>0, <2>1, <3>1, EditFacts DEF EditTyped
  <2>3. SentInv'
    <3>1. saving'.sent = written /\ saving'.at = "sent"
      BY <2>1
    <3>2. Draftable(saving.sent)'
      BY <1>0, <3>1, EditFacts, SentSteady
    <3> QED BY <1>0, <3>1, <3>2 DEF SentInv
  <2>4. ErrorsInv'
    BY <2>1 DEF ErrorsInv
  <2> QED BY <2>2, <2>3, <2>4 DEF EditInv
<1> QED BY <1>1, <1>2

\* The server's answer is about what was sent.
LEMMA UpdateKeeps ==
  ASSUME EditInv, Form!UpdateItem
  PROVE  EditInv'
<1>0. UNCHANGED <<field, written, errors, message, put, edited>> /\ saving.at = "sent"
  BY DEF Form!UpdateItem
<1>1. /\ saving' = [at |-> saving'.at, sent |-> saving'.sent, fields |-> saving'.fields]
      /\ saving'.at \in {"refused", "saved"} /\ saving'.sent = saving.sent
      /\ saving'.at = "refused" => saving'.fields \subseteq Form!Keys(saving.sent) \cup {<<>>}
  <2>1. saving = [at |-> saving.at, sent |-> saving.sent, fields |-> saving.fields]
    BY EditFacts
  <2>2. \/ saving' = [saving EXCEPT !.at = "refused", !.fields = Form!Keys(saving.sent)]
        \/ saving' = [saving EXCEPT !.at = "refused", !.fields = Form!Keys(saving.sent) \cup {<<>>}]
        \/ saving' = [saving EXCEPT !.at = "saved"]
    BY DEF Form!UpdateItem
  <2>3. ASSUME NEW K, saving' = [saving EXCEPT !.at = "refused", !.fields = K]
        PROVE  saving' = [at |-> "refused", sent |-> saving.sent, fields |-> K]
    BY <2>1, <2>3
  <2>4. CASE saving' = [saving EXCEPT !.at = "saved"]
    <3>1. saving' = [at |-> "saved", sent |-> saving.sent, fields |-> saving.fields]
      BY <2>1, <2>4
    <3> QED BY <3>1
  <2>5. ASSUME NEW K, K \subseteq Form!Keys(saving.sent) \cup {<<>>},
               saving' = [at |-> "refused", sent |-> saving.sent, fields |-> K]
        PROVE  /\ saving' = [at |-> saving'.at, sent |-> saving'.sent, fields |-> saving'.fields]
               /\ saving'.at \in {"refused", "saved"} /\ saving'.sent = saving.sent
               /\ saving'.at = "refused" => saving'.fields \subseteq Form!Keys(saving.sent) \cup {<<>>}
    <3>1. saving'.at = "refused" /\ saving'.sent = saving.sent /\ saving'.fields = K
      BY <2>5
    <3> QED BY <2>5, <3>1
  <2> QED BY <2>2, <2>3, <2>4, <2>5
<1>2. EditTyped'
  <2>1. Draftable(written)' /\ Controlled(written)' = Controlled(written)
    BY <1>0, EditFacts, Steady
  <2> QED BY <1>0, <1>1, <2>1, EditFacts DEF EditTyped, Controlled
<1>3. SentInv'
  <2>1. (Draftable(saving.sent)' <=> Draftable(saving.sent)) /\ Form!Keys(saving.sent)' = Form!Keys(saving.sent)
    BY <1>0, <1>1, SentSteady
  <2> QED BY <1>0, <1>1, <2>1, EditFacts DEF SentInv
<1>4. ErrorsInv'
  <2> SUFFICES ASSUME ~ edited, NEW e \in errors PROVE About(written, e)'
    BY <1>0 DEF ErrorsInv
  <2>1. About(written, e)
    BY EditFacts DEF ErrorsInv
  <2> QED BY <1>0, <2>1, Steady DEF About
<1> QED BY <1>2, <1>3, <1>4 DEF EditInv

LEMMA Shorter ==
  /\ \A a, b, c, d, e : ~ Form!startsWith(<<a, b>>, <<c, d, e>>)
  /\ \A a : ~ Form!startsWith(<<>>, <<a>>)
  /\ \A a, b : ~ Form!startsWith(<<>>, <<a, b>>)
  /\ \A a, b, c : ~ Form!startsWith(<<>>, <<a, b, c>>)
  BY DEF Form!startsWith

\* A text that a refusal marks is one that the server refuses.
LEMMA MarksOdd ==
  ASSUME field \in {"bullets", "tags"}, NEW d,
         NEW key \in Form!Keys(d) \cup {<<>>}, NEW p \in Form!Cells(d), Form!startsWith(key, p)
  PROVE  Form!getAt(d, p) = "odd"
<1>1. CASE field = "bullets"
  <2>1. PICK l, i : p = <<l, i>>
    BY <1>1, BulletCells
  <2>2. key # <<>>
    BY <2>1, Shorter
  <2>3. key \in Form!Cells(d) /\ Form!getAt(d, key) = "odd"
    BY <1>1, <2>2 DEF Form!Keys
  <2>4. PICK m, j : key = <<m, j>>
    BY <1>1, <2>3, BulletCells
  <2>5. m = l /\ j = i
    BY <2>1, <2>4, Prefixes
  <2> QED BY <2>1, <2>3, <2>4, <2>5
<1>2. CASE field = "tags"
  <2>1. key # <<>>
    BY <1>2, TagCells, Shorter
  <2>2. PICK c \in Form!Cells(d) : key = <<c[1], c[2]>> /\ Form!getAt(d, c) = "odd"
    BY <1>2, <2>1 DEF Form!Keys
  <2>3. \A a, b, e : p # <<a, b, e>>
    BY <2>2, Shorter
  <2>4. PICK i \in DOMAIN d.tags : ~ d.tags[i].term /\ p = <<"tags", i>>
    BY <1>2, <2>3, TagCells
  <2>5. c[1] = "tags" /\ c[2] = i
    BY <2>2, <2>4, Prefixes
  <2>6. \A l : c # <<"tags", i, l>> \/ ~ d.tags[i].term
    BY <2>4
  <2>7. c = <<"tags", i>>
    <3>1. CASE \E j \in DOMAIN d.tags : d.tags[j].term /\ \E l \in {"en", "zh"} : c = <<"tags", j, l>>
      <4>1. PICK j \in DOMAIN d.tags : d.tags[j].term /\ \E l \in {"en", "zh"} : c = <<"tags", j, l>>
        BY <3>1
      <4>2. PICK l \in {"en", "zh"} : c = <<"tags", j, l>>
        BY <4>1
      <4>3. j = i
        BY <2>5, <4>2
      <4> QED BY <2>4, <4>1, <4>3
    <3>2. CASE \E j \in DOMAIN d.tags : ~ d.tags[j].term /\ c = <<"tags", j>>
      <4>1. PICK j : c = <<"tags", j>>
        BY <3>2
      <4> QED BY <2>5, <4>1
    <3> QED BY <1>2, <3>1, <3>2, TagCells
  <2> QED BY <2>2, <2>4, <2>7
<1> QED BY <1>1, <1>2

LEMMA RefusedKeeps ==
  ASSUME EditInv, Form!Refused
  PROVE  EditInv'
<1> DEFINE slots == Form!errorSlots(saving.sent)
           es == {[path |-> p, why |-> "rejected"] : p \in UNION {Form!Slotted(key, slots) : key \in saving.fields}}
           lost == {key \in saving.fields : Form!Slotted(key, slots) = {}}
<1>1. /\ saving.at = "refused" /\ saving' = Form!Idle /\ UNCHANGED <<field, written, edited>>
      /\ Form!failed(es, lost # {})
  BY DEF Form!Refused, Form!mapServerFields
<1>2. saving.fields \subseteq Form!Keys(saving.sent) \cup {<<>>} /\ (~ edited => written = saving.sent)
  BY <1>1, EditFacts DEF SentInv
<1>3. ASSUME NEW e \in es PROVE e.why = "rejected" /\ (~ edited => About(written, e))
  <2>0. PICK key \in saving.fields : \E p \in Form!Slotted(key, slots) : e = [path |-> p, why |-> "rejected"]
    OBVIOUS
  <2>1. PICK p \in Form!Slotted(key, slots) : e = [path |-> p, why |-> "rejected"]
    BY <2>0
  <2>2. p \in slots /\ Form!startsWith(key, p)
    BY DEF Form!Slotted
  <2>3. e.path = p /\ e.why = "rejected"
    BY <2>1
  <2>4. p \in Form!Cells(saving.sent) => Form!getAt(saving.sent, p) = "odd"
    BY <1>2, <2>2, EditFacts, MarksOdd
  <2> QED BY <1>2, <2>2, <2>3, <2>4 DEF About
<1> HIDE DEF es, lost, slots
<1>4. (lost # {}) \in BOOLEAN
  BY Zenon
<1> QED BY <1>1, <1>3, <1>4, FailedKeeps

LEMMA SaveFailsKeeps ==
  ASSUME EditInv, Form!SaveFails
  PROVE  EditInv'
<1>1. saving' = Form!Idle /\ Form!failed({}, TRUE) /\ UNCHANGED <<field, written, edited>>
  BY DEF Form!SaveFails
<1> DEFINE none == {}
           shown_ == TRUE
<1>2. Form!failed(none, shown_) /\ shown_ \in BOOLEAN /\ none = {}
  BY <1>1
<1> HIDE DEF none, shown_
<1> QED BY <1>1, <1>2, FailedKeeps

LEMMA SavedKeeps ==
  ASSUME EditInv, Form!Saved
  PROVE  EditInv'
<1>1. saving' = Form!Idle /\ put' = <<"user">> /\ UNCHANGED <<field, written, errors, message, edited>>
  BY DEF Form!Saved
<1>2. /\ saving' = [at |-> saving'.at, sent |-> saving'.sent, fields |-> saving'.fields]
      /\ saving'.at = "none"
  BY <1>1 DEF Form!Idle
<1>3. EditTyped'
  <2>1. Draftable(written)'
    BY <1>1, EditFacts, Steady
  <2> QED BY <1>1, <1>2, <2>1, EditFacts DEF EditTyped
<1>4. SentInv'
  BY <1>2 DEF SentInv
<1>5. ErrorsInv'
  <2> SUFFICES ASSUME ~ edited, NEW e \in errors PROVE About(written, e)'
    BY <1>1 DEF ErrorsInv
  <2>1. About(written, e)
    BY EditFacts DEF ErrorsInv
  <2> QED BY <1>1, <2>1, Steady DEF About
<1> QED BY <1>3, <1>4, <1>5 DEF EditInv

LEMMA EditInit == Form!Init => EditInv
<1> SUFFICES ASSUME Form!Init PROVE EditInv
  OBVIOUS
<1>1. /\ field \in {"bullets", "tags"} /\ errors = {} /\ message = FALSE
      /\ saving = [at |-> "none", sent |-> "nothing", fields |-> {}] /\ put = <<"user">> /\ edited = FALSE
  BY DEF Form!Init, Form!Idle
<1>2. Draftable(written)
  <2>1. CASE field = "bullets"
    <3>1. \/ written \in Form!Lists /\ Form!Loaded(written)
          \/ written \in Form!Lists /\ written = Form!Empty
      BY <2>1 DEF Form!Init
    <3>2. Len(written.en) = Len(written.zh)
      <4>1. CASE Form!Loaded(written)
        BY <2>1, <4>1 DEF Form!Loaded
      <4>2. CASE written = Form!Empty
        <5>1. written.en = <<"">> /\ written.zh = <<"">>
          BY <2>1, <4>2 DEF Form!Empty
        <5> QED BY <5>1
      <4> QED BY <3>1, <4>1, <4>2
    <3> QED BY <2>1, <3>1, <3>2, ListsAre DEF Draftable
  <2>2. CASE field = "tags"
    <3>1. written \in Form!Tags
      BY <2>2 DEF Form!Init
    <3> QED BY <2>2, <3>1, ListsAre DEF Draftable
  <2> QED BY <1>1, <2>1, <2>2
<1>3. EditTyped
  <2>1. saving.at = "none" /\ saving = [at |-> saving.at, sent |-> saving.sent, fields |-> saving.fields]
    BY <1>1
  <2> QED BY <1>1, <1>2, <2>1 DEF EditTyped
<1>4. SentInv /\ ErrorsInv
  BY <1>1 DEF SentInv, ErrorsInv
<1> QED BY <1>3, <1>4 DEF EditInv

LEMMA EditStep == EditInv /\ Form!Next => EditInv'
<1> SUFFICES ASSUME EditInv, Form!Next PROVE EditInv'
  OBVIOUS
<1>1. \/ \E cell \in Form!Cells(written), text \in Form!Texts : Form!type(cell, text)
      \/ field = "bullets" /\ Form!addBullet
      \/ field = "tags" /\ \E tag \in {Form!Noun(""), Form!Term("", "")} : Form!addTag(tag)
      \/ field = "tags" /\ \E i \in DOMAIN written.tags : Form!setKind(i)
      \/ \E i \in 1 .. Form!Count(written) : Form!remove(i) \/ \E a \in {"up", "down"} : Form!move(i, a)
      \/ Form!onSubmit \/ Form!UpdateItem \/ Form!Refused \/ Form!SaveFails \/ Form!Saved
  BY Zenon DEF Form!Next
<1>2. {Form!Noun(""), Form!Term("", "")} \subseteq Form!Chips
  <2>1. "" \in Form!Texts
    BY DEF Form!Texts
  <2> QED BY <2>1, ChipsAre, ZenonT(30)
<1> QED BY <1>1, <1>2, TypeKeeps, AddBulletKeeps, AddTagKeeps, SetKindKeeps, RemoveKeeps, RowsMoveKeeps,
           SaveKeeps, UpdateKeeps, RefusedKeeps, SaveFailsKeeps, SavedKeeps

LEMMA EditKeepsTrue == EditInv => Form!TypeOK /\ Form!ErrorsTrue
<1> SUFFICES ASSUME EditInv PROVE Form!TypeOK /\ Form!ErrorsTrue
  OBVIOUS
<1>1. Form!TypeOK
  <2>1. written \in (IF field = "bullets" THEN Form!Lists ELSE Form!Tags)
    BY EditFacts, ListsAre DEF Draftable
  <2> QED BY <2>1, EditFacts DEF Form!TypeOK, Controlled
<1>2. field = "bullets" => Len(written.en) = Len(written.zh)
  BY EditFacts DEF Draftable
<1>3. ~ edited => \A e \in errors : About(written, e) /\ Form!Shows(written, e.path) # {}
  BY EditFacts, PlacesShow DEF ErrorsInv, About
<1>4. Form!ErrorsTrue
  BY <1>2, <1>3, EditFacts DEF Form!ErrorsTrue, About, Controlled
<1> QED BY <1>1, <1>4

LEMMA EditStands == UNCHANGED editing => (EditInv => EditInv')
<1> SUFFICES ASSUME UNCHANGED editing, EditInv PROVE EditInv'
  OBVIOUS
<1>1. UNCHANGED <<field, written, errors, message, saving, put, edited>>
  BY DEF editing
<1>2. EditTyped'
  <2>1. Draftable(written)' /\ Controlled(written)' = Controlled(written)
    BY <1>1, EditFacts, Steady
  <2> QED BY <1>1, <2>1, EditFacts DEF EditTyped, Controlled
<1>3. SentInv'
  <2>1. (Draftable(saving.sent)' <=> Draftable(saving.sent)) /\ Form!Keys(saving.sent)' = Form!Keys(saving.sent)
    BY <1>1, SentSteady
  <2> QED BY <1>1, <2>1, EditFacts DEF SentInv
<1>4. ErrorsInv'
  <2> SUFFICES ASSUME ~ edited, NEW e \in errors PROVE About(written, e)'
    BY <1>1 DEF ErrorsInv
  <2>1. About(written, e)
    BY EditFacts DEF ErrorsInv
  <2> QED BY <1>1, <2>1, Steady DEF About
<1> QED BY <1>2, <1>3, <1>4 DEF EditInv

-------------------------------------------------------------------------------
(* The inbox.                                                                *)

InboxKeys == {<<>>} \cup (Box!Views \X (Nat \ {0}) \X Box!Time)
Fetched == [key : InboxKeys, items : Seq(Box!Item), total : Nat, asOf : Box!Time]
Fetches ==
  [at : {"none", "sent", "counted", "listed", "answered"}, asOf : Box!Time, total : Nat,
   items : Seq(Box!Item), unread : Nat]
InboxPages ==
  [mounted : BOOLEAN, view : Box!Views, number : Nat \ {0}, asOf : Box!Time, data : Fetched,
   status : {"loading", "ready", "error"}, fetch : Fetches, reloadAsOf : Box!Time, open : SUBSET Box!Messages]
InboxPatches ==
  [at : {"none", "sent", "read", "dated", "answered", "failed"}, want : BOOLEAN, was : BOOLEAN,
   seen : Box!Time, when : Box!Time, live : BOOLEAN]
InboxRemovals == [target : 0 .. NumMessages, unread : BOOLEAN, at : {"none", "sent", "answered"}]
Summaries == [at : {"none", "sent", "answered"}, count : Nat, stale : BOOLEAN]
Shells == [known : BOOLEAN, unread : Nat, again : BOOLEAN, request : Summaries]
Walks == [asOf : Box!Time, view : Box!Views, order : Seq(Box!Messages), reshaped : BOOLEAN, overtaken : BOOLEAN]
MsgRows == [there : BOOLEAN, created : Box!Time, read : Box!Time, dated : Box!Time]

InboxTyped ==
  /\ clock \in Box!Time /\ mishaps \in Nat
  /\ msg \in [Box!Messages -> MsgRows] /\ page \in InboxPages
  /\ patch \in [Box!Messages -> InboxPatches] /\ removal \in InboxRemovals
  /\ shell \in Shells /\ walk \in Walks
  /\ removal.target = 0 => removal.at = "none"

\* What is there has arrived, at some instant.
DatedInv == \A i \in Box!Messages : msg[i].there => msg[i].created # 0

Snapshot(view, moment) == Box!Newest(Box!AsOf(view, moment))
InboxIds(items) == [n \in 1 .. Len(items) |-> items[n].id]

\* The walk is over the messages as of its moment, and what was fetched as of that
\* moment is a page of it.
Walked(moment) == moment = walk.asOf /\ page.view = walk.view /\ ~ walk.reshaped
TilesInv ==
  /\ walk.asOf = 0 => walk.order = <<>>
  /\ ~ walk.reshaped => walk.order = Snapshot(walk.view, walk.asOf)
  /\ page.fetch.at # "none" => page.status = "loading"
  /\ page.fetch.at \in {"counted", "listed", "answered"} => page.fetch.asOf # 0
  /\ page.fetch.at \in {"listed", "answered"} /\ Walked(page.fetch.asOf) =>
       InboxIds(page.fetch.items) = Box!PageOf(walk.order, page.number)
  /\ page.status = "ready" =>
       /\ page.data.key = Box!Key(page)
       /\ Walked(page.data.asOf) => InboxIds(page.data.items) = Box!PageOf(walk.order, page.number)

\* While nothing failed, nobody else changed anything, and no list was on its way back
\* during a change.
Untroubled == mishaps = 0 /\ ~ walk.overtaken

PatchesInv ==
  /\ \A i \in Box!Messages : msg[i].dated = 0
  /\ \A i \in Box!Messages :
    patch[i].at # "none" =>
      /\ patch[i].live /\ patch[i].at # "failed" /\ msg[i].there
      /\ patch[i].at = "read" => patch[i].seen = msg[i].read
      /\ patch[i].at = "dated" => patch[i].when # 0
      /\ patch[i].at = "answered" /\ patch[i].want => msg[i].read # 0

\* An open message is read, or about to be.
OpensInv == \A i \in page.open : msg[i].read # 0 \/ patch[i].at # "none"

\* Only a message that is read, and shown, is being removed.
RemovesInv ==
  removal.target # 0 =>
    /\ ~ removal.unread /\ msg[removal.target].read # 0 /\ patch[removal.target].at = "none"
    /\ page.data.key = Box!Key(page) \/ page.data.items = <<>>

\* A list shows each message once, and none that is gone but the one being removed.
Going(i) == removal.at = "answered" /\ i = removal.target
ShowsRows(items) ==
  /\ \A n \in DOMAIN items : msg[items[n].id].there \/ Going(items[n].id)
  /\ \A m, n \in DOMAIN items : items[m].id = items[n].id => m = n
RowedInv ==
  /\ ShowsRows(page.data.items)
  /\ page.fetch.at \in {"listed", "answered"} => ShowsRows(page.fetch.items)

\* The badge counts the unread messages, or an answer or a summary that will say so
\* is on its way.
UnreadNow == Box!Cardinality(Box!Unread)
Answering == \E i \in Box!Messages : patch[i].at = "answered"
CountsInv ==
  /\ page.fetch.at = "answered" => page.fetch.unread = UnreadNow
  /\ shell.request.at = "answered" /\ ~ shell.request.stale =>
       shell.request.count = UnreadNow \/ Answering \/ shell.again
  /\ \/ shell.unread = UnreadNow \/ Answering
     \/ shell.request.at # "none" /\ (~ shell.request.stale \/ shell.again)

SmoothInv == PatchesInv /\ OpensInv /\ RemovesInv /\ RowedInv /\ CountsInv

InboxInv == InboxTyped /\ DatedInv /\ TilesInv /\ (Untroubled => SmoothInv)

LEMMA InboxNumbers ==
  /\ NumMessages \in Nat /\ Arrived \in Nat /\ Arrived <= NumMessages /\ Arrived <= MaxTime /\ MaxTime \in Nat
  /\ PageSize \in Nat /\ PageSize > 0 /\ MaxMishaps \in Nat
  /\ Box!Messages = 1 .. NumMessages /\ Box!Time = 0 .. MaxTime
  BY CorrespondenceAssumption DEF Box!Bounds, Box!Messages, Box!Time

-------------------------------------------------------------------------------
(* Messages, newest first.                                                   *)

LEMMA BoxCounted == \A S : Box!Cardinality(S) = Cardinality(S)
  BY DEF Box!Cardinality, Cardinality

LEMMA MessagesFinite ==
  ASSUME NEW S \in SUBSET Box!Messages
  PROVE  /\ IsFiniteSet(S) /\ Cardinality(S) \in Nat
         /\ Box!Cardinality(S) \in Nat
<1>1. IsFiniteSet(Box!Messages)
  BY InboxNumbers, FS_Interval
<1>2. IsFiniteSet(S) /\ Cardinality(S) \in Nat
  BY <1>1, FS_Subset, FS_CardinalityType
<1> QED BY <1>2, BoxCounted

LEMMA UnreadCounted == UnreadNow \in Nat
<1>1. Box!Unread \in SUBSET Box!Messages
  BY DEF Box!Unread
<1> QED BY <1>1, MessagesFinite DEF UnreadNow

\* As many of a set's messages as are no older than one of them.
Rank(S, k) == Box!Cardinality({j \in S : j >= k})

\* There is a message of every rank, and one only.
LEMMA RankOne ==
  ASSUME NEW S \in SUBSET Box!Messages, NEW i \in S
  PROVE  /\ Rank(S, i) = Rank(S, i + 1) + 1 /\ Rank(S, i + 1) \in Nat
<1> DEFINE A == {j \in S : j >= i}
           B == {j \in S : j >= i + 1}
<1>1. IsFiniteSet(B) /\ Cardinality(B) \in Nat
  BY MessagesFinite
<1>2. i \in Int /\ \A j \in S : j \in Int
  BY InboxNumbers
<1>3. A = B \cup {i} /\ i \notin B
  <2>1. \A j \in S : j >= i <=> (j >= i + 1 \/ j = i)
    BY <1>2
  <2>2. ~ (i >= i + 1)
    BY <1>2
  <2> QED BY <2>1, <2>2
<1> HIDE DEF A, B
<1>4. Cardinality(A) = Cardinality(B) + 1
  BY <1>1, <1>3, FS_AddElement
<1> QED BY <1>1, <1>4, BoxCounted DEF Rank, A, B

LEMMA RankNone ==
  ASSUME NEW S \in SUBSET Box!Messages, NEW k \in Nat, k \notin S
  PROVE  Rank(S, k) = Rank(S, k + 1)
<1>1. \A j \in S : j \in Int /\ j # k
  BY InboxNumbers
<1>2. {j \in S : j >= k} = {j \in S : j >= k + 1}
  BY <1>1
<1> QED BY <1>2 DEF Rank

LEMMA RankEnds ==
  ASSUME NEW S \in SUBSET Box!Messages
  PROVE  Rank(S, 0) = Cardinality(S) /\ Rank(S, NumMessages + 1) = 0
<1>1. \A j \in S : j \in Int /\ j >= 0 /\ ~ (j >= NumMessages + 1)
  BY InboxNumbers
<1>2. {j \in S : j >= 0} = S /\ {j \in S : j >= NumMessages + 1} = {}
  BY <1>1
<1> QED BY <1>2, FS_EmptySet, BoxCounted DEF Rank

LEMMA RankType ==
  ASSUME NEW S \in SUBSET Box!Messages, NEW k
  PROVE  Rank(S, k) \in Nat
<1>1. {j \in S : j >= k} \in SUBSET Box!Messages
  OBVIOUS
<1> HIDE DEF Rank
<1> QED BY <1>1, MessagesFinite DEF Rank

LEMMA OfRank ==
  ASSUME NEW S \in SUBSET Box!Messages, NEW n \in 1 .. Cardinality(S)
  PROVE  \E i \in S : Rank(S, i) = n
<1> DEFINE T == {k \in Nat : Rank(S, k) < n}
<1>0. Cardinality(S) \in Nat /\ n \in Nat /\ n > 0 /\ n <= Cardinality(S)
  BY MessagesFinite
<1>1. NumMessages + 1 \in T
  BY <1>0, RankEnds, InboxNumbers
<1>2. PICK k \in T : \A m \in T : k <= m
  <2>1. T \in SUBSET Nat /\ T # {}
    BY <1>1
  <2> HIDE DEF T
  <2> QED BY <2>1, Least
<1>3. k \in Nat /\ Rank(S, k) < n
  BY <1>2
<1>4. k # 0
  BY <1>0, <1>3, RankEnds
<1>5. k - 1 \in Nat /\ (k - 1) + 1 = k
  BY <1>3, <1>4
<1>6. ~ (Rank(S, k - 1) < n)
  <2>1. k - 1 \notin T
    BY <1>2, <1>3, <1>5
  <2> QED BY <1>5, <2>1
<1>7. k - 1 \in S
  BY <1>3, <1>5, <1>6, RankNone
<1>8. Rank(S, k - 1) = n
  <2>1. Rank(S, k - 1) = Rank(S, k) + 1
    BY <1>5, <1>7, RankOne
  <2> QED BY <1>0, <1>3, <1>6, <2>1, RankType
<1> QED BY <1>7, <1>8

LEMMA NewestIs ==
  ASSUME NEW S \in SUBSET Box!Messages
  PROVE  /\ Box!Newest(S) \in Seq(Box!Messages) /\ Len(Box!Newest(S)) = Cardinality(S)
         /\ \A n \in 1 .. Cardinality(S) : Box!Newest(S)[n] \in S /\ Rank(S, Box!Newest(S)[n]) = n
<1> DEFINE s == Box!Newest(S)
<1>1. s = [n \in 1 .. Cardinality(S) |-> CHOOSE i \in S : Rank(S, i) = n]
  <2>1. s = [n \in 1 .. Box!Cardinality(S) |-> CHOOSE i \in S : Rank(S, i) = n]
    BY DEF Box!Newest, Rank
  <2> QED BY <2>1, BoxCounted
<1>2. Cardinality(S) \in Nat
  BY MessagesFinite
<1>3. \A n \in 1 .. Cardinality(S) : s[n] \in S /\ Rank(S, s[n]) = n
  <2> TAKE n \in 1 .. Cardinality(S)
  <2>1. \E i \in S : Rank(S, i) = n
    BY OfRank
  <2>2. s[n] = CHOOSE i \in S : Rank(S, i) = n
    BY <1>1
  <2> HIDE DEF s
  <2> QED BY <2>1, <2>2
<1>4. s \in [1 .. Cardinality(S) -> Box!Messages]
  BY <1>1, <1>3
<1> HIDE DEF s
<1>5. s \in Seq(Box!Messages) /\ Len(s) = Cardinality(S)
  BY <1>2, <1>4
<1> QED BY <1>3, <1>5 DEF s

\* A page of a list without repetitions has none.
LEMMA PageIs ==
  ASSUME NEW S \in SUBSET Box!Messages, NEW number \in Nat \ {0}
  PROVE  LET rows_ == Box!PageOf(Box!Newest(S), number) IN
         /\ rows_ \in Seq(Box!Messages) /\ \A n \in DOMAIN rows_ : rows_[n] \in S
         /\ \A m, n \in DOMAIN rows_ : rows_[m] = rows_[n] => m = n
<1> DEFINE s == Box!Newest(S)
           a == (number - 1) * PageSize + 1
           b == Box!Lesser(number * PageSize, Len(s))
           r == SubSeq(s, a, b)
<1>1. s \in Seq(Box!Messages) /\ Len(s) \in Nat /\ \A n \in 1 .. Len(s) : s[n] \in S /\ Rank(S, s[n]) = n
  BY NewestIs, MessagesFinite
<1>2. \A m, n \in 1 .. Len(s) : s[m] = s[n] => m = n
  <2> SUFFICES ASSUME NEW m \in 1 .. Len(s), NEW n \in 1 .. Len(s), s[m] = s[n] PROVE m = n
    OBVIOUS
  <2>1. Rank(S, s[m]) = m /\ Rank(S, s[n]) = n
    BY <1>1
  <2> QED BY <2>1
<1>3. a \in Nat /\ a >= 1 /\ b \in Nat /\ b <= Len(s)
  <2>1. (number - 1) * PageSize \in Nat /\ number * PageSize \in Nat
    <3>1. number - 1 \in Nat /\ number \in Nat /\ PageSize \in Nat
      BY InboxNumbers
    <3> QED BY <3>1
  <2> QED BY <1>1, <2>1 DEF Box!Lesser
<1>4. Box!PageOf(s, number) = r
  BY DEF Box!PageOf
<1> HIDE DEF s, a, b
<1>5. r = [n \in 1 .. (IF a <= b THEN b - a + 1 ELSE 0) |-> s[a + n - 1]]
  BY <1>1, <1>3
<1>6. \A n \in 1 .. (IF a <= b THEN b - a + 1 ELSE 0) : a + n - 1 \in 1 .. Len(s)
  BY <1>1, <1>3
<1>7. (IF a <= b THEN b - a + 1 ELSE 0) \in Nat
  BY <1>3
<1> DEFINE w == IF a <= b THEN b - a + 1 ELSE 0
<1> HIDE DEF w, r
<1>8. r \in [1 .. w -> Box!Messages] /\ w \in Nat /\ DOMAIN r = 1 .. w
  BY <1>1, <1>5, <1>6, <1>7 DEF w
<1>9. r \in Seq(Box!Messages)
  BY <1>8
<1>10. \A n \in DOMAIN r : r[n] = s[a + n - 1] /\ a + n - 1 \in 1 .. Len(s)
  BY <1>5, <1>6, <1>8 DEF w
<1>11. \A m, n \in DOMAIN r : r[m] = r[n] => m = n
  <2> SUFFICES ASSUME NEW m \in DOMAIN r, NEW n \in DOMAIN r, r[m] = r[n] PROVE m = n
    OBVIOUS
  <2>1. a + m - 1 = a + n - 1
    BY <1>2, <1>10
  <2>2. m \in Int /\ n \in Int
    BY <1>8
  <2> QED BY <1>3, <2>1, <2>2
<1> QED BY <1>1, <1>4, <1>9, <1>10, <1>11 DEF s

-------------------------------------------------------------------------------
(* The page's records.                                                       *)

LEMMA PageParts ==
  ASSUME NEW p \in InboxPages
  PROVE  /\ p.mounted \in BOOLEAN /\ p.view \in Box!Views /\ p.number \in Nat \ {0} /\ p.asOf \in Box!Time
         /\ p.data \in Fetched /\ p.status \in {"loading", "ready", "error"} /\ p.fetch \in Fetches
         /\ p.reloadAsOf \in Box!Time /\ p.open \in SUBSET Box!Messages
         /\ p.data.key \in InboxKeys /\ p.data.items \in Seq(Box!Item) /\ p.data.total \in Nat /\ p.data.asOf \in Box!Time
         /\ p.fetch.at \in {"none", "sent", "counted", "listed", "answered"} /\ p.fetch.asOf \in Box!Time
         /\ p.fetch.total \in Nat /\ p.fetch.items \in Seq(Box!Item) /\ p.fetch.unread \in Nat
  BY DEF InboxPages, Fetched, Fetches

LEMMA NoneTyped ==
  /\ 0 \in Box!Time /\ "all" \in Box!Views
  /\ Box!NoData = [key |-> <<>>, items |-> <<>>, total |-> 0, asOf |-> 0] /\ Box!NoData \in Fetched
  /\ Box!NoFetch \in Fetches /\ Box!NoFetch.at = "none"
  /\ Box!Unmounted \in InboxPages /\ Box!Unmounted.data = Box!NoData /\ Box!Unmounted.status = "loading"
  /\ Box!Unmounted.fetch = Box!NoFetch /\ Box!Unmounted.open = {}
<1>1. 0 \in Box!Time /\ "all" \in Box!Views
  BY InboxNumbers DEF Box!Views
<1>2. Box!NoData = [key |-> <<>>, items |-> <<>>, total |-> 0, asOf |-> 0]
  BY DEF Box!NoData
<1>3. <<>> \in Seq(Box!Item) /\ <<>> \in InboxKeys
  BY DEF InboxKeys
<1>4. Box!NoData \in Fetched
  BY <1>1, <1>2, <1>3 DEF Fetched
<1>5. Box!NoFetch = [at |-> "none", asOf |-> 0, total |-> 0, items |-> <<>>, unread |-> 0]
  BY DEF Box!NoFetch
<1>6. Box!NoFetch \in Fetches /\ Box!NoFetch.at = "none"
  BY <1>1, <1>3, <1>5 DEF Fetches
<1> DEFINE D == Box!NoData
           F == Box!NoFetch
<1>7. Box!Unmounted = [mounted |-> FALSE, view |-> "all", number |-> 1, asOf |-> 0, data |-> D,
                       status |-> "loading", fetch |-> F, reloadAsOf |-> 0, open |-> {}]
  BY DEF Box!Unmounted
<1>8. D \in Fetched /\ F \in Fetches
  BY <1>4, <1>6
<1> HIDE DEF D, F
<1>9. /\ Box!Unmounted \in InboxPages /\ Box!Unmounted.data = D /\ Box!Unmounted.status = "loading"
      /\ Box!Unmounted.fetch = F /\ Box!Unmounted.open = {}
  BY <1>1, <1>7, <1>8 DEF InboxPages
<1> QED BY <1>1, <1>2, <1>4, <1>6, <1>9 DEF D, F

\* What is the same on two pages but for their fetches.
SamePage(p, q) ==
  /\ p.mounted = q.mounted /\ p.view = q.view /\ p.number = q.number /\ p.asOf = q.asOf
  /\ p.data = q.data /\ p.open = q.open

LEMMA Loads ==
  ASSUME NEW p \in InboxPages, NEW r, r = Box!Load(p)
  PROVE  /\ r \in InboxPages /\ SamePage(r, p) /\ r.status = "loading" /\ r.fetch.at = "sent"
<1> DEFINE x == IF p.asOf # 0 THEN p.asOf ELSE p.reloadAsOf
           f == [Box!NoFetch EXCEPT !.at = "sent", !.asOf = x]
<1>1. x \in Box!Time
  BY PageParts
<1> HIDE DEF x
<1>3. f \in Fetches /\ f.at = "sent"
  <2> DEFINE F == Box!NoFetch
  <2>1. F \in Fetches
    BY NoneTyped
  <2>2. f = [F EXCEPT !.at = "sent", !.asOf = x]
    OBVIOUS
  <2> HIDE DEF F, f
  <2>3. f.at = "sent"
    BY <2>1, <2>2 DEF Fetches
  <2>4. f \in Fetches
    BY <1>1, <2>1, <2>2 DEF Fetches
  <2> QED BY <2>3, <2>4
<1>4. r = [p EXCEPT !.status = "loading", !.reloadAsOf = 0, !.fetch = f]
  BY DEF Box!Load, x
<1> HIDE DEF f
<1>5. r \in InboxPages
  BY <1>3, <1>4, NoneTyped DEF InboxPages
<1>6. SamePage(r, p) /\ r.status = "loading" /\ r.fetch = f
  BY <1>4 DEF SamePage, InboxPages
<1> QED BY <1>3, <1>5, <1>6

LEMMA InboxFacts ==
  ASSUME InboxInv
  PROVE  /\ InboxTyped /\ DatedInv /\ TilesInv /\ (Untroubled => SmoothInv)
         /\ clock \in Nat /\ clock \in Box!Time /\ mishaps \in Nat
         /\ msg \in [Box!Messages -> MsgRows] /\ page \in InboxPages
         /\ patch \in [Box!Messages -> InboxPatches] /\ removal \in InboxRemovals
         /\ shell \in Shells /\ walk \in Walks
         /\ \A i \in Box!Messages : /\ msg[i].there \in BOOLEAN /\ msg[i].created \in Nat /\ msg[i].read \in Nat
                                    /\ msg[i].created \in Box!Time /\ msg[i].read \in Box!Time
                                    /\ msg[i].dated \in Nat /\ msg[i].dated \in Box!Time
         /\ walk.asOf \in Nat /\ walk.asOf \in Box!Time /\ walk.reshaped \in BOOLEAN /\ walk.overtaken \in BOOLEAN
         /\ walk.view \in Box!Views /\ walk.order \in Seq(Box!Messages)
<1>1. clock \in Nat
  BY InboxNumbers DEF InboxInv, InboxTyped
<1>2. \A i \in Box!Messages : /\ msg[i].there \in BOOLEAN /\ msg[i].created \in Nat /\ msg[i].read \in Nat
                              /\ msg[i].created \in Box!Time /\ msg[i].read \in Box!Time
                              /\ msg[i].dated \in Nat /\ msg[i].dated \in Box!Time
  BY InboxNumbers DEF InboxInv, InboxTyped, MsgRows
<1>3. /\ walk.asOf \in Nat /\ walk.asOf \in Box!Time /\ walk.reshaped \in BOOLEAN /\ walk.overtaken \in BOOLEAN
      /\ walk.view \in Box!Views /\ walk.order \in Seq(Box!Messages)
  BY InboxNumbers DEF InboxInv, InboxTyped, Walks
<1> QED BY <1>1, <1>2, <1>3 DEF InboxInv, InboxTyped

LEMMA InboxParts ==
  ASSUME InboxInv
  PROVE  /\ removal.target = 0 => removal.at = "none"
         /\ removal.target \in 0 .. NumMessages /\ removal.unread \in BOOLEAN /\ removal.at \in {"none", "sent", "answered"}
         /\ shell.known \in BOOLEAN /\ shell.unread \in Nat /\ shell.again \in BOOLEAN /\ shell.request \in Summaries
         /\ shell.request.at \in {"none", "sent", "answered"} /\ shell.request.count \in Nat /\ shell.request.stale \in BOOLEAN
         /\ \A i \in Box!Messages : /\ patch[i] \in InboxPatches
                                    /\ patch[i].at \in {"none", "sent", "read", "dated", "answered", "failed"}
                                    /\ patch[i].want \in BOOLEAN /\ patch[i].was \in BOOLEAN /\ patch[i].live \in BOOLEAN
                                    /\ patch[i].seen \in Nat /\ patch[i].when \in Box!Time
<1>1. removal \in InboxRemovals /\ shell \in Shells /\ patch \in [Box!Messages -> InboxPatches]
  BY InboxFacts
<1>2. removal.target \in 0 .. NumMessages /\ removal.unread \in BOOLEAN /\ removal.at \in {"none", "sent", "answered"}
  BY <1>1 DEF InboxRemovals
<1>3. /\ shell.known \in BOOLEAN /\ shell.unread \in Nat /\ shell.again \in BOOLEAN /\ shell.request \in Summaries
      /\ shell.request.at \in {"none", "sent", "answered"} /\ shell.request.count \in Nat /\ shell.request.stale \in BOOLEAN
  BY <1>1 DEF Shells, Summaries
<1>4. \A i \in Box!Messages : /\ patch[i] \in InboxPatches
                              /\ patch[i].at \in {"none", "sent", "read", "dated", "answered", "failed"}
                              /\ patch[i].want \in BOOLEAN /\ patch[i].was \in BOOLEAN /\ patch[i].live \in BOOLEAN
                              /\ patch[i].seen \in Nat /\ patch[i].when \in Box!Time
  BY <1>1, InboxNumbers DEF InboxPatches
<1>5. removal.target = 0 => removal.at = "none"
  BY InboxFacts DEF InboxTyped
<1> QED BY <1>2, <1>3, <1>4, <1>5

\* What is shown when nothing is known.
LEMMA NoPatchTyped ==
  /\ Box!NoPatch \in InboxPatches /\ Box!NoPatch.at = "none"
  /\ Box!NoRemoval \in InboxRemovals /\ Box!NoRemoval.at = "none" /\ Box!NoRemoval.target = 0
  /\ Box!Requested \in Summaries /\ Box!Requested.at = "sent" /\ Box!Requested.stale = FALSE
  /\ Box!NoSummary \in Summaries /\ Box!NoSummary.at = "none"
<1>1. Box!NoPatch \in InboxPatches /\ Box!NoPatch.at = "none"
  BY NoneTyped DEF Box!NoPatch, InboxPatches
<1>2. Box!NoRemoval \in InboxRemovals /\ Box!NoRemoval.at = "none" /\ Box!NoRemoval.target = 0
  BY InboxNumbers DEF Box!NoRemoval, InboxRemovals
<1>3. Box!Requested \in Summaries /\ Box!Requested.at = "sent" /\ Box!Requested.stale = FALSE
  BY DEF Box!Requested, Summaries
<1>4. Box!NoSummary \in Summaries /\ Box!NoSummary.at = "none"
  BY <1>3 DEF Box!NoSummary, Summaries
<1> QED BY <1>1, <1>2, <1>3, <1>4

-------------------------------------------------------------------------------
(* What an action that leaves the messages alone keeps.                      *)

LEMMA BoxSteady ==
  /\ \A S : Box!Newest(S)' = Box!Newest(S)
  /\ \A order, number : Box!PageOf(order, number)' = Box!PageOf(order, number)
  /\ \A p : Box!Key(p)' = Box!Key(p)
  /\ \A items : InboxIds(items)' = InboxIds(items)
  BY DEF Box!Newest, Box!PageOf, Box!Lesser, Box!Key, InboxIds

LEMMA SnapshotSteady ==
  ASSUME msg' = msg
  PROVE  /\ \A view, moment : Box!AsOf(view, moment)' = Box!AsOf(view, moment)
         /\ \A view, moment : Snapshot(view, moment)' = Snapshot(view, moment)
         /\ Box!Unread' = Box!Unread /\ UnreadNow' = UnreadNow
<1>1. /\ \A view, moment : Box!AsOf(view, moment)' = Box!AsOf(view, moment)
      /\ Box!Unread' = Box!Unread
  BY DEF Box!AsOf, Box!Unread
<1>2. \A view, moment : Snapshot(view, moment)' = Snapshot(view, moment)
  BY <1>1, BoxSteady DEF Snapshot
<1>3. UnreadNow' = UnreadNow
  <2>1. \A S : Box!Cardinality(S)' = Box!Cardinality(S)
    BY DEF Box!Cardinality
  <2> QED BY <1>1, <2>1 DEF UnreadNow
<1> QED BY <1>1, <1>2, <1>3

\* The same walk, whoever overtook it; and the same list on the page.
SameWalk(w, v) == w.asOf = v.asOf /\ w.view = v.view /\ w.order = v.order /\ w.reshaped = v.reshaped
SameList(p, q) ==
  /\ p.view = q.view /\ p.number = q.number /\ p.asOf = q.asOf /\ p.status = q.status
  /\ p.data.key = q.data.key /\ p.data.asOf = q.data.asOf /\ InboxIds(p.data.items) = InboxIds(q.data.items)
  /\ p.fetch = q.fetch

LEMMA DatedSteady ==
  ASSUME InboxInv, UNCHANGED msg
  PROVE  DatedInv'
  BY InboxFacts DEF DatedInv

LEMMA TilesSteady ==
  ASSUME InboxInv, UNCHANGED msg, SameWalk(walk', walk), SameList(page', page)
  PROVE  DatedInv' /\ TilesInv'
<1>1. TilesInv
  BY InboxFacts
<1>2. Snapshot(walk.view, walk.asOf)' = Snapshot(walk.view, walk.asOf)
  BY SnapshotSteady DEF SameWalk
<1>3. Box!Key(page)' = Box!Key(page)
  BY DEF Box!Key, SameList
<1>4. /\ Box!PageOf(walk.order, page.number)' = Box!PageOf(walk.order, page.number)
      /\ InboxIds(page.data.items)' = InboxIds(page.data.items)
      /\ InboxIds(page.fetch.items)' = InboxIds(page.fetch.items)
  BY BoxSteady DEF SameWalk, SameList
<1>5. \A moment : Walked(moment)' <=> Walked(moment)
  BY DEF Walked, SameWalk, SameList
<1>6. Walked(page.fetch.asOf)' <=> Walked(page.fetch.asOf)
  BY <1>5 DEF SameList
<1>7. Walked(page.data.asOf)' <=> Walked(page.data.asOf)
  BY <1>5 DEF SameList
<1>8. TilesInv'
  BY <1>1, <1>2, <1>3, <1>4, <1>6, <1>7 DEF TilesInv, SameWalk, SameList
<1> QED BY <1>8, DatedSteady

\* A page that is being loaded, or has failed.
LEMMA TilesWaiting ==
  ASSUME InboxInv, UNCHANGED msg, SameWalk(walk', walk),
         page'.status # "ready", page'.fetch.at \notin {"listed", "answered"},
         page'.fetch.at = "counted" => page'.fetch.asOf # 0,
         page'.fetch.at # "none" => page'.status = "loading"
  PROVE  DatedInv' /\ TilesInv'
<1>1. TilesInv
  BY InboxFacts
<1>2. Snapshot(walk.view, walk.asOf)' = Snapshot(walk.view, walk.asOf)
  BY SnapshotSteady DEF SameWalk
<1>3. TilesInv'
  BY <1>1, <1>2 DEF TilesInv, SameWalk
<1> QED BY <1>3, DatedSteady

\* A change of the messages, as the walk sees it.
LEMMA TilesReshaped ==
  ASSUME InboxInv, NEW undone \in BOOLEAN, Box!Reshape(undone), page' = page,
         \A i \in Box!Messages : msg'[i].there => msg'[i].created # 0,
         ~ undone => \A view, moment : moment = walk.asOf => Box!AsOf(view, moment)' = Box!AsOf(view, moment)
  PROVE  /\ DatedInv' /\ TilesInv' /\ walk' \in Walks
         /\ ~ walk'.overtaken => ~ walk.overtaken /\ page.fetch.at # "answered"
<1> DEFINE u == walk.reshaped \/ undone
           o == walk.overtaken \/ page.fetch.at = "answered"
<1>1. walk' = [walk EXCEPT !.reshaped = u, !.overtaken = o]
  BY DEF Box!Reshape
<1>2. u \in BOOLEAN /\ o \in BOOLEAN
  BY Zenon
<1>3. (~ u => ~ walk.reshaped /\ ~ undone) /\ (~ o => ~ walk.overtaken /\ page.fetch.at # "answered")
  OBVIOUS
<1> HIDE DEF u, o
<1>4. /\ walk' \in Walks /\ walk'.reshaped = u /\ walk'.overtaken = o
      /\ walk'.asOf = walk.asOf /\ walk'.view = walk.view /\ walk'.order = walk.order
  BY <1>1, <1>2, InboxFacts DEF Walks
<1>5. DatedInv /\ TilesInv /\ walk.asOf \in Nat
  BY InboxFacts
<1>6. DatedInv'
  BY DEF DatedInv
<1>7. ~ u => Snapshot(walk.view, walk.asOf)' = Snapshot(walk.view, walk.asOf)
  <2> SUFFICES ASSUME ~ u PROVE Snapshot(walk.view, walk.asOf)' = Snapshot(walk.view, walk.asOf)
    OBVIOUS
  <2>1. \A view, moment : moment = walk.asOf => Box!AsOf(view, moment)' = Box!AsOf(view, moment)
    BY <1>3
  <2>3. Box!AsOf(walk.view, walk.asOf)' = Box!AsOf(walk.view, walk.asOf)
    BY <1>4, <2>1
  <2> QED BY <2>3, BoxSteady DEF Snapshot
<1>8. TilesInv'
  <2>1. \A moment : Walked(moment)' => Walked(moment)
    BY <1>3, <1>4 DEF Walked
  <2>2. /\ Walked(page.fetch.asOf)' => Walked(page.fetch.asOf)
        /\ Walked(page.data.asOf)' => Walked(page.data.asOf)
    BY <2>1
  <2>3. /\ Box!PageOf(walk.order, page.number)' = Box!PageOf(walk.order, page.number)
        /\ InboxIds(page.data.items)' = InboxIds(page.data.items)
        /\ InboxIds(page.fetch.items)' = InboxIds(page.fetch.items)
        /\ Box!Key(page)' = Box!Key(page)
    BY <1>4, BoxSteady
  <2> QED BY <1>3, <1>4, <1>5, <1>7, <2>2, <2>3 DEF TilesInv
<1> QED BY <1>3, <1>4, <1>6, <1>8

LEMMA PatchesSteady == PatchesInv /\ UNCHANGED <<msg, patch>> => PatchesInv'
  BY DEF PatchesInv

LEMMA OpensSteady == OpensInv /\ UNCHANGED <<msg, patch>> /\ page'.open \subseteq page.open => OpensInv'
  BY DEF OpensInv

LEMMA RemovesSteady ==
  ASSUME RemovesInv, UNCHANGED <<msg, patch, removal>>,
         removal.target = 0 \/ (Box!Key(page') = Box!Key(page) /\ page'.data = page.data) \/ page'.data.items = <<>>
  PROVE  RemovesInv'
<1>1. Box!Key(page)' = Box!Key(page')
  BY DEF Box!Key
<1> QED BY <1>1 DEF RemovesInv

LEMMA RowsSteady ==
  ASSUME UNCHANGED <<msg, removal>>
  PROVE  \A items : ShowsRows(items)' <=> ShowsRows(items)
  BY DEF ShowsRows, Going

LEMMA RowedSteady ==
  ASSUME RowedInv, UNCHANGED <<msg, removal>>,
         page'.data.items = page.data.items \/ page'.data.items = <<>>,
         \/ page'.fetch.at \notin {"listed", "answered"}
         \/ page.fetch.at \in {"listed", "answered"} /\ page'.fetch.items = page.fetch.items
  PROVE  RowedInv'
<1>1. ShowsRows(<<>>)
  BY DEF ShowsRows
<1>2. ShowsRows(page.data.items)' <=> ShowsRows(page'.data.items)
  BY DEF ShowsRows, Going
<1>3. ShowsRows(page.fetch.items)' <=> ShowsRows(page'.fetch.items)
  BY DEF ShowsRows, Going
<1> QED BY <1>1, <1>2, <1>3 DEF RowedInv

LEMMA CountsSteady ==
  ASSUME CountsInv, UNCHANGED <<msg, shell>>, Answering' <=> Answering,
         page'.fetch.at # "answered" \/ page'.fetch = page.fetch
  PROVE  CountsInv'
<1>1. UnreadNow' = UnreadNow
  BY SnapshotSteady
<1> QED BY <1>1 DEF CountsInv

LEMMA SmoothBefore ==
  ASSUME InboxInv, Untroubled', mishaps' = mishaps, walk'.overtaken = walk.overtaken \/ (~ walk'.overtaken => ~ walk.overtaken)
  PROVE  Untroubled /\ PatchesInv /\ OpensInv /\ RemovesInv /\ RowedInv /\ CountsInv
  BY InboxFacts DEF Untroubled, SmoothInv

-------------------------------------------------------------------------------
(* The server.                                                               *)

\* A step of the page's fetch.
FetchTo(f) == page' \in InboxPages /\ SamePage(page', page) /\ page'.status = page.status /\ page'.fetch = f

LEMMA FetchMoves ==
  ASSUME InboxInv, NEW f \in Fetches, page' = [page EXCEPT !.fetch = f]
  PROVE  FetchTo(f)
<1>1. page \in InboxPages
  BY InboxFacts
<1>2. page' \in InboxPages
  BY <1>1 DEF InboxPages
<1> QED BY <1>1, <1>2 DEF FetchTo, SamePage, InboxPages

LEMMA InboxCountKeeps ==
  ASSUME InboxInv, Box!ListCount
  PROVE  InboxInv'
<1> DEFINE moment == IF page.fetch.asOf = 0 THEN Box!Now ELSE page.fetch.asOf
           S == Box!AsOf(page.view, moment)
           order == Box!Newest(S)
           n == Len(order)
           f == [page.fetch EXCEPT !.at = "counted", !.asOf = moment, !.total = n]
<1>0. /\ page.fetch.at = "sent" /\ UNCHANGED <<msg, patch, removal, shell, mishaps>>
      /\ IF page.fetch.asOf = 0
         THEN /\ clock < MaxTime /\ clock' = clock + 1
              /\ walk' = [walk EXCEPT !.asOf = moment, !.view = page.view, !.order = order, !.reshaped = FALSE]
         ELSE UNCHANGED <<clock, walk>>
  BY DEF Box!ListCount, Box!Tick, Box!Now
<1>1. page' = [page EXCEPT !.fetch.at = "counted", !.fetch.asOf = moment, !.fetch.total = n]
  BY DEF Box!ListCount
<1>2. page \in InboxPages /\ page.fetch \in Fetches /\ page.fetch.asOf \in Nat /\ page.fetch.asOf \in Box!Time /\ page.view \in Box!Views
  BY InboxFacts, PageParts, InboxNumbers
<1>3. moment \in Box!Time /\ moment \in Nat /\ moment # 0 /\ (page.fetch.asOf = 0 => moment = clock + 1)
  BY <1>0, <1>2, InboxFacts, InboxNumbers DEF Box!Now
<1>4. order \in Seq(Box!Messages) /\ n \in Nat
  <2>1. S \in SUBSET Box!Messages
    BY DEF Box!AsOf
  <2> HIDE DEF S
  <2> QED BY <2>1, NewestIs, MessagesFinite
<1> HIDE DEF moment
<1>5. f \in Fetches /\ f.at = "counted" /\ f.asOf = moment
  <2> HIDE DEF n
  <2>1. f.at = "counted" /\ f.asOf = moment
    BY <1>2 DEF Fetches
  <2>2. f \in Fetches
    BY <1>2, <1>3, <1>4 DEF Fetches
  <2> QED BY <2>1, <2>2
<1>6. page' = [page EXCEPT !.fetch = f]
  <2> HIDE DEF n
  <2> QED BY <1>1, <1>2 DEF InboxPages
<1> HIDE DEF f, n
<1>7. FetchTo(f)
  BY <1>5, <1>6, FetchMoves
<1>13. page'.fetch.at = "counted" /\ page'.fetch.asOf # 0 /\ page'.status = "loading"
  <2>1. page.status = "loading"
    BY <1>0, InboxFacts DEF TilesInv
  <2> QED BY <1>3, <1>5, <1>7, <2>1 DEF FetchTo
<1>8. ASSUME page.fetch.asOf = 0
      PROVE  walk' \in Walks /\ walk'.overtaken = walk.overtaken /\ DatedInv' /\ TilesInv'
  <2> HIDE DEF order
  <2>1. walk' = [walk EXCEPT !.asOf = moment, !.view = page.view, !.order = order, !.reshaped = FALSE]
    BY <1>0, <1>8
  <2>2. /\ walk' \in Walks /\ walk'.asOf = moment /\ walk'.view = page.view /\ walk'.order = order
        /\ walk'.reshaped = FALSE /\ walk'.overtaken = walk.overtaken
    BY <2>1, <1>2, <1>3, <1>4, InboxFacts DEF Walks
  <2>3. clock' = moment /\ clock' = clock + 1
    BY <1>0, <1>3, <1>8
  <2>4. DatedInv'
    BY <1>0, DatedSteady
  <2>5. order = Snapshot(walk.view, walk.asOf)'
    <3>1. Snapshot(page.view, moment) = order
      BY DEF Snapshot, order, S
    <3> QED BY <1>0, <2>2, <3>1, SnapshotSteady
  <2>6. TilesInv'
    BY <1>3, <1>13, <2>2, <2>5 DEF TilesInv
  <2> QED BY <2>2, <2>4, <2>6
<1>9. ASSUME page.fetch.asOf # 0
      PROVE  walk' \in Walks /\ walk'.overtaken = walk.overtaken /\ DatedInv' /\ TilesInv'
  <2>1. UNCHANGED <<clock, walk, msg>>
    BY <1>0, <1>9
  <2>2. SameWalk(walk', walk)
    BY <2>1 DEF SameWalk
  <2>3. DatedInv' /\ TilesInv'
    BY <1>13, <2>1, <2>2, TilesWaiting
  <2> QED BY <2>1, <2>3, InboxFacts
<1>10. walk' \in Walks /\ walk'.overtaken = walk.overtaken /\ DatedInv' /\ TilesInv'
  BY <1>8, <1>9
<1>11. InboxTyped'
  <2>1. clock' \in Box!Time
    BY <1>0, InboxFacts, InboxNumbers
  <2> QED BY <1>0, <1>7, <1>10, <2>1, InboxFacts DEF InboxTyped, FetchTo
<1>12. Untroubled' => SmoothInv'
  <2> SUFFICES ASSUME Untroubled' PROVE SmoothInv'
    OBVIOUS
  <2>1. PatchesInv /\ OpensInv /\ RemovesInv /\ RowedInv /\ CountsInv
    BY <1>0, <1>10, SmoothBefore
  <2>2. page'.open = page.open /\ page'.data = page.data /\ page'.fetch.at = "counted" /\ Box!Key(page') = Box!Key(page)
    BY <1>5, <1>7 DEF FetchTo, SamePage, Box!Key
  <2>3. PatchesInv' /\ OpensInv'
    BY <1>0, <2>1, <2>2, PatchesSteady, OpensSteady
  <2>4. RemovesInv' /\ RowedInv'
    BY <1>0, <2>1, <2>2, RemovesSteady, RowedSteady
  <2>5. CountsInv'
    BY <1>0, <2>1, <2>2, CountsSteady DEF Answering
  <2> QED BY <2>3, <2>4, <2>5 DEF SmoothInv
<1> QED BY <1>10, <1>11, <1>12 DEF InboxInv

LEMMA InboxRowsKeeps ==
  ASSUME InboxInv, Box!ListRows
  PROVE  InboxInv'
<1> DEFINE S == Box!AsOf(page.view, page.fetch.asOf)
           r == Box!PageOf(Box!Newest(S), page.number)
           items == [n \in 1 .. Len(r) |-> [id |-> r[n], read |-> msg[r[n]].read # 0]]
           f == [page.fetch EXCEPT !.at = "listed", !.items = items]
<1>0. page.fetch.at = "counted" /\ UNCHANGED <<clock, msg, patch, removal, shell, mishaps, walk>>
  BY DEF Box!ListRows
<1>1. page' = [page EXCEPT !.fetch.at = "listed", !.fetch.items = items]
  BY DEF Box!ListRows
<1>2. page \in InboxPages /\ page.fetch \in Fetches /\ page.number \in Nat \ {0}
  BY InboxFacts, PageParts
<1>3. S \in SUBSET Box!Messages /\ \A i \in S : msg[i].there
  BY DEF Box!AsOf
<1> HIDE DEF S
<1>4. /\ r \in Seq(Box!Messages) /\ \A n \in DOMAIN r : r[n] \in S
      /\ \A m, n \in DOMAIN r : r[m] = r[n] => m = n
  BY <1>2, <1>3, PageIs
<1> HIDE DEF r
<1>5. /\ items \in Seq(Box!Item) /\ Len(items) = Len(r) /\ DOMAIN items = DOMAIN r
      /\ \A n \in DOMAIN r : items[n].id = r[n]
  <2>1. \A n \in 1 .. Len(r) : (msg[r[n]].read # 0) \in BOOLEAN
    BY Zenon
  <2>2. DOMAIN r = 1 .. Len(r) /\ Len(r) \in Nat /\ \A n \in 1 .. Len(r) : r[n] \in Box!Messages
    BY <1>4
  <2> DEFINE b(n) == msg[r[n]].read # 0
  <2>3. \A n \in 1 .. Len(r) : b(n) \in BOOLEAN
    BY <2>1
  <2>4. items = [n \in 1 .. Len(r) |-> [id |-> r[n], read |-> b(n)]]
    OBVIOUS
  <2> HIDE DEF b, items
  <2>5. \A n \in 1 .. Len(r) : items[n] = [id |-> r[n], read |-> b(n)]
    BY <2>4
  <2>6. \A n \in 1 .. Len(r) : items[n] \in Box!Item /\ items[n].id = r[n]
    <3> TAKE n \in 1 .. Len(r)
    <3> DEFINE v == b(n)
               k == r[n]
    <3>1. v \in BOOLEAN /\ k \in Box!Messages /\ items[n] = [id |-> k, read |-> v]
      BY <2>2, <2>3, <2>5
    <3> HIDE DEF v
    <3> QED BY <3>1 DEF Box!Item
  <2>7. items \in [1 .. Len(r) -> Box!Item]
    BY <2>4, <2>6
  <2> QED BY <2>2, <2>6, <2>7
<1>6. InboxIds(items) = r
  <2> HIDE DEF items
  <2>1. r = [n \in 1 .. Len(r) |-> r[n]] /\ DOMAIN r = 1 .. Len(r)
    BY <1>4
  <2>2. InboxIds(items) = [n \in 1 .. Len(r) |-> r[n]]
    BY <1>5, <2>1 DEF InboxIds
  <2> QED BY <2>1, <2>2
<1> HIDE DEF items
<1>7. f \in Fetches /\ f.at = "listed" /\ f.asOf = page.fetch.asOf /\ f.items = items
  <2>1. f.at = "listed" /\ f.asOf = page.fetch.asOf /\ f.items = items
    BY <1>2 DEF Fetches
  <2>2. f \in Fetches
    BY <1>2, <1>5 DEF Fetches
  <2> QED BY <2>1, <2>2
<1>8. page' = [page EXCEPT !.fetch = f]
  BY <1>1, <1>2 DEF InboxPages
<1> HIDE DEF f
<1>9. FetchTo(f)
  BY <1>7, <1>8, FetchMoves
<1>10. DatedInv' /\ TilesInv'
  <2>1. TilesInv /\ page.status = "loading" /\ page.fetch.asOf # 0
    BY <1>0, InboxFacts DEF TilesInv
  <2>2. Walked(page.fetch.asOf) => r = Box!PageOf(walk.order, page.number)
    BY <2>1 DEF TilesInv, Walked, Snapshot, r, S
  <2>3. /\ page'.status = "loading" /\ page'.fetch.at = "listed" /\ page'.fetch.asOf = page.fetch.asOf
        /\ page'.fetch.items = items /\ page'.view = page.view /\ page'.number = page.number
    BY <1>7, <1>9, <2>1 DEF FetchTo, SamePage
  <2>4. Walked(page.fetch.asOf)' => Walked(page.fetch.asOf)
    BY <1>0, <2>3 DEF Walked
  <2>5. Snapshot(walk.view, walk.asOf)' = Snapshot(walk.view, walk.asOf)
    BY <1>0, SnapshotSteady
  <2>6. /\ Box!PageOf(walk.order, page.number)' = Box!PageOf(walk.order, page.number)
        /\ InboxIds(page.fetch.items)' = r
    BY <1>0, <1>6, <2>3, BoxSteady
  <2>7. TilesInv'
    BY <1>0, <2>1, <2>2, <2>3, <2>4, <2>5, <2>6 DEF TilesInv
  <2> QED BY <1>0, <2>7, DatedSteady
<1>11. InboxTyped'
  BY <1>0, <1>9, InboxFacts DEF InboxTyped, FetchTo
<1>12. Untroubled' => SmoothInv'
  <2> SUFFICES ASSUME Untroubled' PROVE SmoothInv'
    OBVIOUS
  <2>1. PatchesInv /\ OpensInv /\ RemovesInv /\ RowedInv /\ CountsInv
    BY <1>0, SmoothBefore
  <2>2. /\ page'.open = page.open /\ page'.data = page.data /\ Box!Key(page') = Box!Key(page)
        /\ page'.fetch.at = "listed" /\ page'.fetch.items = items
    BY <1>7, <1>9 DEF FetchTo, SamePage, Box!Key
  <2>3. PatchesInv' /\ OpensInv'
    BY <1>0, <2>1, <2>2, PatchesSteady, OpensSteady
  <2>4. RemovesInv'
    BY <1>0, <2>1, <2>2, RemovesSteady
  <2>5. RowedInv'
    <3>1. ShowsRows(items)
      BY <1>3, <1>4, <1>5 DEF ShowsRows
    <3>2. ShowsRows(page.fetch.items)' <=> ShowsRows(items)
      BY <1>0, <2>2 DEF ShowsRows, Going
    <3>3. ShowsRows(page.data.items)' <=> ShowsRows(page.data.items)
      BY <1>0, <2>2 DEF ShowsRows, Going
    <3> QED BY <1>0, <2>1, <3>1, <3>2, <3>3 DEF RowedInv
  <2>6. CountsInv'
    BY <1>0, <2>1, <2>2, CountsSteady DEF Answering
  <2> QED BY <2>3, <2>4, <2>5, <2>6 DEF SmoothInv
<1> QED BY <1>10, <1>11, <1>12 DEF InboxInv

LEMMA InboxUnreadKeeps ==
  ASSUME InboxInv, Box!ListUnread
  PROVE  InboxInv'
<1> DEFINE f == [page.fetch EXCEPT !.at = "answered", !.unread = UnreadNow]
<1>0. page.fetch.at = "listed" /\ UNCHANGED <<clock, msg, patch, removal, shell, mishaps, walk>>
  BY DEF Box!ListUnread
<1>1. page' = [page EXCEPT !.fetch.at = "answered", !.fetch.unread = UnreadNow]
  BY DEF Box!ListUnread, UnreadNow
<1>2. page \in InboxPages /\ page.fetch \in Fetches
  BY InboxFacts, PageParts
<1>3. /\ f \in Fetches /\ f.at = "answered" /\ f.asOf = page.fetch.asOf /\ f.items = page.fetch.items
      /\ f.unread = UnreadNow
  <2>1. f.at = "answered" /\ f.asOf = page.fetch.asOf /\ f.items = page.fetch.items /\ f.unread = UnreadNow
    BY <1>2 DEF Fetches
  <2>2. f \in Fetches
    BY <1>2, UnreadCounted DEF Fetches
  <2> QED BY <2>1, <2>2
<1>4. page' = [page EXCEPT !.fetch = f]
  BY <1>1, <1>2 DEF InboxPages
<1> HIDE DEF f
<1>5. FetchTo(f)
  BY <1>3, <1>4, FetchMoves
<1>6. /\ page'.status = page.status /\ page'.fetch.at = "answered" /\ page'.fetch.asOf = page.fetch.asOf
      /\ page'.fetch.items = page.fetch.items /\ page'.view = page.view /\ page'.number = page.number
      /\ page'.open = page.open /\ page'.data = page.data /\ Box!Key(page') = Box!Key(page)
      /\ page'.fetch.unread = UnreadNow
  BY <1>3, <1>5 DEF FetchTo, SamePage, Box!Key
<1>7. DatedInv' /\ TilesInv'
  <2>1. TilesInv /\ page.status = "loading"
    BY <1>0, InboxFacts DEF TilesInv
  <2>2. Walked(page.fetch.asOf)' => Walked(page.fetch.asOf)
    BY <1>0, <1>6 DEF Walked
  <2>3. Snapshot(walk.view, walk.asOf)' = Snapshot(walk.view, walk.asOf)
    BY <1>0, SnapshotSteady
  <2>4. /\ Box!PageOf(walk.order, page.number)' = Box!PageOf(walk.order, page.number)
        /\ InboxIds(page.fetch.items)' = InboxIds(page.fetch.items)
    BY <1>0, <1>6, BoxSteady
  <2>5. TilesInv'
    BY <1>0, <1>6, <2>1, <2>2, <2>3, <2>4 DEF TilesInv
  <2> QED BY <1>0, <2>5, DatedSteady
<1>8. InboxTyped'
  BY <1>0, <1>5, InboxFacts DEF InboxTyped, FetchTo
<1>9. Untroubled' => SmoothInv'
  <2> SUFFICES ASSUME Untroubled' PROVE SmoothInv'
    OBVIOUS
  <2>1. PatchesInv /\ OpensInv /\ RemovesInv /\ RowedInv /\ CountsInv
    BY <1>0, SmoothBefore
  <2>2. PatchesInv' /\ OpensInv' /\ RemovesInv'
    BY <1>0, <1>6, <2>1, PatchesSteady, OpensSteady, RemovesSteady
  <2>3. RowedInv'
    BY <1>0, <1>6, <2>1, RowedSteady
  <2>4. CountsInv'
    <3>1. UnreadNow' = UnreadNow /\ (Answering' <=> Answering)
      BY <1>0, SnapshotSteady DEF Answering
    <3> QED BY <1>0, <1>6, <2>1, <3>1 DEF CountsInv
  <2> QED BY <2>2, <2>3, <2>4 DEF SmoothInv
<1> QED BY <1>7, <1>8, <1>9 DEF InboxInv

\* An action that leaves the page and the messages alone.
LEMMA PageStands ==
  ASSUME InboxInv, UNCHANGED <<msg, page>>, SameWalk(walk', walk)
  PROVE  DatedInv' /\ TilesInv'
<1>1. SameList(page', page)
  BY DEF SameList
<1> QED BY <1>1, TilesSteady

LEMMA InboxSummaryKeeps ==
  ASSUME InboxInv, Box!SummaryRead
  PROVE  InboxInv'
<1> DEFINE r == [shell.request EXCEPT !.at = "answered", !.count = UnreadNow]
<1>0. shell.request.at = "sent" /\ UNCHANGED <<clock, msg, page, patch, removal, mishaps, walk>>
  BY DEF Box!SummaryRead
<1>1. shell' = [shell EXCEPT !.request.at = "answered", !.request.count = UnreadNow]
  BY DEF Box!SummaryRead, UnreadNow
<1>2. shell \in Shells /\ shell.request \in Summaries
  BY InboxFacts, InboxParts
<1>3. r \in Summaries /\ r.at = "answered" /\ r.count = UnreadNow /\ r.stale = shell.request.stale
  <2>1. r.at = "answered" /\ r.count = UnreadNow /\ r.stale = shell.request.stale
    BY <1>2 DEF Summaries
  <2>2. r \in Summaries
    BY <1>2, UnreadCounted DEF Summaries
  <2> QED BY <2>1, <2>2
<1>4. shell' = [shell EXCEPT !.request = r]
  BY <1>1, <1>2 DEF Shells
<1> HIDE DEF r
<1>5. shell' \in Shells /\ shell'.request = r /\ shell'.unread = shell.unread /\ shell'.again = shell.again
  BY <1>2, <1>3, <1>4 DEF Shells
<1>6. InboxTyped'
  BY <1>0, <1>5, InboxFacts DEF InboxTyped
<1>7. DatedInv' /\ TilesInv'
  BY <1>0, PageStands DEF SameWalk
<1>8. Untroubled' => SmoothInv'
  <2> SUFFICES ASSUME Untroubled' PROVE SmoothInv'
    OBVIOUS
  <2>1. PatchesInv /\ OpensInv /\ RemovesInv /\ RowedInv /\ CountsInv
    BY <1>0, SmoothBefore
  <2>2. PatchesInv' /\ OpensInv' /\ RemovesInv' /\ RowedInv'
    BY <1>0, <2>1, PatchesSteady, OpensSteady, RemovesSteady, RowedSteady DEF RowedInv
  <2>3. UnreadNow' = UnreadNow /\ (Answering' <=> Answering)
    BY <1>0, SnapshotSteady DEF Answering
  <2>4. CountsInv'
    BY <1>0, <1>3, <1>5, <2>1, <2>3 DEF CountsInv
  <2> QED BY <2>2, <2>4 DEF SmoothInv
<1> QED BY <1>6, <1>7, <1>8 DEF InboxInv

\* A step of the request for one message.
LEMMA PatchSet ==
  ASSUME InboxInv, NEW i \in Box!Messages, NEW p \in InboxPatches, patch' = [patch EXCEPT ![i] = p]
  PROVE  /\ patch' \in [Box!Messages -> InboxPatches] /\ patch'[i] = p
         /\ \A j \in Box!Messages : j # i => patch'[j] = patch[j]
  BY InboxFacts

LEMMA InboxReadKeeps ==
  ASSUME InboxInv, NEW i \in Box!Messages, Box!ReadRow(i)
  PROVE  InboxInv'
<1> DEFINE a == IF msg[i].there THEN "read" ELSE "failed"
           s == msg[i].read
           p == [patch[i] EXCEPT !.at = a, !.seen = s]
<1>0. patch[i].at = "sent" /\ UNCHANGED <<clock, msg, page, removal, shell, mishaps, walk>>
  BY DEF Box!ReadRow
<1>1. patch' = [patch EXCEPT ![i].at = a, ![i].seen = s]
  BY DEF Box!ReadRow
<1>2. patch[i] \in InboxPatches /\ a \in {"read", "failed"} /\ s \in Box!Time /\ (msg[i].there => a = "read")
  BY InboxParts, InboxFacts
<1>3. patch' = [patch EXCEPT ![i] = p]
  BY <1>1, InboxFacts
<1> HIDE DEF a, s
<1>4. p \in InboxPatches /\ p.at = a /\ p.seen = s /\ p.live = patch[i].live
  <2>1. p.at = a /\ p.seen = s /\ p.live = patch[i].live
    BY <1>2 DEF InboxPatches
  <2>2. p \in InboxPatches
    BY <1>2 DEF InboxPatches
  <2> QED BY <2>1, <2>2
<1> HIDE DEF p
<1>5. /\ patch' \in [Box!Messages -> InboxPatches] /\ patch'[i] = p
      /\ \A j \in Box!Messages : j # i => patch'[j] = patch[j]
  BY <1>3, <1>4, PatchSet
<1>6. InboxTyped'
  BY <1>0, <1>5, InboxFacts DEF InboxTyped
<1>7. DatedInv' /\ TilesInv'
  BY <1>0, PageStands DEF SameWalk
<1>8. Untroubled' => SmoothInv'
  <2> SUFFICES ASSUME Untroubled' PROVE SmoothInv'
    OBVIOUS
  <2>1. PatchesInv /\ OpensInv /\ RemovesInv /\ RowedInv /\ CountsInv
    BY <1>0, SmoothBefore
  <2>2. patch[i].live /\ msg[i].there /\ a = "read"
    BY <1>0, <1>2, <2>1 DEF PatchesInv
  <2>3. PatchesInv'
    <3> SUFFICES ASSUME NEW j \in Box!Messages, patch'[j].at # "none"
                 PROVE  /\ patch'[j].live /\ patch'[j].at # "failed" /\ msg[j].there
                        /\ patch'[j].at = "read" => patch'[j].seen = msg[j].read
                        /\ patch'[j].at = "dated" => patch'[j].when # 0
                        /\ patch'[j].at = "answered" /\ patch'[j].want => msg[j].read # 0
      BY <1>0, <2>1 DEF PatchesInv
    <3>1. CASE j = i
      BY <1>4, <1>5, <2>2, <3>1 DEF s
    <3>2. CASE j # i
      BY <1>5, <2>1, <3>2 DEF PatchesInv
    <3> QED BY <3>1, <3>2
  <2>4. \A j \in Box!Messages : patch'[j].at = "none" <=> patch[j].at = "none"
    BY <1>0, <1>4, <1>5, <2>2
  <2>5. \A j \in page.open : j \in Box!Messages
    BY InboxFacts, PageParts
  <2>6. OpensInv'
    BY <1>0, <2>1, <2>4, <2>5 DEF OpensInv
  <2>7. RemovesInv'
    <3>1. removal.target # 0 => removal.target \in Box!Messages
      BY InboxParts, InboxNumbers
    <3>2. Box!Key(page)' = Box!Key(page)
      BY <1>0 DEF Box!Key
    <3> QED BY <1>0, <2>1, <2>4, <3>1, <3>2 DEF RemovesInv
  <2>8. RowedInv'
    BY <1>0, <2>1, RowedSteady DEF RowedInv
  <2>9. CountsInv'
    <3>1. Answering' <=> Answering
      BY <1>0, <1>4, <1>5, <2>2 DEF Answering
    <3> QED BY <1>0, <2>1, <3>1, CountsSteady
  <2> QED BY <2>3, <2>6, <2>7, <2>8, <2>9 DEF SmoothInv
<1> QED BY <1>6, <1>7, <1>8 DEF InboxInv

\* A change of one message's row.
LEMMA RowSet ==
  ASSUME InboxInv, NEW i \in Box!Messages, NEW r \in MsgRows, msg' = [msg EXCEPT ![i] = r]
  PROVE  /\ msg' \in [Box!Messages -> MsgRows] /\ msg'[i] = r
         /\ \A j \in Box!Messages : j # i => msg'[j] = msg[j]
  BY InboxFacts

LEMMA RowRead ==
  ASSUME InboxInv, NEW i \in Box!Messages, NEW x \in Box!Time, msg' = [msg EXCEPT ![i].read = x]
  PROVE  /\ msg' \in [Box!Messages -> MsgRows]
         /\ msg'[i].there = msg[i].there /\ msg'[i].created = msg[i].created /\ msg'[i].read = x
         /\ msg'[i].dated = msg[i].dated
         /\ \A j \in Box!Messages : j # i => msg'[j] = msg[j]
<1> DEFINE r == [msg[i] EXCEPT !.read = x]
<1>1. msg[i] \in MsgRows
  BY InboxFacts
<1>2. r \in MsgRows /\ r.there = msg[i].there /\ r.created = msg[i].created /\ r.read = x /\ r.dated = msg[i].dated
  <2>1. r.there = msg[i].there /\ r.created = msg[i].created /\ r.read = x /\ r.dated = msg[i].dated
    BY <1>1 DEF MsgRows
  <2>2. r \in MsgRows
    BY <1>1 DEF MsgRows
  <2> QED BY <2>1, <2>2
<1>3. msg' = [msg EXCEPT ![i] = r]
  BY InboxFacts
<1> HIDE DEF r
<1> QED BY <1>2, <1>3, RowSet

\* What has not been undone, or dated by the walk's moment, leaves its set as it was.
LEMMA SameSet ==
  ASSUME InboxInv, NEW i \in Box!Messages, msg' \in [Box!Messages -> MsgRows],
         \A j \in Box!Messages : j # i => msg'[j] = msg[j],
         (msg'[i].there /\ msg'[i].created <= walk.asOf) <=> (msg[i].there /\ msg[i].created <= walk.asOf),
         ~ Box!ByThen(msg[i].read), ~ Box!ByThen(msg'[i].read)
  PROVE  \A view, moment : moment = walk.asOf => Box!AsOf(view, moment)' = Box!AsOf(view, moment)
<1> SUFFICES ASSUME NEW view, NEW moment, moment = walk.asOf
             PROVE  Box!AsOf(view, moment)' = Box!AsOf(view, moment)
  OBVIOUS
<1>1. msg'[i].read \in Nat /\ msg[i].read \in Nat /\ moment \in Nat
  BY InboxFacts, InboxNumbers DEF MsgRows
<1>2. /\ msg'[i].read = 0 \/ msg'[i].read > moment
      /\ msg[i].read = 0 \/ msg[i].read > moment
  BY <1>1 DEF Box!ByThen
<1>3. \A j \in Box!Messages :
        (msg'[j].there /\ msg'[j].created <= moment /\ (view = "all" \/ msg'[j].read = 0 \/ msg'[j].read > moment))
        <=> (msg[j].there /\ msg[j].created <= moment /\ (view = "all" \/ msg[j].read = 0 \/ msg[j].read > moment))
  <2> TAKE j \in Box!Messages
  <2>1. CASE j = i
    BY <1>2, <2>1
  <2>2. CASE j # i
    BY <2>2
  <2> QED BY <2>1, <2>2
<1> QED BY <1>3 DEF Box!AsOf

LEMMA ItemsAre ==
  ASSUME NEW items \in Seq(Box!Item)
  PROVE  /\ \A n \in DOMAIN items : items[n] \in Box!Item /\ items[n].id \in Box!Messages /\ items[n].read \in BOOLEAN
         /\ DOMAIN items = 1 .. Len(items) /\ Len(items) \in Nat
<1>1. \A n \in DOMAIN items : items[n] \in Box!Item
  OBVIOUS
<1> QED BY <1>1 DEF Box!Item

\* Rows that stay where they are.
LEMMA RowsThere ==
  ASSUME InboxInv, \A j \in Box!Messages : (msg[j].there \/ Going(j)) => (msg'[j].there \/ Going(j)'),
         page' = page, RowedInv
  PROVE  RowedInv'
<1>1. page.data.items \in Seq(Box!Item) /\ page.fetch.items \in Seq(Box!Item)
  BY InboxFacts, PageParts
<1>2. ASSUME NEW items \in Seq(Box!Item) PROVE ShowsRows(items) => ShowsRows(items)'
  <2>1. \A n \in DOMAIN items : items[n].id \in Box!Messages
    BY ItemsAre
  <2> SUFFICES ASSUME ShowsRows(items), NEW n \in DOMAIN items PROVE msg'[items[n].id].there \/ Going(items[n].id)'
    BY DEF ShowsRows
  <2> QED BY <2>1 DEF ShowsRows, Going
<1>3. (ShowsRows(page.data.items) => ShowsRows(page.data.items)') /\ (ShowsRows(page.fetch.items) => ShowsRows(page.fetch.items)')
  <2> DEFINE d == page.data.items
             f == page.fetch.items
  <2>1. (ShowsRows(d) => ShowsRows(d)') /\ (ShowsRows(f) => ShowsRows(f)')
    BY <1>1, <1>2 DEF ShowsRows, Going
  <2> QED BY <2>1
<1> QED BY <1>3 DEF RowedInv

LEMMA InboxDateKeeps ==
  ASSUME InboxInv, NEW i \in Box!Messages, Box!DateRead(i)
  PROVE  InboxInv'
<1> DEFINE w == clock + 1
           p == [patch[i] EXCEPT !.at = "dated", !.when = w]
<1>0. /\ patch[i].at = "read" /\ clock < MaxTime /\ clock' = w
      /\ patch' = [patch EXCEPT ![i].at = "dated", ![i].when = w]
      /\ UNCHANGED <<msg, page, removal, shell, mishaps, walk>>
  BY DEF Box!DateRead, Box!Tick, Box!Now
<1>1. patch[i] \in InboxPatches /\ w \in Box!Time /\ w # 0
  BY <1>0, InboxParts, InboxFacts, InboxNumbers
<1>2. patch' = [patch EXCEPT ![i] = p]
  BY <1>0, InboxFacts
<1> HIDE DEF w
<1>3. p \in InboxPatches /\ p.at = "dated" /\ p.when = w /\ p.live = patch[i].live
  <2>1. p.at = "dated" /\ p.when = w /\ p.live = patch[i].live
    BY <1>1 DEF InboxPatches
  <2>2. p \in InboxPatches
    BY <1>1 DEF InboxPatches
  <2> QED BY <2>1, <2>2
<1> HIDE DEF p
<1>4. /\ patch' \in [Box!Messages -> InboxPatches] /\ patch'[i] = p
      /\ \A j \in Box!Messages : j # i => patch'[j] = patch[j]
  BY <1>2, <1>3, PatchSet
<1>5. InboxTyped'
  BY <1>0, <1>1, <1>4, InboxFacts DEF InboxTyped
<1>6. DatedInv' /\ TilesInv'
  BY <1>0, PageStands DEF SameWalk
<1>7. Untroubled' => SmoothInv'
  <2> SUFFICES ASSUME Untroubled' PROVE SmoothInv'
    OBVIOUS
  <2>1. PatchesInv /\ OpensInv /\ RemovesInv /\ RowedInv /\ CountsInv
    BY <1>0, SmoothBefore
  <2>2. patch[i].live /\ msg[i].there
    BY <1>0, <2>1 DEF PatchesInv
  <2>3. PatchesInv'
    <3> SUFFICES ASSUME NEW j \in Box!Messages, patch'[j].at # "none"
                 PROVE  /\ patch'[j].live /\ patch'[j].at # "failed" /\ msg[j].there
                        /\ patch'[j].at = "read" => patch'[j].seen = msg[j].read
                        /\ patch'[j].at = "dated" => patch'[j].when # 0
                        /\ patch'[j].at = "answered" /\ patch'[j].want => msg[j].read # 0
      BY <1>0, <2>1 DEF PatchesInv
    <3>1. CASE j = i
      BY <1>1, <1>3, <1>4, <2>2, <3>1
    <3>2. CASE j # i
      BY <1>4, <2>1, <3>2 DEF PatchesInv
    <3> QED BY <3>1, <3>2
  <2>4. \A j \in Box!Messages : patch'[j].at = "none" <=> patch[j].at = "none"
    BY <1>0, <1>3, <1>4
  <2>5. \A j \in page.open : j \in Box!Messages
    BY InboxFacts, PageParts
  <2>6. OpensInv'
    BY <1>0, <2>1, <2>4, <2>5 DEF OpensInv
  <2>7. RemovesInv'
    <3>1. removal.target # 0 => removal.target \in Box!Messages
      BY InboxParts, InboxNumbers
    <3>2. Box!Key(page)' = Box!Key(page)
      BY <1>0 DEF Box!Key
    <3> QED BY <1>0, <2>1, <2>4, <3>1, <3>2 DEF RemovesInv
  <2>8. RowedInv'
    BY <1>0, <2>1, RowedSteady DEF RowedInv
  <2>9. CountsInv'
    <3>1. Answering' <=> Answering
      BY <1>0, <1>3, <1>4 DEF Answering
    <3> QED BY <1>0, <2>1, <3>1, CountsSteady
  <2> QED BY <2>3, <2>6, <2>7, <2>8, <2>9 DEF SmoothInv
<1> QED BY <1>5, <1>6, <1>7 DEF InboxInv

LEMMA InboxSetKeeps ==
  ASSUME InboxInv, NEW i \in Box!Messages, Box!SetRead(i)
  PROVE  InboxInv'
<1> DEFINE want == patch[i].want
           write == patch[i].at = "dated" \/ (~ want /\ patch[i].seen # 0)
           x == patch[i].when
           undone == Box!ByThen(x) \/ Box!ByThen(msg[i].read)
           a == IF write /\ ~ msg[i].there THEN "failed" ELSE "answered"
           p == [patch[i] EXCEPT !.at = a]
<1>0. /\ patch[i].at = "dated" \/ (patch[i].at = "read" /\ (want => patch[i].seen # 0))
      /\ UNCHANGED <<clock, page, removal, shell, mishaps>>
      /\ IF write /\ msg[i].there
         THEN msg' = [msg EXCEPT ![i].read = x] /\ Box!Reshape(undone)
         ELSE UNCHANGED <<msg, walk>>
  BY DEF Box!SetRead
<1>1. patch' = [patch EXCEPT ![i].at = a]
  BY DEF Box!SetRead
<1>2. patch[i] \in InboxPatches /\ want \in BOOLEAN /\ a \in {"failed", "answered"} /\ undone \in BOOLEAN /\ x \in Box!Time
  <2>1. undone \in BOOLEAN
    BY Zenon
  <2> HIDE DEF undone
  <2> QED BY <2>1, InboxParts
<1>3. patch' = [patch EXCEPT ![i] = p]
  BY <1>1, InboxFacts
<1>4. p \in InboxPatches /\ p.at = a /\ p.live = patch[i].live /\ p.want = want
  <2> HIDE DEF a
  <2>1. p.at = a /\ p.live = patch[i].live /\ p.want = want
    BY <1>2 DEF InboxPatches
  <2>2. p \in InboxPatches
    BY <1>2 DEF InboxPatches
  <2> QED BY <2>1, <2>2
<1> HIDE DEF p
<1>5. /\ patch' \in [Box!Messages -> InboxPatches] /\ patch'[i] = p
      /\ \A j \in Box!Messages : j # i => patch'[j] = patch[j]
  BY <1>3, <1>4, PatchSet
<1>6. ~ undone => ~ Box!ByThen(x) /\ ~ Box!ByThen(msg[i].read)
  OBVIOUS
<1> HIDE DEF x, a, undone
<1>7. /\ msg' \in [Box!Messages -> MsgRows] /\ walk' \in Walks /\ DatedInv' /\ TilesInv'
      /\ \A j \in Box!Messages : /\ msg'[j].there = msg[j].there /\ msg'[j].dated = msg[j].dated
                                 /\ j # i => msg'[j].read = msg[j].read
      /\ ~ walk'.overtaken => ~ walk.overtaken /\ (msg' = msg \/ page.fetch.at # "answered")
      /\ \/ write /\ msg[i].there /\ msg'[i].read = x
         \/ ~ (write /\ msg[i].there) /\ msg' = msg
  <2>1. CASE write /\ msg[i].there
    <3>1. msg' = [msg EXCEPT ![i].read = x] /\ Box!Reshape(undone)
      BY <1>0, <2>1
    <3>2. /\ msg' \in [Box!Messages -> MsgRows]
          /\ msg'[i].there = msg[i].there /\ msg'[i].created = msg[i].created /\ msg'[i].read = x
          /\ msg'[i].dated = msg[i].dated
          /\ \A j \in Box!Messages : j # i => msg'[j] = msg[j]
      BY <1>2, <3>1, RowRead
    <3>3. \A j \in Box!Messages : msg'[j].there => msg'[j].created # 0
      BY <3>2, InboxFacts DEF DatedInv
    <3>4. ~ undone => \A view, moment : moment = walk.asOf => Box!AsOf(view, moment)' = Box!AsOf(view, moment)
      BY <1>6, <3>2, SameSet
    <3>5. /\ DatedInv' /\ TilesInv' /\ walk' \in Walks
          /\ ~ walk'.overtaken => ~ walk.overtaken /\ page.fetch.at # "answered"
      BY <1>0, <1>2, <3>1, <3>3, <3>4, TilesReshaped
    <3>6. \A j \in Box!Messages : /\ msg'[j].there = msg[j].there /\ msg'[j].dated = msg[j].dated
                                  /\ j # i => msg'[j].read = msg[j].read
      BY <3>2
    <3> QED BY <2>1, <3>2, <3>5, <3>6
  <2>2. CASE ~ (write /\ msg[i].there)
    <3>1. UNCHANGED <<msg, walk>>
      BY <1>0, <2>2
    <3>2. DatedInv' /\ TilesInv'
      BY <1>0, <3>1, PageStands DEF SameWalk
    <3> QED BY <2>2, <3>1, <3>2, InboxFacts
  <2> QED BY <2>1, <2>2
<1>8. InboxTyped'
  BY <1>0, <1>5, <1>7, InboxFacts DEF InboxTyped
<1>9. Untroubled' => SmoothInv'
  <2> SUFFICES ASSUME Untroubled' PROVE SmoothInv'
    OBVIOUS
  <2>1. PatchesInv /\ OpensInv /\ RemovesInv /\ RowedInv /\ CountsInv /\ ~ walk'.overtaken
    <3>1. ~ walk'.overtaken
      BY DEF Untroubled
    <3> QED BY <1>0, <1>7, <3>1, SmoothBefore
  <2>2. /\ patch[i].live /\ msg[i].there /\ (patch[i].at = "dated" => x # 0)
        /\ patch[i].at = "read" => patch[i].seen = msg[i].read
    BY <1>0, <2>1 DEF PatchesInv, x
  <2>3. a = "answered" /\ (want => msg'[i].read # 0)
    <3>1. a = "answered"
      BY <2>2 DEF a
    <3>2. ASSUME want PROVE msg'[i].read # 0
      <4>1. CASE patch[i].at = "dated"
        BY <1>7, <2>2, <4>1
      <4>2. CASE patch[i].at # "dated"
        <5>1. patch[i].at = "read" /\ patch[i].seen # 0 /\ ~ write
          BY <1>0, <3>2, <4>2
        <5> QED BY <1>7, <2>2, <5>1
      <4> QED BY <4>1, <4>2
    <3> QED BY <3>1, <3>2
  <2> HIDE DEF write, want
  <2>4. PatchesInv'
    <3> SUFFICES ASSUME NEW j \in Box!Messages, patch'[j].at # "none"
                 PROVE  /\ patch'[j].live /\ patch'[j].at # "failed" /\ msg'[j].there
                        /\ patch'[j].at = "read" => patch'[j].seen = msg'[j].read
                        /\ patch'[j].at = "dated" => patch'[j].when # 0
                        /\ patch'[j].at = "answered" /\ patch'[j].want => msg'[j].read # 0
      BY <1>7, <2>1 DEF PatchesInv
    <3>1. CASE j = i
      BY <1>4, <1>5, <1>7, <2>2, <2>3, <3>1
    <3>2. CASE j # i
      BY <1>5, <1>7, <2>1, <3>2 DEF PatchesInv
    <3> QED BY <3>1, <3>2
  <2>5. OpensInv'
    <3>1. \A j \in page.open : j \in Box!Messages
      BY InboxFacts, PageParts
    <3>2. patch'[i].at # "none"
      BY <1>4, <1>5, <2>3
    <3> QED BY <1>0, <1>5, <1>7, <2>1, <3>1, <3>2 DEF OpensInv
  <2>6. RemovesInv'
    <3>1. removal.target # 0 => removal.target \in Box!Messages /\ removal.target # i
      BY <1>0, <2>1, InboxParts, InboxNumbers DEF RemovesInv
    <3>2. Box!Key(page)' = Box!Key(page)
      BY <1>0 DEF Box!Key
    <3> QED BY <1>0, <1>5, <1>7, <2>1, <3>1, <3>2 DEF RemovesInv
  <2>7. RowedInv'
    <3>1. \A j \in Box!Messages : (msg[j].there \/ Going(j)) => (msg'[j].there \/ Going(j)')
      BY <1>0, <1>7 DEF Going
    <3> QED BY <1>0, <2>1, <3>1, RowsThere
  <2>8. CountsInv'
    <3>1. Answering'
      BY <1>4, <1>5, <2>3 DEF Answering
    <3>2. page.fetch.at = "answered" => UnreadNow' = UnreadNow
      BY <1>7, <2>1, SnapshotSteady
    <3> QED BY <1>0, <2>1, <3>1, <3>2 DEF CountsInv
  <2> QED BY <2>4, <2>5, <2>6, <2>7, <2>8 DEF SmoothInv
<1> QED BY <1>7, <1>8, <1>9 DEF InboxInv

LEMMA RowGone ==
  ASSUME InboxInv, NEW i \in Box!Messages, msg' = [msg EXCEPT ![i].there = FALSE]
  PROVE  /\ msg' \in [Box!Messages -> MsgRows]
         /\ msg'[i].there = FALSE /\ msg'[i].created = msg[i].created /\ msg'[i].read = msg[i].read
         /\ msg'[i].dated = msg[i].dated
         /\ \A j \in Box!Messages : j # i => msg'[j] = msg[j]
<1> DEFINE r == [msg[i] EXCEPT !.there = FALSE]
<1>1. msg[i] \in MsgRows
  BY InboxFacts
<1>2. r \in MsgRows /\ r.there = FALSE /\ r.created = msg[i].created /\ r.read = msg[i].read /\ r.dated = msg[i].dated
  <2>1. r.there = FALSE /\ r.created = msg[i].created /\ r.read = msg[i].read /\ r.dated = msg[i].dated
    BY <1>1 DEF MsgRows
  <2>2. r \in MsgRows
    BY <1>1 DEF MsgRows
  <2> QED BY <2>1, <2>2
<1>3. msg' = [msg EXCEPT ![i] = r]
  BY InboxFacts
<1> HIDE DEF r
<1> QED BY <1>2, <1>3, RowSet

LEMMA UnreadSteady ==
  ASSUME \A i \in Box!Messages : (msg'[i].there /\ msg'[i].read = 0) <=> (msg[i].there /\ msg[i].read = 0)
  PROVE  UnreadNow' = UnreadNow
<1>1. Box!Unread' = Box!Unread
  BY DEF Box!Unread
<1>2. \A S : Box!Cardinality(S)' = Box!Cardinality(S)
  BY DEF Box!Cardinality
<1> QED BY <1>1, <1>2 DEF UnreadNow

LEMMA InboxDeleteKeeps ==
  ASSUME InboxInv, Box!Delete
  PROVE  InboxInv'
<1> DEFINE t == removal.target
<1>0. /\ removal.at = "sent" /\ removal' = [removal EXCEPT !.at = "answered"]
      /\ msg' = [msg EXCEPT ![t].there = FALSE] /\ Box!Reshape(TRUE)
      /\ UNCHANGED <<clock, page, patch, shell, mishaps>>
  BY DEF Box!Delete
<1>1. t \in Box!Messages
  BY <1>0, InboxParts, InboxNumbers
<1>2. /\ removal' \in InboxRemovals /\ removal'.at = "answered" /\ removal'.target = t
      /\ removal'.unread = removal.unread
  BY <1>0, InboxFacts DEF InboxRemovals
<1>3. t # 0
  BY <1>1, InboxNumbers
<1> HIDE DEF t
<1>4. /\ msg' \in [Box!Messages -> MsgRows]
      /\ msg'[t].there = FALSE /\ msg'[t].created = msg[t].created /\ msg'[t].read = msg[t].read
      /\ msg'[t].dated = msg[t].dated
      /\ \A j \in Box!Messages : j # t => msg'[j] = msg[j]
  BY <1>0, <1>1, RowGone
<1>5. \A j \in Box!Messages : msg'[j].there => msg'[j].created # 0
  BY <1>4, InboxFacts DEF DatedInv
<1>6. /\ DatedInv' /\ TilesInv' /\ walk' \in Walks
      /\ ~ walk'.overtaken => ~ walk.overtaken /\ page.fetch.at # "answered"
  <2>1. TRUE \in BOOLEAN
    OBVIOUS
  <2> QED BY <1>0, <1>5, <2>1, TilesReshaped
<1>7. InboxTyped'
  BY <1>0, <1>2, <1>3, <1>4, <1>6, InboxFacts DEF InboxTyped
<1>8. Untroubled' => SmoothInv'
  <2> SUFFICES ASSUME Untroubled' PROVE SmoothInv'
    OBVIOUS
  <2>1. PatchesInv /\ OpensInv /\ RemovesInv /\ RowedInv /\ CountsInv /\ page.fetch.at # "answered"
    BY <1>0, <1>6, SmoothBefore DEF Untroubled
  <2>2. ~ removal.unread /\ msg[t].read # 0 /\ patch[t].at = "none" /\ (page.data.key = Box!Key(page) \/ page.data.items = <<>>)
    BY <1>3, <2>1 DEF RemovesInv, t
  <2>3. \A j \in Box!Messages : /\ msg'[j].read = msg[j].read /\ msg'[j].dated = msg[j].dated
                                /\ j # t => msg'[j].there = msg[j].there
    BY <1>4
  <2>4. PatchesInv'
    BY <1>0, <2>1, <2>2, <2>3 DEF PatchesInv
  <2>5. OpensInv'
    <3>1. \A j \in page.open : j \in Box!Messages
      BY InboxFacts, PageParts
    <3> QED BY <1>0, <2>1, <2>3, <3>1 DEF OpensInv
  <2>6. RemovesInv'
    <3>1. Box!Key(page)' = Box!Key(page)
      BY <1>0 DEF Box!Key
    <3> QED BY <1>0, <1>1, <1>2, <2>2, <2>3, <3>1 DEF RemovesInv
  <2>7. RowedInv'
    <3>1. \A j \in Box!Messages : (msg[j].there \/ Going(j)) => (msg'[j].there \/ Going(j)')
      <4> TAKE j \in Box!Messages
      <4>1. CASE j = t
        BY <1>2, <4>1 DEF Going
      <4>2. CASE j # t
        BY <1>0, <2>3, <4>2 DEF Going, t
      <4> QED BY <4>1, <4>2
    <3> QED BY <1>0, <2>1, <3>1, RowsThere
  <2>8. CountsInv'
    <3>1. \A j \in Box!Messages : (msg'[j].there /\ msg'[j].read = 0) <=> (msg[j].there /\ msg[j].read = 0)
      <4> TAKE j \in Box!Messages
      <4>1. CASE j = t
        BY <2>2, <2>3, <4>1
      <4>2. CASE j # t
        BY <2>3, <4>2
      <4> QED BY <4>1, <4>2
    <3>2. UnreadNow' = UnreadNow
      BY <3>1, UnreadSteady
    <3>3. Answering' <=> Answering
      BY <1>0 DEF Answering
    <3> QED BY <1>0, <2>1, <3>2, <3>3 DEF CountsInv
  <2> QED BY <2>4, <2>5, <2>6, <2>7, <2>8 DEF SmoothInv
<1> QED BY <1>6, <1>7, <1>8 DEF InboxInv

\* Another's change: no claim about the badge is left, since it was a mishap, or
\* the commit of one.
LEMMA Outsider ==
  ASSUME InboxInv, ~ Untroubled', mishaps' \in Nat, UNCHANGED <<page, patch, removal, shell>>,
         clock' \in Box!Time, msg' \in [Box!Messages -> MsgRows], walk' \in Walks, DatedInv', TilesInv'
  PROVE  InboxInv'
<1>1. InboxTyped'
  BY InboxFacts DEF InboxTyped
<1> QED BY <1>1 DEF InboxInv

\* The beginning of one: only its date is new.
LEMMA RowDated ==
  ASSUME InboxInv, NEW i \in Box!Messages, NEW x \in Box!Time, msg' = [msg EXCEPT ![i].dated = x],
         UNCHANGED <<page, walk>>
  PROVE  msg' \in [Box!Messages -> MsgRows] /\ DatedInv' /\ TilesInv'
<1> DEFINE r == [msg[i] EXCEPT !.dated = x]
<1>1. msg[i] \in MsgRows
  BY InboxFacts
<1>2. r \in MsgRows /\ r.there = msg[i].there /\ r.created = msg[i].created /\ r.read = msg[i].read
  <2>1. r.there = msg[i].there /\ r.created = msg[i].created /\ r.read = msg[i].read
    BY <1>1 DEF MsgRows
  <2>2. r \in MsgRows
    BY <1>1 DEF MsgRows
  <2> QED BY <2>1, <2>2
<1>3. msg' = [msg EXCEPT ![i] = r]
  BY InboxFacts
<1> HIDE DEF r
<1>4. /\ msg' \in [Box!Messages -> MsgRows]
      /\ \A j \in Box!Messages :
           msg'[j].there = msg[j].there /\ msg'[j].created = msg[j].created /\ msg'[j].read = msg[j].read
  BY <1>2, <1>3, RowSet
<1>5. DatedInv'
  BY <1>4, InboxFacts DEF DatedInv
<1>6. Snapshot(walk.view, walk.asOf)' = Snapshot(walk.view, walk.asOf)
  <2>1. \A view, moment : Box!AsOf(view, moment)' = Box!AsOf(view, moment)
    BY <1>4 DEF Box!AsOf
  <2> QED BY <2>1, BoxSteady DEF Snapshot
<1>7. /\ Box!PageOf(walk.order, page.number)' = Box!PageOf(walk.order, page.number)
      /\ InboxIds(page.data.items)' = InboxIds(page.data.items)
      /\ InboxIds(page.fetch.items)' = InboxIds(page.fetch.items)
      /\ Box!Key(page)' = Box!Key(page)
      /\ Walked(page.fetch.asOf)' <=> Walked(page.fetch.asOf)
      /\ Walked(page.data.asOf)' <=> Walked(page.data.asOf)
  BY BoxSteady DEF Walked
<1>8. TilesInv'
  BY <1>6, <1>7, InboxFacts DEF TilesInv
<1> QED BY <1>4, <1>5, <1>8

\* A mark or a deletion, which commits as it is made, and the commit of the rest.
LEMMA RowChanges ==
  ASSUME InboxInv, NEW i \in Box!Messages, NEW r \in MsgRows, msg' = [msg EXCEPT ![i] = r],
         NEW undone \in BOOLEAN, Box!Reshape(undone), page' = page, r.there => r.created # 0,
         ~ undone => /\ ~ Box!ByThen(msg[i].read) /\ ~ Box!ByThen(r.read)
                     /\ (r.there /\ r.created <= walk.asOf) <=> (msg[i].there /\ msg[i].created <= walk.asOf)
  PROVE  msg' \in [Box!Messages -> MsgRows] /\ walk' \in Walks /\ DatedInv' /\ TilesInv'
<1>1. /\ msg' \in [Box!Messages -> MsgRows] /\ msg'[i] = r
      /\ \A j \in Box!Messages : j # i => msg'[j] = msg[j]
  BY RowSet
<1>2. \A j \in Box!Messages : msg'[j].there => msg'[j].created # 0
  BY <1>1, InboxFacts DEF DatedInv
<1>3. ~ undone => \A view, moment : moment = walk.asOf => Box!AsOf(view, moment)' = Box!AsOf(view, moment)
  BY <1>1, SameSet
<1> QED BY <1>1, <1>2, <1>3, TilesReshaped

LEMMA InboxOutsideKeeps ==
  ASSUME InboxInv, Box!Outside
  PROVE  InboxInv'
<1>0. mishaps' = mishaps + 1 /\ UNCHANGED <<page, patch, removal, shell>>
  BY DEF Box!Outside
<1>1. mishaps' \in Nat /\ ~ Untroubled'
  BY <1>0, InboxFacts DEF Untroubled
<1>2. ASSUME NEW i \in Box!Messages, Box!Tick, msg' = [msg EXCEPT ![i].dated = Box!Now], UNCHANGED walk
      PROVE  InboxInv'
  <2>1. clock' = Box!Now /\ Box!Now \in Box!Time
    BY <1>2, InboxFacts, InboxNumbers DEF Box!Tick, Box!Now
  <2>2. msg' \in [Box!Messages -> MsgRows] /\ DatedInv' /\ TilesInv'
    BY <1>0, <1>2, <2>1, RowDated
  <2> QED BY <1>0, <1>1, <1>2, <2>1, <2>2, Outsider, InboxFacts
<1>3. ASSUME NEW i \in Box!Messages, UNCHANGED clock, Box!Reshape(Box!ByThen(msg[i].read)),
             msg' = [msg EXCEPT ![i].read = 0]
      PROVE  InboxInv'
  <2> DEFINE r == [msg[i] EXCEPT !.read = 0]
             undone == Box!ByThen(msg[i].read)
  <2>1. msg[i] \in MsgRows /\ 0 \in Box!Time /\ ~ Box!ByThen(0)
    BY InboxFacts, NoneTyped DEF Box!ByThen
  <2>2. r \in MsgRows /\ r.there = msg[i].there /\ r.created = msg[i].created /\ r.read = 0
    <3>1. r.there = msg[i].there /\ r.created = msg[i].created /\ r.read = 0
      BY <2>1 DEF MsgRows
    <3>2. r \in MsgRows
      BY <2>1 DEF MsgRows
    <3> QED BY <3>1, <3>2
  <2>3. msg' = [msg EXCEPT ![i] = r]
    BY <1>3, InboxFacts
  <2>4. undone \in BOOLEAN
    BY DEF Box!ByThen
  <2> HIDE DEF r
  <2>5. /\ ~ undone => ~ Box!ByThen(msg[i].read) /\ ~ Box!ByThen(r.read)
        /\ r.there => r.created # 0
    BY <2>1, <2>2, InboxFacts DEF DatedInv
  <2> HIDE DEF undone
  <2>6. msg' \in [Box!Messages -> MsgRows] /\ walk' \in Walks /\ DatedInv' /\ TilesInv'
    BY <1>0, <1>3, <2>2, <2>3, <2>4, <2>5, RowChanges DEF undone
  <2> QED BY <1>0, <1>1, <1>3, <2>6, Outsider, InboxFacts
<1>4. ASSUME NEW i \in Box!Messages, UNCHANGED clock, Box!Reshape(TRUE), msg' = [msg EXCEPT ![i].there = FALSE]
      PROVE  InboxInv'
  <2>1. /\ msg' \in [Box!Messages -> MsgRows] /\ msg'[i].there = FALSE
        /\ \A j \in Box!Messages : j # i => msg'[j] = msg[j]
    BY <1>4, RowGone
  <2>2. TRUE \in BOOLEAN /\ \A j \in Box!Messages : msg'[j].there => msg'[j].created # 0
    BY <2>1, InboxFacts DEF DatedInv
  <2>3. walk' \in Walks /\ DatedInv' /\ TilesInv'
    BY <1>0, <1>4, <2>2, TilesReshaped
  <2> QED BY <1>0, <1>1, <1>4, <2>1, <2>3, Outsider, InboxFacts
<1>5. \/ \E i \in Box!Messages : Box!Tick /\ msg' = [msg EXCEPT ![i].dated = Box!Now] /\ UNCHANGED walk
      \/ \E i \in Box!Messages :
           /\ UNCHANGED clock
           /\ \/ Box!Reshape(Box!ByThen(msg[i].read)) /\ msg' = [msg EXCEPT ![i].read = 0]
              \/ msg' = [msg EXCEPT ![i].there = FALSE] /\ Box!Reshape(TRUE)
  <2> HIDE DEF Box!Tick, Box!Now, Box!Reshape, Box!ByThen
  <2> QED BY DEF Box!Outside
<1> QED BY <1>2, <1>3, <1>4, <1>5

\* Nobody else commits while nobody else has begun anything.
LEMMA InboxCommitKeeps ==
  ASSUME InboxInv, NEW i \in Box!Messages, Box!Commit(i)
  PROVE  InboxInv'
<1> DEFINE x == msg[i].dated
           y == IF msg[i].there THEN x ELSE msg[i].read
           fresh == [there |-> TRUE, created |-> x, read |-> 0, dated |-> 0]
           kept == [msg[i] EXCEPT !.read = y, !.dated = 0]
           r == IF msg[i].created = 0 THEN fresh ELSE kept
           undone == Box!ByThen(x) \/ Box!ByThen(msg[i].read)
<1>0. x # 0 /\ Box!Reshape(undone) /\ UNCHANGED <<clock, page, patch, removal, shell, mishaps>>
  BY DEF Box!Commit
<1>1. msg' = [msg EXCEPT ![i] = r]
  <2>1. msg' = [msg EXCEPT ![i] =
                 IF msg[i].created = 0 THEN [there |-> TRUE, created |-> x, read |-> 0, dated |-> 0]
                 ELSE [msg[i] EXCEPT !.read = y, !.dated = 0]]
    BY ZenonT(30) DEF Box!Commit
  <2> QED BY <2>1, Zenon
<1>2. undone \in BOOLEAN
  BY Zenon
<1>3. ~ undone => ~ Box!ByThen(x) /\ ~ Box!ByThen(msg[i].read)
  OBVIOUS
<1>4. /\ msg[i] \in MsgRows /\ x \in Box!Time /\ x \in Nat /\ msg[i].read \in Box!Time /\ 0 \in Box!Time
      /\ y \in Box!Time /\ (msg[i].there => msg[i].created # 0) /\ ~ Box!ByThen(0) /\ walk.asOf \in Nat
  BY InboxFacts, NoneTyped DEF DatedInv, Box!ByThen
<1>5. (y = x \/ y = msg[i].read) /\ (~ Box!ByThen(x) => x > walk.asOf)
  BY <1>0, <1>4 DEF Box!ByThen
<1> HIDE DEF x, y, undone
<1>6. fresh \in MsgRows /\ fresh.there = TRUE /\ fresh.created = x /\ fresh.read = 0
  BY <1>4 DEF MsgRows
<1>7. kept \in MsgRows /\ kept.there = msg[i].there /\ kept.created = msg[i].created /\ kept.read = y
  <2>1. kept.there = msg[i].there /\ kept.created = msg[i].created /\ kept.read = y
    BY <1>4 DEF MsgRows
  <2>2. kept \in MsgRows
    BY <1>4 DEF MsgRows
  <2> QED BY <2>1, <2>2
<1> HIDE DEF fresh, kept
<1>8. /\ r \in MsgRows /\ (r.there => r.created # 0)
      /\ ~ undone => /\ ~ Box!ByThen(msg[i].read) /\ ~ Box!ByThen(r.read)
                     /\ (r.there /\ r.created <= walk.asOf) <=> (msg[i].there /\ msg[i].created <= walk.asOf)
  <2>1. CASE msg[i].created = 0
    BY <1>0, <1>3, <1>4, <1>5, <1>6, <2>1
  <2>2. CASE msg[i].created # 0
    BY <1>3, <1>4, <1>5, <1>7, <2>2
  <2> QED BY <2>1, <2>2
<1> HIDE DEF r
<1>9. msg' \in [Box!Messages -> MsgRows] /\ walk' \in Walks /\ DatedInv' /\ TilesInv'
  BY <1>0, <1>1, <1>2, <1>8, RowChanges
<1>10. ~ Untroubled'
  <2> SUFFICES ASSUME Untroubled' PROVE FALSE
    OBVIOUS
  <2>1. ~ walk'.overtaken => ~ walk.overtaken
    <3> DEFINE o == walk.overtaken \/ page.fetch.at = "answered"
    <3>1. walk'.overtaken = o
      BY <1>0, InboxFacts DEF Box!Reshape, Walks
    <3> QED BY <3>1
  <2>2. PatchesInv
    BY <1>0, <2>1, SmoothBefore
  <2> QED BY <1>0, <2>2 DEF PatchesInv, x
<1> QED BY <1>0, <1>9, <1>10, Outsider, InboxFacts

-------------------------------------------------------------------------------
(* The shell.                                                                *)

LEMMA ShellSet ==
  ASSUME NEW s \in Shells, NEW c \in Nat, NEW r, r = Box!SetUnread(s, c)
  PROVE  /\ r \in Shells /\ r.unread = c /\ r.again = s.again
         /\ r.request.at = s.request.at /\ r.request.stale
<1> DEFINE q == [s.request EXCEPT !.stale = TRUE]
<1>1. s.request \in Summaries
  BY DEF Shells
<1>2. q \in Summaries /\ q.at = s.request.at /\ q.stale = TRUE
  <2>1. q.at = s.request.at /\ q.stale = TRUE
    BY <1>1 DEF Summaries
  <2>2. q \in Summaries
    BY <1>1 DEF Summaries
  <2> QED BY <2>1, <2>2
<1>3. r = [s EXCEPT !.known = TRUE, !.unread = c, !.request = q]
  BY DEF Box!SetUnread, Shells
<1> HIDE DEF q
<1>4. r.unread = c /\ r.again = s.again /\ r.request = q
  BY <1>3 DEF Shells
<1>5. r \in Shells
  BY <1>2, <1>3 DEF Shells
<1> QED BY <1>2, <1>4, <1>5

LEMMA ShellAdjusts ==
  ASSUME NEW s \in Shells, NEW change, NEW r, r = Box!Adjust(s, change)
  PROVE  r \in Shells /\ r.again = s.again /\ r.request.at = s.request.at /\ r.request.stale
<1> DEFINE c == CASE change = "less" -> IF s.unread = 0 THEN 0 ELSE s.unread - 1
                  [] change = "more" -> s.unread + 1
                  [] OTHER -> s.unread
           q == [s.request EXCEPT !.stale = TRUE]
<1>1. s.request \in Summaries /\ s.unread \in Nat
  BY DEF Shells
<1>2. c \in Nat
  <2>1. CASE change = "less"
    BY <1>1, <2>1
  <2>2. CASE change = "more"
    BY <1>1, <2>2
  <2>3. CASE change \notin {"less", "more"}
    BY <1>1, <2>3
  <2> QED BY <2>1, <2>2, <2>3
<1>3. r = IF ~ s.known THEN [s EXCEPT !.request.stale = TRUE] ELSE Box!SetUnread(s, c)
  BY DEF Box!Adjust
<1> HIDE DEF c
<1>4. CASE s.known
  <2> DEFINE x == [s EXCEPT !.request.stale = TRUE]
             y == Box!SetUnread(s, c)
  <2>1. r = IF ~ s.known THEN x ELSE y
    BY <1>3
  <2> HIDE DEF x, y
  <2>2. r = y
    BY <1>4, <2>1, Zenon
  <2>3. r = Box!SetUnread(s, c)
    BY <2>2 DEF y
  <2> QED BY <1>2, <2>3, ShellSet
<1>5. CASE ~ s.known
  <2>1. q \in Summaries /\ q.at = s.request.at /\ q.stale = TRUE
    <3>1. q.at = s.request.at /\ q.stale = TRUE
      BY <1>1 DEF Summaries
    <3>2. q \in Summaries
      BY <1>1 DEF Summaries
    <3> QED BY <3>1, <3>2
  <2>2. r = [s EXCEPT !.request = q]
    BY <1>3, <1>5 DEF Shells
  <2> HIDE DEF q
  <2>3. r.again = s.again /\ r.request = q
    BY <2>2 DEF Shells
  <2>4. r \in Shells
    BY <2>1, <2>2 DEF Shells
  <2> QED BY <2>1, <2>3, <2>4
<1> QED BY <1>4, <1>5

LEMMA ShellRefreshes ==
  ASSUME NEW s \in Shells, NEW force \in BOOLEAN, NEW r, r = Box!refresh(s, force)
  PROVE  /\ r \in Shells /\ r.unread = s.unread
         /\ s.request.at # "none" => r.request = s.request /\ (r.again <=> (s.again \/ force))
         /\ s.request.at = "none" => r.request = Box!Requested
<1> DEFINE a == s.again \/ force
           q == Box!Requested
<1>1. a \in BOOLEAN
  BY Zenon DEF Shells
<1>2. q \in Summaries
  BY NoPatchTyped
<1>3. r = IF s.request.at # "none" THEN [s EXCEPT !.again = a] ELSE [s EXCEPT !.request = q]
  BY DEF Box!refresh
<1>4. a <=> (s.again \/ force)
  OBVIOUS
<1> HIDE DEF a, q
<1>5. CASE s.request.at # "none"
  <2>1. r = [s EXCEPT !.again = a]
    BY <1>3, <1>5
  <2>2. r \in Shells /\ r.unread = s.unread /\ r.request = s.request /\ r.again = a
    BY <1>1, <2>1 DEF Shells
  <2> QED BY <1>4, <1>5, <2>2
<1>6. CASE s.request.at = "none"
  <2>1. r = [s EXCEPT !.request = q]
    BY <1>3, <1>6
  <2>2. r \in Shells /\ r.unread = s.unread /\ r.request = q
    BY <1>2, <2>1 DEF Shells
  <2> QED BY <1>6, <2>2 DEF q
<1> QED BY <1>5, <1>6

LEMMA ShellFinishes ==
  ASSUME NEW s \in Shells, NEW r, r = Box!Finish(s)
  PROVE  /\ r \in Shells /\ r.unread = s.unread
         /\ s.again => r.request = Box!Requested
         /\ ~ s.again => r.request = Box!NoSummary
<1> DEFINE n == Box!NoSummary
           done == [s EXCEPT !.request = n, !.again = FALSE]
<1>1. n \in Summaries /\ n.at = "none"
  BY NoPatchTyped
<1>2. r = IF s.again THEN Box!refresh(done, FALSE) ELSE done
  BY DEF Box!Finish
<1> HIDE DEF n
<1>3. done \in Shells /\ done.unread = s.unread /\ done.request = n
  <2>1. done.unread = s.unread /\ done.request = n
    BY DEF Shells
  <2>2. done \in Shells
    BY <1>1 DEF Shells
  <2> QED BY <2>1, <2>2
<1> HIDE DEF done
<1>4. CASE s.again
  <2>1. r = Box!refresh(done, FALSE) /\ done.request.at = "none" /\ FALSE \in BOOLEAN
    BY <1>1, <1>2, <1>3, <1>4
  <2> QED BY <1>3, <1>4, <2>1, ShellRefreshes
<1>5. CASE ~ s.again
  BY <1>2, <1>3, <1>5 DEF n
<1> QED BY <1>4, <1>5

LEMMA InboxSummaryLands ==
  ASSUME InboxInv, Box!SummaryLands
  PROVE  InboxInv'
<1> DEFINE known == [shell EXCEPT !.known = TRUE, !.unread = shell.request.count]
           s == IF shell.request.stale THEN shell ELSE known
<1>0. /\ shell.request.at = "answered" /\ shell' = Box!Finish(s)
      /\ UNCHANGED <<clock, msg, page, patch, removal, mishaps, walk>>
  BY DEF Box!SummaryLands
<1>1. shell \in Shells /\ shell.request \in Summaries /\ shell.request.count \in Nat /\ shell.again \in BOOLEAN
  BY InboxFacts, InboxParts
<1>2. known \in Shells /\ known.unread = shell.request.count /\ known.again = shell.again
  BY <1>1 DEF Shells
<1> HIDE DEF known
<1>3. /\ s \in Shells /\ s.again = shell.again
      /\ s.unread = IF shell.request.stale THEN shell.unread ELSE shell.request.count
  BY <1>1, <1>2
<1> HIDE DEF s
<1>4. /\ shell' \in Shells /\ shell'.unread = s.unread
      /\ shell.again => shell'.request = Box!Requested
      /\ ~ shell.again => shell'.request = Box!NoSummary
  BY <1>0, <1>3, ShellFinishes
<1>5. InboxTyped'
  BY <1>0, <1>4, InboxFacts DEF InboxTyped
<1>6. DatedInv' /\ TilesInv'
  BY <1>0, PageStands DEF SameWalk
<1>7. Untroubled' => SmoothInv'
  <2> SUFFICES ASSUME Untroubled' PROVE SmoothInv'
    OBVIOUS
  <2>1. PatchesInv /\ OpensInv /\ RemovesInv /\ RowedInv /\ CountsInv
    BY <1>0, SmoothBefore
  <2>2. PatchesInv' /\ OpensInv' /\ RemovesInv' /\ RowedInv'
    BY <1>0, <2>1, PatchesSteady, OpensSteady, RemovesSteady, RowedSteady DEF RowedInv
  <2>3. UnreadNow' = UnreadNow /\ (Answering' <=> Answering)
    BY <1>0, SnapshotSteady DEF Answering
  <2>4. CountsInv'
    <3>1. /\ shell.again => shell'.request.at = "sent" /\ shell'.request.stale = FALSE
          /\ ~ shell.again => shell'.request.at = "none"
      BY <1>4, NoPatchTyped
    <3>2. page'.fetch.at = "answered" => page'.fetch.unread = UnreadNow'
      BY <1>0, <2>1, <2>3 DEF CountsInv
    <3>3. shell.again \/ shell'.unread = UnreadNow \/ Answering
      BY <1>0, <1>3, <1>4, <2>1 DEF CountsInv
    <3> QED BY <2>3, <3>1, <3>2, <3>3 DEF CountsInv
  <2> QED BY <2>2, <2>4 DEF SmoothInv
<1> QED BY <1>5, <1>6, <1>7 DEF InboxInv

-------------------------------------------------------------------------------
(* The page.                                                                 *)

LEMMA PagesCounted ==
  ASSUME NEW total \in Nat
  PROVE  Box!Pages(total) \in Nat \ {0}
<1> DEFINE x == (total + PageSize - 1) \div PageSize
<1>1. PageSize \in Nat /\ PageSize > 0 /\ total + PageSize - 1 \in Nat
  BY InboxNumbers
<1>2. x \in Int
  BY <1>1
<1> HIDE DEF x
<1>3. Box!Pages(total) = IF 1 < x THEN x ELSE 1
  BY DEF Box!Pages, Box!Greater, x
<1> QED BY <1>2, <1>3

LEMMA KeyTyped ==
  ASSUME NEW p \in InboxPages
  PROVE  Box!Key(p) \in InboxKeys /\ Box!Key(p) # <<>>
<1>1. Box!Key(p) = <<p.view, p.number, p.asOf>>
  BY DEF Box!Key
<1>2. p.view \in Box!Views /\ p.number \in Nat \ {0} /\ p.asOf \in Box!Time
  BY PageParts
<1>3. Box!Key(p) \in Box!Views \X (Nat \ {0}) \X Box!Time
  BY <1>1, <1>2
<1> QED BY <1>1, <1>3 DEF InboxKeys

\* What is on screen is the data of the page's key, or nothing.
LEMMA ShownIs ==
  ASSUME InboxInv
  PROVE  /\ Box!Shown \in Fetched /\ Box!Shown.items \in Seq(Box!Item) /\ Box!Shown.total \in Nat /\ Box!Shown.asOf \in Box!Time
         /\ page.data.key = Box!Key(page) => Box!Shown = page.data
         /\ page.data.key # Box!Key(page) => Box!Shown = Box!NoData /\ Box!Shown.items = <<>>
<1>1. page.data \in Fetched
  BY InboxFacts, PageParts
<1>2. Box!Shown \in Fetched
  BY <1>1, NoneTyped DEF Box!Shown
<1>3. /\ page.data.key = Box!Key(page) => Box!Shown = page.data
      /\ page.data.key # Box!Key(page) => Box!Shown = Box!NoData
  BY DEF Box!Shown
<1>4. Box!NoData.items = <<>>
  BY NoneTyped
<1>5. Box!Shown.items \in Seq(Box!Item) /\ Box!Shown.total \in Nat /\ Box!Shown.asOf \in Box!Time
  BY <1>2 DEF Fetched
<1> QED BY <1>2, <1>3, <1>4, <1>5

LEMMA MishapTold ==
  ASSUME InboxInv, Box!Fail
  PROVE  mishaps' \in Nat /\ ~ Untroubled'
  BY InboxFacts DEF Box!Fail, Untroubled

LEMMA InboxSummaryFails ==
  ASSUME InboxInv, Box!SummaryFails
  PROVE  InboxInv'
<1>0. Box!Fail /\ shell' = Box!Finish(shell) /\ UNCHANGED <<clock, msg, page, patch, removal, walk>>
  BY DEF Box!SummaryFails
<1>1. shell' \in Shells
  BY <1>0, InboxFacts, ShellFinishes
<1>2. mishaps' \in Nat /\ ~ Untroubled'
  BY <1>0, MishapTold
<1>3. DatedInv' /\ TilesInv'
  BY <1>0, PageStands DEF SameWalk
<1>4. InboxTyped'
  BY <1>0, <1>1, <1>2, InboxFacts DEF InboxTyped
<1> QED BY <1>2, <1>3, <1>4 DEF InboxInv

LEMMA InboxListFails ==
  ASSUME InboxInv, Box!ListFails
  PROVE  InboxInv'
<1> DEFINE n == Box!NoFetch
<1>0. /\ Box!Fail /\ page' = [page EXCEPT !.status = "error", !.fetch = n]
      /\ UNCHANGED <<clock, msg, patch, removal, shell, walk>>
  BY DEF Box!ListFails
<1>1. n \in Fetches /\ n.at = "none"
  BY NoneTyped
<1> HIDE DEF n
<1>2. page' \in InboxPages /\ page'.status = "error" /\ page'.fetch = n
  BY <1>0, <1>1, InboxFacts DEF InboxPages
<1>3. DatedInv' /\ TilesInv'
  BY <1>0, <1>1, <1>2, TilesWaiting DEF SameWalk
<1>4. mishaps' \in Nat /\ ~ Untroubled'
  BY <1>0, MishapTold
<1>5. InboxTyped'
  BY <1>0, <1>2, <1>4, InboxFacts DEF InboxTyped
<1> QED BY <1>3, <1>4, <1>5 DEF InboxInv

LEMMA InboxListLands ==
  ASSUME InboxInv, Box!ListLands
  PROVE  InboxInv'
<1> DEFINE f == page.fetch
           k == Box!Key(page)
           n == Box!NoFetch
           d == [key |-> k, items |-> f.items, total |-> f.total, asOf |-> f.asOf]
           ready == [page EXCEPT !.status = "ready", !.fetch = n, !.data = d]
           m == Box!Lesser(page.number - 1, Box!Pages(f.total))
           a == f.asOf
           moved == [ready EXCEPT !.number = m, !.asOf = a]
           empty == f.items = <<>> /\ page.number > 1
<1>0. /\ f.at = "answered" /\ page' = IF empty THEN Box!Load(moved) ELSE ready
      /\ shell' = Box!SetUnread(shell, f.unread)
      /\ UNCHANGED <<clock, msg, patch, removal, mishaps, walk>>
  BY DEF Box!ListLands
<1>1. /\ page \in InboxPages /\ f.items \in Seq(Box!Item) /\ f.total \in Nat /\ f.asOf \in Box!Time /\ f.unread \in Nat
      /\ n \in Fetches /\ n.at = "none" /\ k \in InboxKeys /\ page.number \in Nat \ {0}
  BY InboxFacts, PageParts, NoneTyped, KeyTyped
<1> HIDE DEF n, k
<1>2. d \in Fetched /\ d.key = k /\ d.items = f.items /\ d.asOf = f.asOf
  BY <1>1 DEF Fetched
<1> HIDE DEF d, f
<1>3. /\ ready.status = "ready" /\ ready.fetch = n /\ ready.data = d /\ ready.view = page.view
      /\ ready.number = page.number /\ ready.asOf = page.asOf /\ ready.open = page.open
  BY <1>1 DEF InboxPages
<1>4. ready \in InboxPages
  BY <1>1, <1>2 DEF InboxPages
<1> HIDE DEF ready
<1>5. ASSUME empty
      PROVE  moved \in InboxPages /\ moved.data = d /\ moved.open = page.open
  <2>1. Box!Pages(f.total) \in Nat \ {0} /\ page.number - 1 \in Nat \ {0}
    <3>1. f.total \in Nat /\ page.number \in Nat /\ page.number > 1
      BY <1>1, <1>5
    <3>2. Box!Pages(f.total) \in Nat \ {0}
      BY <3>1, PagesCounted
    <3> QED BY <3>1, <3>2
  <2>2. m \in Nat \ {0}
    BY <2>1 DEF Box!Lesser
  <2>3. a \in Box!Time
    BY <1>1
  <2> HIDE DEF m, a
  <2>4. moved.data = d /\ moved.open = page.open
    BY <1>3, <1>4 DEF InboxPages
  <2>5. moved \in InboxPages
    BY <1>4, <2>2, <2>3 DEF InboxPages
  <2> QED BY <2>4, <2>5
<1> HIDE DEF moved
<1>6. /\ page' \in InboxPages /\ page'.data = d /\ page'.open = page.open
      /\ page'.fetch.at \in {"none", "sent"}
      /\ IF empty THEN page'.status = "loading" ELSE page' = ready
  <2>1. CASE empty
    <3>1. page' \in InboxPages /\ SamePage(page', moved) /\ page'.status = "loading" /\ page'.fetch.at = "sent"
      BY <1>0, <1>5, <2>1, Loads
    <3> QED BY <1>5, <2>1, <3>1 DEF SamePage
  <2>2. CASE ~ empty
    BY <1>0, <1>1, <1>3, <1>4, <2>2
  <2> QED BY <2>1, <2>2
<1>7. SameWalk(walk', walk)
  BY <1>0 DEF SameWalk
<1>8. DatedInv' /\ TilesInv'
  <2>1. CASE empty
    BY <1>0, <1>6, <1>7, <2>1, TilesWaiting
  <2>2. CASE ~ empty
    <3>1. TilesInv /\ page' = ready
      BY <1>6, <2>2, InboxFacts
    <3>2. Box!Key(page)' = k
      BY <1>3, <3>1 DEF Box!Key, k
    <3>3. Snapshot(walk.view, walk.asOf)' = Snapshot(walk.view, walk.asOf)
      BY <1>0, SnapshotSteady
    <3>4. /\ Box!PageOf(walk.order, page.number)' = Box!PageOf(walk.order, page.number)
          /\ InboxIds(page.data.items)' = InboxIds(f.items)
      BY <1>0, <1>2, <1>3, <3>1, BoxSteady
    <3>5. Walked(page.data.asOf)' => Walked(f.asOf)
      BY <1>0, <1>2, <1>3, <3>1 DEF Walked
    <3>6. Walked(f.asOf) => InboxIds(f.items) = Box!PageOf(walk.order, page.number)
      BY <1>0, <3>1 DEF TilesInv, f
    <3>7. TilesInv'
      BY <1>0, <1>1, <1>2, <1>3, <3>1, <3>2, <3>3, <3>4, <3>5, <3>6 DEF TilesInv
    <3> QED BY <1>0, <3>7, DatedSteady
  <2> QED BY <2>1, <2>2
<1>9. /\ shell' \in Shells /\ shell'.unread = f.unread /\ shell'.again = shell.again
      /\ shell'.request.at = shell.request.at /\ shell'.request.stale
  <2>1. shell' = Box!SetUnread(shell, f.unread)
    BY <1>0
  <2>2. shell \in Shells /\ f.unread \in Nat
    BY <1>1, InboxFacts
  <2> QED BY <2>1, <2>2, ShellSet
<1>10. InboxTyped'
  BY <1>0, <1>6, <1>9, InboxFacts DEF InboxTyped
<1>11. Untroubled' => SmoothInv'
  <2> SUFFICES ASSUME Untroubled' PROVE SmoothInv'
    OBVIOUS
  <2>1. PatchesInv /\ OpensInv /\ RemovesInv /\ RowedInv /\ CountsInv
    BY <1>0, SmoothBefore
  <2>2. PatchesInv' /\ OpensInv'
    BY <1>0, <1>6, <2>1, PatchesSteady, OpensSteady
  <2>3. page'.data.key = Box!Key(page)' \/ page'.data.items = <<>>
    <3>1. CASE empty
      BY <1>2, <1>6, <3>1
    <3>2. CASE ~ empty
      <4>1. page' = ready
        BY <1>6, <3>2
      <4> QED BY <1>2, <1>3, <4>1 DEF Box!Key, k
    <3> QED BY <3>1, <3>2
  <2>4. RemovesInv'
    BY <1>0, <2>1, <2>3 DEF RemovesInv
  <2>5. RowedInv'
    <3>1. ShowsRows(f.items)
      BY <1>0, <2>1 DEF RowedInv, f
    <3>2. ShowsRows(page.data.items)' <=> ShowsRows(f.items)
      BY <1>0, <1>2, <1>6 DEF ShowsRows, Going
    <3> QED BY <1>6, <3>1, <3>2 DEF RowedInv
  <2>6. CountsInv'
    <3>1. UnreadNow' = UnreadNow
      BY <1>0, SnapshotSteady
    <3>2. shell'.unread = UnreadNow
      BY <1>0, <1>9, <2>1 DEF CountsInv, f
    <3> QED BY <1>6, <1>9, <3>1, <3>2 DEF CountsInv
  <2> QED BY <2>2, <2>4, <2>5, <2>6 DEF SmoothInv
<1> QED BY <1>8, <1>10, <1>11 DEF InboxInv

\* Whatever starts over, while nothing is being removed.
LEMMA PageLoads ==
  ASSUME InboxInv, NEW p \in InboxPages, page' = Box!Load(p),
         p.data = page.data, p.open = page.open, removal.target = 0,
         UNCHANGED <<clock, msg, patch, removal, shell, mishaps, walk>>
  PROVE  InboxInv'
<1>1. page' \in InboxPages /\ SamePage(page', p) /\ page'.status = "loading" /\ page'.fetch.at = "sent"
  BY Loads
<1>2. DatedInv' /\ TilesInv'
  BY <1>1, TilesWaiting DEF SameWalk
<1>3. InboxTyped'
  BY <1>1, InboxFacts DEF InboxTyped
<1>4. Untroubled' => SmoothInv'
  <2> SUFFICES ASSUME Untroubled' PROVE SmoothInv'
    OBVIOUS
  <2>1. PatchesInv /\ OpensInv /\ RemovesInv /\ RowedInv /\ CountsInv
    BY SmoothBefore
  <2>2. page'.data = page.data /\ page'.open = page.open
    BY <1>1 DEF SamePage
  <2>3. PatchesInv' /\ OpensInv' /\ RemovesInv' /\ RowedInv'
    BY <1>1, <2>1, <2>2, PatchesSteady, OpensSteady, RemovesSteady, RowedSteady
  <2>4. Answering' <=> Answering
    BY DEF Answering
  <2>5. CountsInv'
    BY <1>1, <2>1, <2>4, CountsSteady
  <2> QED BY <2>3, <2>5 DEF SmoothInv
<1> QED BY <1>2, <1>3, <1>4 DEF InboxInv

LEMMA InboxBrowseKeeps ==
  ASSUME InboxInv, Box!Browse
  PROVE  InboxInv'
<1>0. page \in InboxPages /\ page.number \in Nat \ {0}
  BY InboxFacts, PageParts
<1>1. removal.target = 0 /\ UNCHANGED <<clock, msg, patch, removal, shell, mishaps, walk>>
  BY DEF Box!Browse
<1>2. ASSUME NEW v \in Box!Views, page' = Box!Load([page EXCEPT !.view = v, !.number = 1, !.asOf = 0])
      PROVE  InboxInv'
  <2> DEFINE p == [page EXCEPT !.view = v, !.number = 1, !.asOf = 0]
  <2>1. p.data = page.data /\ p.open = page.open
    BY <1>0 DEF InboxPages
  <2>2. p \in InboxPages
    <3>1. 0 \in Box!Time /\ 1 \in Nat \ {0}
      BY NoneTyped
    <3> QED BY <1>0, <3>1 DEF InboxPages
  <2> HIDE DEF p
  <2>3. page' = Box!Load(p)
    BY <1>2 DEF p
  <2> QED BY <1>1, <2>1, <2>2, <2>3, PageLoads
<1>3. ASSUME NEW n \in Nat \ {0}, page' = Box!Load([page EXCEPT !.number = n, !.asOf = Box!Shown.asOf])
      PROVE  InboxInv'
  <2> DEFINE a == Box!Shown.asOf
             p == [page EXCEPT !.number = n, !.asOf = a]
  <2>0. a \in Box!Time
    BY ShownIs
  <2> HIDE DEF a
  <2>1. p.data = page.data /\ p.open = page.open
    BY <1>0 DEF InboxPages
  <2>2. p \in InboxPages
    BY <1>0, <2>0 DEF InboxPages
  <2> HIDE DEF p
  <2>3. page' = Box!Load(p)
    BY <1>3 DEF p, a
  <2> QED BY <1>1, <2>1, <2>2, <2>3, PageLoads
<1>4. ASSUME page' = Box!Load(page) PROVE InboxInv'
  BY <1>0, <1>1, <1>4, PageLoads
<1>5. \/ \E v \in Box!Views : page' = Box!Load([page EXCEPT !.view = v, !.number = 1, !.asOf = 0])
      \/ \E n \in {page.number - 1, page.number + 1} :
           n >= 1 /\ page' = Box!Load([page EXCEPT !.number = n, !.asOf = Box!Shown.asOf])
      \/ page' = Box!Load(page)
  <2> HIDE DEF Box!Load, Box!Shown
  <2> QED BY DEF Box!Browse
<1>6. \A n \in {page.number - 1, page.number + 1} : n >= 1 => n \in Nat \ {0}
  BY <1>0
<1> QED BY <1>2, <1>3, <1>4, <1>5, <1>6

\* A row on screen is one of the data of the page's key.
LEMMA RowShown ==
  ASSUME InboxInv, NEW item \in Box!Rows
  PROVE  /\ item \in Box!Item /\ item.id \in Box!Messages /\ item.read \in BOOLEAN
         /\ page.data.key = Box!Key(page)
         /\ \E n \in DOMAIN page.data.items : page.data.items[n] = item
<1> DEFINE items == Box!Shown.items
<1>1. items \in Seq(Box!Item)
  BY ShownIs
<1>2. PICK n \in 1 .. Len(items) : item = items[n]
  BY DEF Box!Rows
<1>3. page.data.key = Box!Key(page)
  <2> SUFFICES ASSUME page.data.key # Box!Key(page) PROVE FALSE
    OBVIOUS
  <2>1. items = <<>>
    BY ShownIs
  <2> HIDE DEF items
  <2> QED BY <1>2, <2>1
<1>4. items = page.data.items
  BY <1>3, ShownIs
<1> HIDE DEF items
<1>5. n \in DOMAIN items /\ item \in Box!Item /\ item.id \in Box!Messages /\ item.read \in BOOLEAN
  BY <1>1, <1>2, ItemsAre
<1> QED BY <1>2, <1>3, <1>4, <1>5

LEMMA RowActs ==
  ASSUME InboxInv, NEW item \in Box!Item, Box!Act(item)
  PROVE  /\ walk' \in Walks /\ SameWalk(walk', walk)
         /\ ~ walk'.overtaken => ~ walk.overtaken /\ (item.read <=> msg[item.id].read # 0)
<1> DEFINE b == msg[item.id].read # 0
           o == walk.overtaken \/ (item.read # b)
<1>0. item.read \in BOOLEAN /\ b \in BOOLEAN
  <2>1. item.read \in BOOLEAN
    BY DEF Box!Item
  <2>2. b \in BOOLEAN
    BY Zenon
  <2> QED BY <2>1, <2>2
<1>1. walk' = [walk EXCEPT !.overtaken = o]
  BY DEF Box!Act
<1> HIDE DEF b
<1>2. o \in BOOLEAN
  BY Zenon
<1>3. ~ o => ~ walk.overtaken /\ (item.read <=> b)
  BY <1>0
<1> HIDE DEF o
<1>4. walk' \in Walks /\ SameWalk(walk', walk) /\ walk'.overtaken = o
  BY <1>1, <1>2, InboxFacts DEF Walks, SameWalk
<1> QED BY <1>3, <1>4 DEF b

\* While nothing is being removed and nothing went wrong, a row on screen is there.
LEMMA RowStays ==
  ASSUME InboxInv, NEW item \in Box!Rows, removal.target = 0, RowedInv
  PROVE  msg[item.id].there
<1>1. PICK n \in DOMAIN page.data.items : page.data.items[n] = item
  BY RowShown
<1>2. msg[item.id].there \/ Going(item.id)
  BY <1>1 DEF RowedInv, ShowsRows
<1>3. removal.at = "none"
  BY InboxParts
<1> QED BY <1>2, <1>3 DEF Going

\* A request made for a message that no request was made for.
LEMMA PatchSent ==
  ASSUME InboxInv, PatchesInv, NEW i \in Box!Messages, NEW p \in InboxPatches, patch' = [patch EXCEPT ![i] = p],
         patch[i].at = "none", p.at = "sent", p.live, msg[i].there, UNCHANGED msg
  PROVE  /\ PatchesInv' /\ (Answering' <=> Answering)
         /\ \A j \in Box!Messages : patch[j].at # "none" => patch'[j].at # "none"
<1>1. /\ patch' \in [Box!Messages -> InboxPatches] /\ patch'[i] = p
      /\ \A j \in Box!Messages : j # i => patch'[j] = patch[j]
  BY PatchSet
<1>2. PatchesInv'
  <2> SUFFICES ASSUME NEW j \in Box!Messages, patch'[j].at # "none"
               PROVE  /\ patch'[j].live /\ patch'[j].at # "failed" /\ msg[j].there
                      /\ patch'[j].at = "read" => patch'[j].seen = msg[j].read
                      /\ patch'[j].at = "dated" => patch'[j].when # 0
                      /\ patch'[j].at = "answered" /\ patch'[j].want => msg[j].read # 0
    BY DEF PatchesInv
  <2>1. CASE j = i
    BY <1>1, <2>1
  <2>2. CASE j # i
    BY <1>1, <2>2 DEF PatchesInv
  <2> QED BY <2>1, <2>2
<1>3. Answering' <=> Answering
  BY <1>1 DEF Answering
<1> QED BY <1>1, <1>2, <1>3

LEMMA InboxToggleKeeps ==
  ASSUME InboxInv, NEW item \in Box!Rows, Box!toggle(item)
  PROVE  InboxInv'
<1> DEFINE i == item.id
           o == IF i \in page.open THEN page.open \ {i} ELSE page.open \cup {i}
           p == [Box!NoPatch EXCEPT !.at = "sent", !.want = TRUE]
           quiet == i \in page.open \/ item.read \/ patch[i].at # "none"
<1>0. /\ removal.target = 0 /\ page' = [page EXCEPT !.open = o]
      /\ patch' = IF quiet THEN patch ELSE [patch EXCEPT ![i] = p]
      /\ Box!Act(item) /\ UNCHANGED <<clock, msg, removal, shell, mishaps>>
  BY DEF Box!toggle
<1>1. /\ item \in Box!Item /\ i \in Box!Messages /\ page \in InboxPages /\ page.open \in SUBSET Box!Messages
      /\ patch \in [Box!Messages -> InboxPatches]
  BY RowShown, InboxFacts, PageParts
<1>2. p \in InboxPatches /\ p.at = "sent" /\ p.live
  <2> DEFINE n == Box!NoPatch
  <2>1. n \in InboxPatches /\ n.live
    BY NoPatchTyped DEF Box!NoPatch
  <2>2. p = [n EXCEPT !.at = "sent", !.want = TRUE]
    OBVIOUS
  <2> HIDE DEF n, p
  <2>3. p.at = "sent" /\ p.live
    BY <2>1, <2>2 DEF InboxPatches
  <2>4. p \in InboxPatches
    BY <2>1, <2>2 DEF InboxPatches
  <2> QED BY <2>3, <2>4
<1> HIDE DEF i, p
<1>3. o \in SUBSET Box!Messages
  BY <1>1
<1>4. \A j \in o : j \in page.open \/ (j = i /\ i \notin page.open)
  OBVIOUS
<1> HIDE DEF o
<1>5. /\ page' \in InboxPages /\ page'.open = o /\ page'.data = page.data /\ page'.fetch = page.fetch
      /\ SameList(page', page)
  BY <1>0, <1>1, <1>3 DEF InboxPages, SameList
<1>6. /\ walk' \in Walks /\ SameWalk(walk', walk)
      /\ ~ walk'.overtaken => ~ walk.overtaken /\ (item.read <=> msg[i].read # 0)
  BY <1>0, <1>1, RowActs DEF i
<1>7. DatedInv' /\ TilesInv'
  BY <1>0, <1>5, <1>6, TilesSteady
<1>8. patch' \in [Box!Messages -> InboxPatches]
  BY <1>0, <1>1, <1>2
<1>9. InboxTyped'
  BY <1>0, <1>5, <1>6, <1>8, InboxFacts DEF InboxTyped
<1>10. Untroubled' => SmoothInv'
  <2> SUFFICES ASSUME Untroubled' PROVE SmoothInv'
    OBVIOUS
  <2>1. /\ PatchesInv /\ OpensInv /\ RemovesInv /\ RowedInv /\ CountsInv
        /\ item.read <=> msg[i].read # 0
    <3>1. ~ walk'.overtaken
      BY DEF Untroubled
    <3> QED BY <1>0, <1>6, <3>1, SmoothBefore
  <2>2. msg[i].there
    BY <1>0, <2>1, RowStays DEF i
  <2>3. /\ PatchesInv' /\ (Answering' <=> Answering)
        /\ \A j \in Box!Messages : patch[j].at # "none" => patch'[j].at # "none"
        /\ quiet \/ patch'[i].at # "none"
    <3>1. CASE quiet
      <4>1. patch' = patch
        BY <1>0, <3>1
      <4> QED BY <1>0, <2>1, <3>1, <4>1, PatchesSteady DEF Answering
    <3>2. CASE ~ quiet
      <4>1. patch[i].at = "none" /\ patch' = [patch EXCEPT ![i] = p]
        BY <1>0, <3>2
      <4>2. patch'[i].at # "none"
        BY <1>1, <1>2, <4>1
      <4> QED BY <1>0, <1>1, <1>2, <2>1, <2>2, <4>1, <4>2, PatchSent
    <3> QED BY <3>1, <3>2
  <2>4. OpensInv'
    <3> SUFFICES ASSUME NEW j \in o PROVE msg[j].read # 0 \/ patch'[j].at # "none"
      BY <1>0, <1>5 DEF OpensInv
    <3>1. CASE j \in page.open
      BY <1>1, <2>1, <2>3, <3>1 DEF OpensInv
    <3>2. CASE j = i /\ i \notin page.open
      BY <1>1, <2>1, <2>3, <3>2
    <3> QED BY <1>4, <3>1, <3>2
  <2>5. RemovesInv'
    BY <1>0 DEF RemovesInv
  <2>6. RowedInv'
    BY <1>0, <1>5, <2>1, RowedSteady DEF RowedInv
  <2>7. CountsInv'
    BY <1>0, <1>5, <2>1, <2>3, CountsSteady
  <2> QED BY <2>3, <2>4, <2>5, <2>6, <2>7 DEF SmoothInv
<1> QED BY <1>7, <1>9, <1>10 DEF InboxInv

LEMMA InboxMarkKeeps ==
  ASSUME InboxInv, NEW item \in Box!Rows, Box!markUnread(item)
  PROVE  InboxInv'
<1> DEFINE i == item.id
           b == item.read
           p == [Box!NoPatch EXCEPT !.at = "sent", !.was = b]
<1>0. /\ removal.target = 0 /\ patch[i].at = "none" /\ patch' = [patch EXCEPT ![i] = p]
      /\ Box!Act(item) /\ UNCHANGED <<clock, msg, page, removal, shell, mishaps>>
  BY DEF Box!markUnread
<1>1. item \in Box!Item /\ i \in Box!Messages /\ b \in BOOLEAN /\ page.open \in SUBSET Box!Messages
  BY RowShown, InboxFacts, PageParts
<1>2. p \in InboxPatches /\ p.at = "sent" /\ p.live
  <2> HIDE DEF b
  <2> DEFINE n == Box!NoPatch
  <2>1. n \in InboxPatches /\ n.live
    BY NoPatchTyped DEF Box!NoPatch
  <2>2. p = [n EXCEPT !.at = "sent", !.was = b]
    OBVIOUS
  <2> HIDE DEF n, p
  <2>3. p.at = "sent" /\ p.live
    BY <2>1, <2>2 DEF InboxPatches
  <2>4. p \in InboxPatches
    BY <1>1, <2>1, <2>2 DEF InboxPatches
  <2> QED BY <2>3, <2>4
<1> HIDE DEF i, p, b
<1>3. /\ walk' \in Walks /\ SameWalk(walk', walk)
      /\ ~ walk'.overtaken => ~ walk.overtaken
  BY <1>0, <1>1, RowActs
<1>4. DatedInv' /\ TilesInv'
  BY <1>0, <1>3, PageStands
<1>5. patch' \in [Box!Messages -> InboxPatches]
  BY <1>0, <1>1, <1>2, PatchSet
<1>6. InboxTyped'
  BY <1>0, <1>3, <1>5, InboxFacts DEF InboxTyped
<1>7. Untroubled' => SmoothInv'
  <2> SUFFICES ASSUME Untroubled' PROVE SmoothInv'
    OBVIOUS
  <2>1. PatchesInv /\ OpensInv /\ RemovesInv /\ RowedInv /\ CountsInv
    <3>1. ~ walk'.overtaken
      BY DEF Untroubled
    <3> QED BY <1>0, <1>3, <3>1, SmoothBefore
  <2>2. msg[i].there
    BY <1>0, <2>1, RowStays DEF i
  <2>3. /\ PatchesInv' /\ (Answering' <=> Answering)
        /\ \A j \in Box!Messages : patch[j].at # "none" => patch'[j].at # "none"
    BY <1>0, <1>1, <1>2, <2>1, <2>2, PatchSent
  <2>4. OpensInv'
    BY <1>0, <1>1, <2>1, <2>3 DEF OpensInv
  <2>5. RemovesInv'
    BY <1>0 DEF RemovesInv
  <2>6. RowedInv'
    BY <1>0, <2>1, RowedSteady DEF RowedInv
  <2>7. CountsInv'
    BY <1>0, <2>1, <2>3, CountsSteady
  <2> QED BY <2>3, <2>4, <2>5, <2>6, <2>7 DEF SmoothInv
<1> QED BY <1>4, <1>6, <1>7 DEF InboxInv

LEMMA InboxOpenKeeps ==
  ASSUME InboxInv, NEW item \in Box!Rows, Box!OpenRemoval(item)
  PROVE  InboxInv'
<1> DEFINE i == item.id
           b == ~ item.read
<1>0. /\ removal.target = 0 /\ i \in page.open /\ patch[i].at = "none"
      /\ removal' = [target |-> i, unread |-> b, at |-> "none"]
      /\ Box!Act(item) /\ UNCHANGED <<clock, msg, page, patch, shell, mishaps>>
  BY DEF Box!OpenRemoval
<1>1. item \in Box!Item /\ i \in Box!Messages /\ page.data.key = Box!Key(page)
  BY RowShown
<1>2. b \in BOOLEAN
  BY Zenon
<1>3. b => ~ item.read
  OBVIOUS
<1> HIDE DEF i, b
<1>4. /\ removal' \in InboxRemovals /\ removal'.target = i /\ removal'.unread = b /\ removal'.at = "none"
  BY <1>0, <1>1, <1>2, InboxNumbers DEF InboxRemovals
<1>5. /\ walk' \in Walks /\ SameWalk(walk', walk)
      /\ ~ walk'.overtaken => ~ walk.overtaken /\ (item.read <=> msg[i].read # 0)
  BY <1>0, <1>1, RowActs DEF i
<1>6. DatedInv' /\ TilesInv'
  BY <1>0, <1>5, PageStands
<1>7. InboxTyped'
  BY <1>0, <1>4, <1>5, InboxFacts DEF InboxTyped
<1>8. Untroubled' => SmoothInv'
  <2> SUFFICES ASSUME Untroubled' PROVE SmoothInv'
    OBVIOUS
  <2>1. /\ PatchesInv /\ OpensInv /\ RemovesInv /\ RowedInv /\ CountsInv
        /\ item.read <=> msg[i].read # 0
    <3>1. ~ walk'.overtaken
      BY DEF Untroubled
    <3> QED BY <1>0, <1>5, <3>1, SmoothBefore
  <2>2. msg[i].read # 0 /\ ~ b
    BY <1>0, <1>3, <2>1 DEF OpensInv
  <2>3. PatchesInv' /\ OpensInv'
    BY <1>0, <2>1, PatchesSteady, OpensSteady
  <2>4. RemovesInv'
    <3>1. Box!Key(page)' = Box!Key(page)
      BY <1>0 DEF Box!Key
    <3> QED BY <1>0, <1>1, <1>4, <2>2, <3>1 DEF RemovesInv
  <2>5. RowedInv'
    <3>1. removal.at = "none"
      BY <1>0, InboxParts
    <3>2. \A j \in Box!Messages : (msg[j].there \/ Going(j)) => (msg'[j].there \/ Going(j)')
      BY <1>0, <3>1 DEF Going
    <3> QED BY <1>0, <2>1, <3>2, RowsThere
  <2>6. CountsInv'
    BY <1>0, <2>1, CountsSteady DEF Answering
  <2> QED BY <2>3, <2>4, <2>5, <2>6 DEF SmoothInv
<1> QED BY <1>6, <1>7, <1>8 DEF InboxInv

LEMMA InboxConfirmKeeps ==
  ASSUME InboxInv, Box!ConfirmRemoval
  PROVE  InboxInv'
<1> DEFINE n == Box!NoRemoval
<1>0. /\ removal.target # 0 /\ removal.at = "none"
      /\ removal' = n \/ removal' = [removal EXCEPT !.at = "sent"]
      /\ UNCHANGED <<clock, msg, page, patch, shell, mishaps, walk>>
  BY DEF Box!ConfirmRemoval
<1>1. n \in InboxRemovals /\ n.at = "none" /\ n.target = 0
  BY NoPatchTyped
<1> HIDE DEF n
<1>2. /\ removal' \in InboxRemovals /\ removal'.at # "answered"
      /\ \/ removal'.target = 0 /\ removal'.at = "none"
         \/ removal'.target = removal.target /\ removal'.unread = removal.unread
  <2>1. CASE removal' = n
    BY <1>1, <2>1
  <2>2. CASE removal' = [removal EXCEPT !.at = "sent"]
    BY <2>2, InboxFacts DEF InboxRemovals
  <2> QED BY <1>0, <2>1, <2>2
<1>3. DatedInv' /\ TilesInv'
  BY <1>0, PageStands DEF SameWalk
<1>4. InboxTyped'
  BY <1>0, <1>2, InboxFacts DEF InboxTyped
<1>5. Untroubled' => SmoothInv'
  <2> SUFFICES ASSUME Untroubled' PROVE SmoothInv'
    OBVIOUS
  <2>1. PatchesInv /\ OpensInv /\ RemovesInv /\ RowedInv /\ CountsInv
    BY <1>0, SmoothBefore
  <2>2. PatchesInv' /\ OpensInv'
    BY <1>0, <2>1, PatchesSteady, OpensSteady
  <2>3. RemovesInv'
    <3>1. Box!Key(page)' = Box!Key(page)
      BY <1>0 DEF Box!Key
    <3> QED BY <1>0, <1>2, <2>1, <3>1 DEF RemovesInv
  <2>4. RowedInv'
    <3>1. \A j \in Box!Messages : (msg[j].there \/ Going(j)) => (msg'[j].there \/ Going(j)')
      BY <1>0 DEF Going
    <3> QED BY <1>0, <2>1, <3>1, RowsThere
  <2>5. CountsInv'
    BY <1>0, <2>1, CountsSteady DEF Answering
  <2> QED BY <2>2, <2>3, <2>4, <2>5 DEF SmoothInv
<1> QED BY <1>3, <1>4, <1>5 DEF InboxInv

LEMMA InboxRemovalFails ==
  ASSUME InboxInv, Box!RemovalFails
  PROVE  InboxInv'
<1>0. /\ Box!Fail /\ removal' = [removal EXCEPT !.at = "none"]
      /\ UNCHANGED <<clock, msg, page, patch, shell, walk>>
  BY DEF Box!RemovalFails
<1>1. removal' \in InboxRemovals /\ removal'.at = "none"
  BY <1>0, InboxFacts DEF InboxRemovals
<1>2. DatedInv' /\ TilesInv'
  BY <1>0, PageStands DEF SameWalk
<1>3. mishaps' \in Nat /\ ~ Untroubled'
  BY <1>0, MishapTold
<1>4. InboxTyped'
  BY <1>0, <1>1, <1>3, InboxFacts DEF InboxTyped
<1> QED BY <1>2, <1>3, <1>4 DEF InboxInv

LEMMA WithoutIs ==
  ASSUME NEW items \in Seq(Box!Item), NEW id, NEW r, r = Box!Without(items, id)
  PROVE  /\ r \in Seq(Box!Item)
         /\ \A n \in DOMAIN r : \E m \in DOMAIN items : r[n] = items[m]
         /\ (\A m, n \in DOMAIN items : items[m].id = items[n].id => m = n) =>
              /\ \A n \in DOMAIN r : r[n].id # id
              /\ \A m, n \in DOMAIN r : r[m].id = r[n].id => m = n
<1> DEFINE places == {n \in DOMAIN items : items[n].id = id}
           at_ == CHOOSE n \in places : TRUE
           to(n) == IF n < at_ THEN n ELSE n + 1
           len == Len(items)
<1>1. r = IF places = {} THEN items
          ELSE [n \in 1 .. len - 1 |-> IF n < at_ THEN items[n] ELSE items[n + 1]]
  BY DEF Box!Without
<1>2. len \in Nat /\ DOMAIN items = 1 .. len /\ \A n \in 1 .. len : items[n] \in Box!Item
  OBVIOUS
<1>3. CASE places = {}
  <2>1. r = items /\ \A n \in DOMAIN items : items[n].id # id
    BY <1>1, <1>3
  <2> QED BY <2>1
<1>4. CASE places # {}
  <2>1. at_ \in places
    BY <1>4
  <2>2. at_ \in 1 .. len /\ items[at_].id = id
    BY <1>2, <2>1
  <2> HIDE DEF at_, places, len
  <2>3. \A n \in 1 .. len - 1 : to(n) \in 1 .. len /\ to(n) # at_ /\ n \in Int
    BY <1>2, <2>2
  <2>4. \A m, n \in 1 .. len - 1 : to(m) = to(n) => m = n
    BY <1>2, <2>2
  <2>5. r = [n \in 1 .. len - 1 |-> items[to(n)]] /\ len - 1 \in Nat
    BY <1>1, <1>2, <1>4, <2>2
  <2> HIDE DEF to
  <2>6. DOMAIN r = 1 .. len - 1 /\ \A n \in 1 .. len - 1 : r[n] = items[to(n)] /\ r[n] \in Box!Item
    BY <1>2, <2>3, <2>5
  <2>7. r \in Seq(Box!Item)
    BY <2>5, <2>6
  <2>8. \A n \in DOMAIN r : \E m \in DOMAIN items : r[n] = items[m]
    BY <1>2, <2>3, <2>6
  <2>9. ASSUME \A m, n \in DOMAIN items : items[m].id = items[n].id => m = n
        PROVE  /\ \A n \in DOMAIN r : r[n].id # id
               /\ \A m, n \in DOMAIN r : r[m].id = r[n].id => m = n
    <3>1. \A m, n \in 1 .. len : items[m].id = items[n].id => m = n
      BY <1>2, <2>9
    <3>2. \A n \in 1 .. len - 1 : items[to(n)].id # id
      BY <2>2, <2>3, <3>1
    <3>3. \A m, n \in 1 .. len - 1 : items[to(m)].id = items[to(n)].id => m = n
      BY <2>3, <2>4, <3>1
    <3> QED BY <2>6, <3>2, <3>3
  <2> QED BY <2>7, <2>8, <2>9
<1> QED BY <1>3, <1>4

LEMMA EditIs ==
  ASSUME NEW p \in InboxPages, NEW items \in Seq(Box!Item), NEW total \in Nat, NEW r, r = Box!Edit(p, items, total)
  PROVE  /\ r \in InboxPages /\ SamePage(r, [p EXCEPT !.data = r.data]) /\ r.status = p.status /\ r.fetch = p.fetch
         /\ r.data.key = p.data.key /\ r.data.asOf = p.data.asOf
         /\ p.data.key = Box!Key(p) => r.data.items = items
         /\ p.data.key # Box!Key(p) => r.data = p.data
<1> DEFINE d == [p.data EXCEPT !.items = items, !.total = total]
<1>1. p.data \in Fetched
  BY PageParts
<1>2. d.key = p.data.key /\ d.asOf = p.data.asOf /\ d.items = items
  BY <1>1 DEF Fetched
<1>3. d \in Fetched
  BY <1>1 DEF Fetched
<1>4. r = IF p.data.key = Box!Key(p) THEN [p EXCEPT !.data = d] ELSE p
  BY DEF Box!Edit, InboxPages
<1> HIDE DEF d
<1>5. CASE p.data.key = Box!Key(p)
  <2>1. r = [p EXCEPT !.data = d]
    BY <1>4, <1>5
  <2>2. r \in InboxPages /\ r.data = d /\ r.status = p.status /\ r.fetch = p.fetch /\ SamePage(r, [p EXCEPT !.data = r.data])
    BY <1>3, <2>1 DEF InboxPages, SamePage
  <2> QED BY <1>2, <1>5, <2>2
<1>6. CASE p.data.key # Box!Key(p)
  <2>1. r = p
    BY <1>4, <1>6
  <2>2. SamePage(r, [p EXCEPT !.data = r.data])
    BY <2>1 DEF InboxPages, SamePage
  <2> QED BY <1>6, <2>1, <2>2
<1> QED BY <1>5, <1>6

LEMMA InboxRemovalLands ==
  ASSUME InboxInv, Box!RemovalLands
  PROVE  InboxInv'
<1> DEFINE t == removal.target
           items == Box!Without(page.data.items, t)
           total == IF page.data.total = 0 THEN 0 ELSE page.data.total - 1
           e == Box!Edit(page, items, total)
           a == Box!Shown.asOf
           q == [e EXCEPT !.reloadAsOf = a]
           s == Box!Adjust(shell, "less")
<1>0. /\ removal.at = "answered" /\ page' = Box!Load(q) /\ removal' = Box!NoRemoval
      /\ shell' = (IF removal.unread THEN s ELSE shell)
      /\ UNCHANGED <<clock, msg, patch, mishaps, walk>>
  BY DEF Box!RemovalLands
<1>1. /\ page \in InboxPages /\ page.data.items \in Seq(Box!Item) /\ page.data.total \in Nat /\ a \in Box!Time
      /\ shell \in Shells /\ removal.unread \in BOOLEAN /\ t # 0
  BY <1>0, InboxFacts, InboxParts, PageParts, ShownIs
<1>2. total \in Nat
  BY <1>1
<1> HIDE DEF t, total, a
<1>3. /\ items \in Seq(Box!Item)
      /\ \A n \in DOMAIN items : \E m \in DOMAIN page.data.items : items[n] = page.data.items[m]
      /\ (\A m, n \in DOMAIN page.data.items : page.data.items[m].id = page.data.items[n].id => m = n) =>
           /\ \A n \in DOMAIN items : items[n].id # t
           /\ \A m, n \in DOMAIN items : items[m].id = items[n].id => m = n
  BY <1>1, WithoutIs
<1> HIDE DEF items
<1>4. /\ e \in InboxPages /\ SamePage(e, [page EXCEPT !.data = e.data])
      /\ page.data.key = Box!Key(page) => e.data.items = items
      /\ page.data.key # Box!Key(page) => e.data = page.data
  BY <1>1, <1>2, <1>3, EditIs
<1>5. e.open = page.open
  BY <1>1, <1>4 DEF SamePage, InboxPages
<1> HIDE DEF e
<1>6. q.data = e.data /\ q.open = e.open
  BY <1>4 DEF InboxPages
<1>7. q \in InboxPages
  BY <1>1, <1>4 DEF InboxPages
<1> HIDE DEF q
<1>8. /\ page' \in InboxPages /\ page'.data = e.data /\ page'.open = page.open
      /\ page'.status = "loading" /\ page'.fetch.at = "sent"
  <2>1. page' \in InboxPages /\ SamePage(page', q) /\ page'.status = "loading" /\ page'.fetch.at = "sent"
    BY <1>0, <1>7, Loads
  <2> QED BY <1>5, <1>6, <2>1 DEF SamePage
<1>9. DatedInv' /\ TilesInv'
  BY <1>0, <1>8, TilesWaiting DEF SameWalk
<1>10. removal' \in InboxRemovals /\ removal'.at = "none" /\ removal'.target = 0
  BY <1>0, NoPatchTyped
<1>11. s \in Shells
  BY <1>1, ShellAdjusts
<1> HIDE DEF s
<1>12. shell' \in Shells /\ (~ removal.unread => shell' = shell)
  BY <1>0, <1>1, <1>11
<1>13. InboxTyped'
  BY <1>0, <1>8, <1>10, <1>12, InboxFacts DEF InboxTyped
<1>14. Untroubled' => SmoothInv'
  <2> SUFFICES ASSUME Untroubled' PROVE SmoothInv'
    OBVIOUS
  <2>1. PatchesInv /\ OpensInv /\ RemovesInv /\ RowedInv /\ CountsInv
    BY <1>0, SmoothBefore
  <2>2. ~ removal.unread /\ (page.data.key = Box!Key(page) \/ page.data.items = <<>>)
    BY <1>1, <2>1 DEF RemovesInv, t
  <2>3. PatchesInv' /\ OpensInv'
    BY <1>0, <1>8, <2>1, PatchesSteady, OpensSteady
  <2>4. RemovesInv'
    BY <1>10 DEF RemovesInv
  <2>5. RowedInv'
    <3>1. ShowsRows(page.data.items)
      BY <2>1 DEF RowedInv
    <3>2. ASSUME page.data.key = Box!Key(page) PROVE ShowsRows(page.data.items)'
      <4>1. page'.data.items = items
        BY <1>4, <1>8, <3>2
      <4>2. \A n \in DOMAIN items : msg[items[n].id].there /\ items[n].id # t
        BY <1>3, <3>1 DEF ShowsRows, Going, t
      <4>3. \A m, n \in DOMAIN items : items[m].id = items[n].id => m = n
        BY <1>3, <3>1 DEF ShowsRows
      <4> QED BY <1>0, <4>1, <4>2, <4>3 DEF ShowsRows
    <3>3. ASSUME page.data.key # Box!Key(page) PROVE ShowsRows(page.data.items)'
      <4>1. page'.data.items = <<>>
        BY <1>4, <1>8, <2>2, <3>3
      <4> QED BY <4>1 DEF ShowsRows
    <3> QED BY <1>8, <3>2, <3>3 DEF RowedInv
  <2>6. CountsInv'
    BY <1>0, <1>8, <1>12, <2>1, <2>2, CountsSteady DEF Answering
  <2> QED BY <2>3, <2>4, <2>5, <2>6 DEF SmoothInv
<1> QED BY <1>9, <1>13, <1>14 DEF InboxInv

\* The request for a message is over.
LEMMA PatchDone ==
  ASSUME InboxInv, NEW i \in Box!Messages, patch' = [patch EXCEPT ![i] = Box!NoPatch]
  PROVE  /\ patch' \in [Box!Messages -> InboxPatches] /\ patch'[i].at = "none"
         /\ \A j \in Box!Messages : j # i => patch'[j] = patch[j]
  BY PatchSet, NoPatchTyped

LEMMA InboxPatchFails ==
  ASSUME InboxInv, NEW i \in Box!Messages, Box!PatchFails(i)
  PROVE  InboxInv'
<1>0. /\ \/ patch[i].at = "failed" /\ UNCHANGED mishaps
         \/ Box!Fail
      /\ patch' = [patch EXCEPT ![i] = Box!NoPatch]
      /\ UNCHANGED <<clock, msg, page, removal, shell, walk>>
  BY DEF Box!PatchFails
<1>1. patch' \in [Box!Messages -> InboxPatches]
  BY <1>0, PatchDone
<1>2. mishaps' \in Nat
  BY <1>0, MishapTold, InboxFacts
<1>3. DatedInv' /\ TilesInv'
  BY <1>0, PageStands DEF SameWalk
<1>4. InboxTyped'
  BY <1>0, <1>1, <1>2, InboxFacts DEF InboxTyped
<1>5. ~ Untroubled'
  <2>1. CASE Box!Fail
    BY <2>1, MishapTold
  <2>2. CASE patch[i].at = "failed" /\ UNCHANGED mishaps
    <3> SUFFICES ASSUME Untroubled' PROVE FALSE
      OBVIOUS
    <3>1. PatchesInv
      BY <1>0, <2>2, SmoothBefore
    <3> QED BY <2>2, <3>1 DEF PatchesInv
  <2> QED BY <1>0, <2>1, <2>2
<1> QED BY <1>3, <1>4, <1>5 DEF InboxInv

LEMMA InboxPatchLands ==
  ASSUME InboxInv, NEW i \in Box!Messages, Box!PatchLands(i)
  PROVE  InboxInv'
<1> DEFINE p == patch[i]
           want == p.want
           old == page.data.items
           len == Len(old)
           items == [n \in 1 .. len |-> IF old[n].id = i THEN [id |-> i, read |-> want] ELSE old[n]]
           change == IF p.want THEN "less" ELSE IF p.was THEN "more" ELSE "none"
           counted == IF change = "none" THEN shell ELSE Box!Adjust(shell, change)
           e == Box!Edit(page, items, page.data.total)
           o == IF want THEN e.open ELSE e.open \ {i}
           q == [e EXCEPT !.open = o]
<1>0. /\ p.at = "answered" /\ patch' = [patch EXCEPT ![i] = Box!NoPatch]
      /\ IF p.live THEN page' = q /\ shell' = Box!refresh(counted, TRUE) ELSE UNCHANGED <<page, shell>>
      /\ UNCHANGED <<clock, msg, removal, mishaps, walk>>
  BY DEF Box!PatchLands
<1>1. /\ page \in InboxPages /\ old \in Seq(Box!Item) /\ page.data.total \in Nat /\ shell \in Shells
      /\ want \in BOOLEAN /\ page.open \in SUBSET Box!Messages
  BY InboxFacts, InboxParts, PageParts
<1>2. counted \in Shells /\ counted.again = shell.again /\ counted.request.at = shell.request.at
  <2> HIDE DEF change
  <2> QED BY <1>1, ShellAdjusts
<1> HIDE DEF p, want, old, counted, change
<1>3. len \in Nat /\ DOMAIN old = 1 .. len /\ \A n \in 1 .. len : old[n] \in Box!Item
  BY <1>1
<1> HIDE DEF len
<1>4. \A n \in 1 .. len : items[n] \in Box!Item /\ items[n].id = old[n].id
  <2> TAKE n \in 1 .. len
  <2>1. CASE old[n].id = i
    <3>1. items[n] = [id |-> i, read |-> want]
      BY <2>1
    <3> QED BY <1>1, <2>1, <3>1 DEF Box!Item
  <2>2. CASE old[n].id # i
    BY <1>3, <2>2
  <2> QED BY <2>1, <2>2
<1>5. items \in Seq(Box!Item) /\ DOMAIN items = 1 .. len /\ Len(items) = len
  <2>1. DOMAIN items = 1 .. len
    OBVIOUS
  <2>2. items = [n \in 1 .. len |-> items[n]]
    OBVIOUS
  <2> HIDE DEF items
  <2>3. items \in [1 .. len -> Box!Item]
    BY <1>4, <2>1, <2>2
  <2> QED BY <1>3, <2>1, <2>3
<1> HIDE DEF items
<1>6. /\ e \in InboxPages /\ SamePage(e, [page EXCEPT !.data = e.data]) /\ e.status = page.status /\ e.fetch = page.fetch
      /\ e.data.key = page.data.key /\ e.data.asOf = page.data.asOf
      /\ e.data.items = items \/ e.data.items = old
  <2>1. page \in InboxPages /\ items \in Seq(Box!Item) /\ page.data.total \in Nat
    BY <1>1, <1>5
  <2>2. /\ e \in InboxPages /\ SamePage(e, [page EXCEPT !.data = e.data]) /\ e.status = page.status /\ e.fetch = page.fetch
        /\ e.data.key = page.data.key /\ e.data.asOf = page.data.asOf
        /\ page.data.key = Box!Key(page) => e.data.items = items
        /\ page.data.key # Box!Key(page) => e.data = page.data
    BY <2>1, EditIs
  <2> HIDE DEF e
  <2> QED BY <2>2 DEF old
<1>7. e.view = page.view /\ e.number = page.number /\ e.asOf = page.asOf /\ e.open = page.open
  BY <1>1, <1>6 DEF SamePage, InboxPages
<1> HIDE DEF e
<1>8. o \in SUBSET Box!Messages /\ o \subseteq page.open /\ (~ want => i \notin o)
  BY <1>1, <1>7
<1> HIDE DEF o
<1>9. /\ q.view = page.view /\ q.number = page.number /\ q.asOf = page.asOf /\ q.open = o /\ q.data = e.data
      /\ q.status = page.status /\ q.fetch = page.fetch
  BY <1>6, <1>7 DEF InboxPages
<1>10. q \in InboxPages
  BY <1>6, <1>8 DEF InboxPages
<1> HIDE DEF q
<1>11. /\ DOMAIN q.data.items = 1 .. len /\ Len(q.data.items) = len /\ \A n \in 1 .. len : q.data.items[n].id = old[n].id
  BY <1>3, <1>4, <1>5, <1>6, <1>9 DEF len
<1>12. InboxIds(q.data.items) = InboxIds(old)
  <2>1. InboxIds(q.data.items) = [n \in 1 .. len |-> q.data.items[n].id] /\ InboxIds(old) = [n \in 1 .. len |-> old[n].id]
    BY <1>11 DEF InboxIds, len
  <2> QED BY <1>11, <2>1
<1>13. /\ page' \in InboxPages /\ SameList(page', page)
  <2>1. CASE p.live
    BY <1>0, <1>6, <1>9, <1>10, <1>12, <2>1 DEF SameList, old
  <2>2. CASE ~ p.live
    BY <1>0, <1>1, <2>2 DEF SameList
  <2> QED BY <2>1, <2>2
<1>14. DatedInv' /\ TilesInv'
  BY <1>0, <1>13, TilesSteady DEF SameWalk
<1>15. /\ patch' \in [Box!Messages -> InboxPatches] /\ patch'[i].at = "none"
       /\ \A j \in Box!Messages : j # i => patch'[j] = patch[j]
  BY <1>0, PatchDone
<1>16. p.live =>
         /\ shell' \in Shells
         /\ shell.request.at # "none" => shell'.request = counted.request /\ shell'.again
         /\ shell.request.at = "none" => shell'.request = Box!Requested
  <2> SUFFICES ASSUME p.live
               PROVE  /\ shell' \in Shells
                      /\ shell.request.at # "none" => shell'.request = counted.request /\ shell'.again
                      /\ shell.request.at = "none" => shell'.request = Box!Requested
    OBVIOUS
  <2>1. shell' = Box!refresh(counted, TRUE) /\ TRUE \in BOOLEAN
    BY <1>0
  <2> QED BY <1>2, <2>1, ShellRefreshes
<1>17. shell' \in Shells
  BY <1>0, <1>1, <1>16
<1>18. InboxTyped'
  BY <1>0, <1>13, <1>15, <1>17, InboxFacts DEF InboxTyped
<1>19. Untroubled' => SmoothInv'
  <2> SUFFICES ASSUME Untroubled' PROVE SmoothInv'
    OBVIOUS
  <2>1. PatchesInv /\ OpensInv /\ RemovesInv /\ RowedInv /\ CountsInv
    BY <1>0, SmoothBefore
  <2>2. p.live /\ (want => msg[i].read # 0) /\ page' = q
    BY <1>0, <2>1 DEF PatchesInv, p, want
  <2>3. PatchesInv'
    <3> SUFFICES ASSUME NEW j \in Box!Messages, patch'[j].at # "none"
                 PROVE  /\ patch'[j].live /\ patch'[j].at # "failed" /\ msg[j].there
                        /\ patch'[j].at = "read" => patch'[j].seen = msg[j].read
                        /\ patch'[j].at = "dated" => patch'[j].when # 0
                        /\ patch'[j].at = "answered" /\ patch'[j].want => msg[j].read # 0
      BY <1>0, <2>1 DEF PatchesInv
    <3>1. j # i
      BY <1>15
    <3> QED BY <1>15, <2>1, <3>1 DEF PatchesInv
  <2>4. OpensInv'
    <3> SUFFICES ASSUME NEW j \in o PROVE msg[j].read # 0 \/ patch'[j].at # "none"
      BY <1>0, <1>9, <2>2 DEF OpensInv
    <3>1. CASE j = i
      BY <1>8, <2>2, <3>1
    <3>2. CASE j # i
      BY <1>8, <1>15, <2>1, <3>2 DEF OpensInv
    <3> QED BY <3>1, <3>2
  <2>5. RemovesInv'
    <3>1. removal.target # 0 => removal.target \in Box!Messages
      BY InboxParts, InboxNumbers
    <3>2. Box!Key(page)' = Box!Key(page)
      BY <1>9, <2>2 DEF Box!Key
    <3>3. page'.data.key = page.data.key /\ (old = <<>> => page'.data.items = <<>>)
      <4>1. old = <<>> => len = 0
        BY DEF len
      <4>2. q.data.items = items \/ q.data.items = old
        BY <1>6, <1>9
      <4>3. old = <<>> => items = <<>>
        BY <1>5, <4>1
      <4> QED BY <1>6, <1>9, <2>2, <4>2, <4>3
    <3> QED BY <1>0, <1>15, <2>1, <3>1, <3>2, <3>3 DEF RemovesInv, old
  <2>6. RowedInv'
    <3>1. ShowsRows(old)
      BY <2>1 DEF RowedInv, old
    <3>2. /\ \A n \in 1 .. len : msg[old[n].id].there \/ Going(old[n].id)
          /\ \A m, n \in 1 .. len : old[m].id = old[n].id => m = n
      BY <1>3, <3>1 DEF ShowsRows
    <3>3. ShowsRows(q.data.items)
      BY <1>11, <3>2 DEF ShowsRows
    <3>4. ShowsRows(page.data.items)'
      BY <1>0, <2>2, <3>3 DEF ShowsRows, Going
    <3>5. ShowsRows(page.fetch.items)' <=> ShowsRows(page.fetch.items)
      BY <1>0, <1>9, <2>2 DEF ShowsRows, Going
    <3> QED BY <1>9, <2>1, <2>2, <3>4, <3>5 DEF RowedInv
  <2>7. CountsInv'
    <3>1. UnreadNow' = UnreadNow
      BY <1>0, SnapshotSteady
    <3>2. page'.fetch = page.fetch
      BY <1>9, <2>2
    <3>3. /\ shell.request.at # "none" => shell'.request.at = shell.request.at /\ shell'.again
          /\ shell.request.at = "none" => shell'.request.at = "sent" /\ shell'.request.stale = FALSE
      BY <1>2, <1>16, <2>2, NoPatchTyped
    <3> QED BY <2>1, <3>1, <3>2, <3>3 DEF CountsInv
  <2> QED BY <2>3, <2>4, <2>5, <2>6, <2>7 DEF SmoothInv
<1> QED BY <1>14, <1>18, <1>19 DEF InboxInv

LEMMA InboxLeaveKeeps ==
  ASSUME InboxInv, Box!Leave
  PROVE  InboxInv'
<1> DEFINE active == \E i \in Box!Messages : patch[i].at # "none"
           none == Box!NoPatch
<1>0. /\ page' = Box!Unmounted /\ removal.target = 0 /\ UNCHANGED removal
      /\ mishaps' = IF active THEN Box!Greater(1, mishaps) ELSE mishaps
      /\ patch' = [i \in Box!Messages |-> IF patch[i].at = "none" THEN none ELSE [patch[i] EXCEPT !.live = FALSE]]
      /\ shell' = Box!refresh(shell, FALSE)
      /\ UNCHANGED <<clock, msg, walk>>
  BY DEF Box!Leave
<1>1. /\ page' \in InboxPages /\ page'.data = Box!NoData /\ page'.data.items = <<>>
      /\ page'.status = "loading" /\ page'.fetch.at = "none" /\ page'.open = {}
  BY <1>0, NoneTyped
<1>2. mishaps' \in Nat /\ (mishaps' = 0 => ~ active /\ mishaps = 0)
  <2> HIDE DEF active
  <2>1. mishaps \in Nat
    BY InboxFacts
  <2> QED BY <1>0, <2>1 DEF Box!Greater
<1>3. patch' \in [Box!Messages -> InboxPatches]
  <2>1. none \in InboxPatches
    BY NoPatchTyped
  <2> HIDE DEF none
  <2>2. \A i \in Box!Messages : patch[i] \in InboxPatches
    BY InboxFacts
  <2>3. \A i \in Box!Messages : [patch[i] EXCEPT !.live = FALSE] \in InboxPatches
    BY <2>2 DEF InboxPatches
  <2> QED BY <1>0, <2>1, <2>3
<1>4. /\ shell' \in Shells /\ shell'.unread = shell.unread
      /\ shell.request.at # "none" => shell'.request = shell.request /\ (shell'.again <=> shell.again)
      /\ shell.request.at = "none" => shell'.request = Box!Requested
  <2>1. FALSE \in BOOLEAN /\ shell \in Shells /\ shell' = Box!refresh(shell, FALSE)
    BY <1>0, InboxFacts
  <2> QED BY <2>1, ShellRefreshes
<1>5. DatedInv' /\ TilesInv'
  BY <1>0, <1>1, TilesWaiting DEF SameWalk
<1>6. InboxTyped'
  BY <1>0, <1>1, <1>2, <1>3, <1>4, InboxFacts DEF InboxTyped
<1>7. Untroubled' => SmoothInv'
  <2> SUFFICES ASSUME Untroubled' PROVE SmoothInv'
    OBVIOUS
  <2>1. CountsInv /\ PatchesInv /\ ~ active
    <3>1. Untroubled /\ ~ active
      BY <1>0, <1>2 DEF Untroubled
    <3> QED BY <3>1, InboxFacts DEF SmoothInv
  <2>2. \A j \in Box!Messages : patch[j].at = "none" /\ patch'[j].at = "none"
    <3>1. none.at = "none"
      BY NoPatchTyped
    <3> HIDE DEF none
    <3>2. \A j \in Box!Messages : patch[j].at = "none"
      BY <2>1
    <3> QED BY <1>0, <3>1, <3>2
  <2>3. PatchesInv' /\ OpensInv'
    <3>1. \A j \in Box!Messages : msg'[j].dated = 0
      BY <1>0, <2>1 DEF PatchesInv
    <3> QED BY <1>1, <2>2, <3>1 DEF PatchesInv, OpensInv
  <2>4. RemovesInv'
    BY <1>0 DEF RemovesInv
  <2>5. RowedInv'
    <3>1. ShowsRows(page.data.items)'
      BY <1>1 DEF ShowsRows
    <3> QED BY <1>1, <3>1 DEF RowedInv
  <2>6. CountsInv'
    <3>1. UnreadNow' = UnreadNow
      BY <1>0, SnapshotSteady
    <3>2. ~ Answering /\ ~ Answering'
      BY <2>2 DEF Answering
    <3>3. shell.request.at = "none" => shell'.request.at = "sent" /\ shell'.request.stale = FALSE
      BY <1>4, NoPatchTyped
    <3> QED BY <1>1, <1>4, <2>1, <3>1, <3>2, <3>3 DEF CountsInv
  <2> QED BY <2>3, <2>4, <2>5, <2>6 DEF SmoothInv
<1> QED BY <1>5, <1>6, <1>7 DEF InboxInv

\* The page as it mounts.
LEMMA MountedIs ==
  /\ Box!Mounted \in InboxPages /\ Box!Mounted.data.items = <<>> /\ Box!Mounted.open = {}
  /\ Box!Mounted.status = "loading" /\ Box!Mounted.fetch.at = "sent"
<1> DEFINE u == Box!Unmounted
           p == [u EXCEPT !.mounted = TRUE]
           r == Box!Mounted
<1>1. u \in InboxPages /\ u.data = Box!NoData /\ u.open = {} /\ Box!NoData.items = <<>>
  BY NoneTyped
<1>2. r = Box!Load(p)
  BY DEF Box!Mounted
<1> HIDE DEF u, r
<1>3. p.data = u.data /\ p.open = u.open
  BY <1>1 DEF InboxPages
<1>4. p \in InboxPages
  BY <1>1 DEF InboxPages
<1> HIDE DEF p
<1>5. r \in InboxPages /\ SamePage(r, p) /\ r.status = "loading" /\ r.fetch.at = "sent"
  BY <1>2, <1>4, Loads
<1> QED BY <1>1, <1>3, <1>5 DEF SamePage, r

LEMMA InboxReturnKeeps ==
  ASSUME InboxInv, Box!Return
  PROVE  InboxInv'
<1>0. page' = Box!Mounted /\ UNCHANGED <<clock, msg, patch, removal, shell, mishaps, walk>>
  BY DEF Box!Return
<1>1. /\ page' \in InboxPages /\ page'.data.items = <<>> /\ page'.open = {}
      /\ page'.status = "loading" /\ page'.fetch.at = "sent"
  BY <1>0, MountedIs
<1>2. DatedInv' /\ TilesInv'
  BY <1>0, <1>1, TilesWaiting DEF SameWalk
<1>3. InboxTyped'
  BY <1>0, <1>1, InboxFacts DEF InboxTyped
<1>4. Untroubled' => SmoothInv'
  <2> SUFFICES ASSUME Untroubled' PROVE SmoothInv'
    OBVIOUS
  <2>1. PatchesInv /\ OpensInv /\ RemovesInv /\ RowedInv /\ CountsInv
    BY <1>0, SmoothBefore
  <2>2. PatchesInv' /\ OpensInv' /\ RemovesInv' /\ RowedInv'
    BY <1>0, <1>1, <2>1, PatchesSteady, OpensSteady, RemovesSteady, RowedSteady
  <2>3. CountsInv'
    BY <1>0, <1>1, <2>1, CountsSteady DEF Answering
  <2> QED BY <2>2, <2>3 DEF SmoothInv
<1> QED BY <1>2, <1>3, <1>4 DEF InboxInv

-------------------------------------------------------------------------------
(* What holds throughout.                                                    *)

LEMMA InboxInit == Box!Init => InboxInv
<1> SUFFICES ASSUME Box!Init PROVE InboxInv
  OBVIOUS
<1> DEFINE none == Box!NoPatch
           request == Box!Requested
<1>0. /\ clock = Arrived
      /\ msg = [i \in Box!Messages |-> [there |-> i <= Arrived, created |-> IF i <= Arrived THEN i ELSE 0,
                                       read |-> 0, dated |-> 0]]
      /\ page = Box!Mounted /\ patch = [i \in Box!Messages |-> none] /\ removal = Box!NoRemoval
      /\ shell = [known |-> FALSE, unread |-> 0, request |-> request, again |-> FALSE]
      /\ mishaps = 0
      /\ walk = [asOf |-> 0, view |-> "all", order |-> <<>>, reshaped |-> FALSE, overtaken |-> FALSE]
  BY DEF Box!Init
<1>1. none \in InboxPatches /\ none.at = "none" /\ request \in Summaries /\ request.at = "sent" /\ request.stale = FALSE
  BY NoPatchTyped
<1> HIDE DEF none, request
<1>2. /\ page \in InboxPages /\ page.data.items = <<>> /\ page.open = {} /\ page.status = "loading" /\ page.fetch.at = "sent"
  BY <1>0, MountedIs
<1>3. removal \in InboxRemovals /\ removal.at = "none" /\ removal.target = 0
  BY <1>0, NoPatchTyped
<1>4. patch \in [Box!Messages -> InboxPatches] /\ \A i \in Box!Messages : patch[i].at = "none"
  BY <1>0, <1>1
<1>5. shell \in Shells /\ shell.request = request /\ shell.again = FALSE
  BY <1>0, <1>1 DEF Shells
<1>6. walk \in Walks /\ walk.asOf = 0 /\ walk.order = <<>> /\ walk.view = "all"
  <2>1. <<>> \in Seq(Box!Messages)
    OBVIOUS
  <2> QED BY <1>0, <2>1, NoneTyped DEF Walks
<1>7. /\ msg \in [Box!Messages -> MsgRows]
      /\ \A i \in Box!Messages : msg[i].dated = 0 /\ (msg[i].there => msg[i].created # 0)
  <2> DEFINE b(i) == i <= Arrived
             c(i) == IF i <= Arrived THEN i ELSE 0
  <2>1. \A i \in Box!Messages : b(i) \in BOOLEAN
    BY InboxNumbers
  <2>2. \A i \in Box!Messages : c(i) \in Box!Time /\ c(i) <= Arrived /\ (b(i) => c(i) # 0)
    BY InboxNumbers
  <2>3. msg = [i \in Box!Messages |-> [there |-> b(i), created |-> c(i), read |-> 0, dated |-> 0]]
    BY <1>0
  <2> HIDE DEF b, c
  <2>4. \A i \in Box!Messages : msg[i] \in MsgRows /\ msg[i].there = b(i) /\ msg[i].created = c(i) /\ msg[i].dated = 0
    <3> TAKE i \in Box!Messages
    <3> DEFINE v == b(i)
    <3>1. v \in BOOLEAN /\ msg[i] = [there |-> v, created |-> c(i), read |-> 0, dated |-> 0]
      BY <2>1, <2>3
    <3> HIDE DEF v
    <3>2. msg[i] \in MsgRows /\ msg[i].there = v /\ msg[i].created = c(i) /\ msg[i].dated = 0
      BY <2>2, <3>1, NoneTyped DEF MsgRows
    <3> QED BY <3>2 DEF v
  <2>5. msg \in [Box!Messages -> MsgRows]
    BY <2>3, <2>4
  <2> QED BY <1>0, <2>2, <2>4, <2>5, InboxNumbers
<1>8. InboxTyped
  <2>1. clock \in Box!Time /\ mishaps \in Nat
    BY <1>0, InboxNumbers
  <2> QED BY <1>2, <1>3, <1>4, <1>5, <1>6, <1>7, <2>1 DEF InboxTyped
<1>9. DatedInv
  BY <1>7 DEF DatedInv
<1>10. TilesInv
  <2> DEFINE S == Box!AsOf("all", 0)
             s == Box!Newest(S)
  <2>1. S = {}
    <3>1. \A i \in Box!Messages : ~ (msg[i].there /\ msg[i].created <= 0)
      BY <1>7, InboxNumbers DEF MsgRows
    <3> QED BY <3>1 DEF Box!AsOf
  <2>2. s \in Seq(Box!Messages) /\ Len(s) = 0
    <3>1. s \in Seq(Box!Messages) /\ Len(s) = Cardinality(S)
      <4>1. S \in SUBSET Box!Messages
        BY DEF Box!AsOf
      <4> HIDE DEF S
      <4> QED BY <4>1, NewestIs
    <3> QED BY <2>1, <3>1, FS_EmptySet
  <2> HIDE DEF S, s
  <2>3. s = <<>>
    BY <2>2
  <2>4. walk.order = Snapshot(walk.view, walk.asOf)
    BY <1>6, <2>3 DEF Snapshot, s, S
  <2> QED BY <1>2, <1>6, <2>4 DEF TilesInv
<1>11. SmoothInv
  <2>1. PatchesInv /\ OpensInv /\ RemovesInv
    BY <1>2, <1>3, <1>4, <1>7 DEF PatchesInv, OpensInv, RemovesInv
  <2>2. RowedInv
    BY <1>2 DEF RowedInv, ShowsRows
  <2>3. CountsInv
    BY <1>1, <1>2, <1>5 DEF CountsInv
  <2> QED BY <2>1, <2>2, <2>3 DEF SmoothInv
<1> QED BY <1>8, <1>9, <1>10, <1>11 DEF InboxInv

LEMMA InboxStep == InboxInv /\ Box!Next => InboxInv'
<1> SUFFICES ASSUME InboxInv, Box!Next PROVE InboxInv'
  OBVIOUS
<1>1. \/ Box!Browse \/ Box!Leave \/ Box!ConfirmRemoval \/ Box!Return
      \/ \E item \in Box!Rows : Box!toggle(item) \/ Box!markUnread(item) \/ Box!OpenRemoval(item)
      \/ Box!Server \/ Box!Landings
  BY DEF Box!Next, Box!User
<1>2. CASE Box!Browse \/ Box!Leave \/ Box!ConfirmRemoval \/ Box!Return
  BY <1>2, InboxBrowseKeeps, InboxLeaveKeeps, InboxConfirmKeeps, InboxReturnKeeps
<1>3. CASE \E item \in Box!Rows : Box!toggle(item) \/ Box!markUnread(item) \/ Box!OpenRemoval(item)
  BY <1>3, InboxToggleKeeps, InboxMarkKeeps, InboxOpenKeeps
<1>4. CASE Box!Server
  <2>1. \/ Box!ListCount \/ Box!ListRows \/ Box!ListUnread \/ Box!SummaryRead \/ Box!Delete \/ Box!Outside
        \/ \E i \in Box!Messages : Box!ReadRow(i) \/ Box!DateRead(i) \/ Box!SetRead(i) \/ Box!Commit(i)
    BY <1>4 DEF Box!Server
  <2> QED BY <2>1, InboxCountKeeps, InboxRowsKeeps, InboxUnreadKeeps, InboxSummaryKeeps, InboxDeleteKeeps,
             InboxOutsideKeeps, InboxReadKeeps, InboxDateKeeps, InboxSetKeeps, InboxCommitKeeps
<1>5. CASE Box!Landings
  <2>1. \/ Box!SummaryLands \/ Box!SummaryFails \/ Box!ListLands \/ Box!ListFails \/ Box!RemovalLands \/ Box!RemovalFails
        \/ \E i \in Box!Messages : Box!PatchLands(i) \/ Box!PatchFails(i)
    BY <1>5 DEF Box!Landings
  <2> QED BY <2>1, InboxSummaryLands, InboxSummaryFails, InboxListLands, InboxListFails, InboxRemovalLands,
             InboxRemovalFails, InboxPatchLands, InboxPatchFails
<1> QED BY <1>1, <1>2, <1>3, <1>4, <1>5

\* What the screens are to keep follows.
LEMMA InboxKeepsTrue == InboxInv => Box!TypeOK /\ Box!PagesTile /\ Box!BadgeSettles
<1> SUFFICES ASSUME InboxInv PROVE Box!TypeOK /\ Box!PagesTile /\ Box!BadgeSettles
  OBVIOUS
<1>1. Box!TypeOK
  <2>1. /\ page.view \in Box!Views /\ page.number \in Nat \ {0} /\ page.asOf \in Box!Time
        /\ page.status \in {"loading", "ready", "error"} /\ page.open \subseteq Box!Messages
        /\ page.data.items \in Seq(Box!Item) /\ page.fetch.items \in Seq(Box!Item)
    <3>1. page \in InboxPages
      BY InboxFacts
    <3> QED BY <3>1, PageParts
  <2> QED BY <2>1, InboxFacts DEF Box!TypeOK, InboxPatches, InboxRemovals, Shells, Summaries, MsgRows
<1>2. Box!PagesTile
  <2> SUFFICES ASSUME page.status = "ready", Box!Shown.asOf = walk.asOf, page.view = walk.view, ~ walk.reshaped
               PROVE  [n \in 1 .. Len(Box!Shown.items) |-> Box!Shown.items[n].id] = Box!PageOf(walk.order, page.number)
    BY DEF Box!PagesTile
  <2>1. page.data.key = Box!Key(page)
    BY InboxFacts DEF TilesInv
  <2>2. Box!Shown = page.data
    BY <2>1, ShownIs
  <2>3. Walked(page.data.asOf)
    BY <2>2 DEF Walked
  <2>4. InboxIds(page.data.items) = Box!PageOf(walk.order, page.number)
    BY <2>3, InboxFacts DEF TilesInv
  <2> QED BY <2>2, <2>4 DEF InboxIds
<1>3. Box!BadgeSettles
  <2> SUFFICES ASSUME Box!Quiet, mishaps = 0, ~ walk.overtaken PROVE shell.unread = Box!Cardinality(Box!Unread)
    BY DEF Box!BadgeSettles
  <2>1. CountsInv
    BY InboxFacts DEF Untroubled, SmoothInv
  <2>2. shell.request.at = "none" /\ ~ Answering
    BY DEF Box!Quiet, Answering
  <2> QED BY <2>1, <2>2 DEF CountsInv, UnreadNow
<1> QED BY <1>1, <1>2, <1>3

LEMMA InboxStands == InboxInv /\ UNCHANGED <<clock, msg, page, patch, removal, shell, mishaps, walk>> => InboxInv'
<1> SUFFICES ASSUME InboxInv, UNCHANGED <<clock, msg, page, patch, removal, shell, mishaps, walk>> PROVE InboxInv'
  OBVIOUS
<1>1. DatedInv' /\ TilesInv'
  BY PageStands DEF SameWalk
<1>2. InboxTyped'
  BY InboxFacts DEF InboxTyped
<1>3. Untroubled' => SmoothInv'
  <2> SUFFICES ASSUME Untroubled' PROVE SmoothInv'
    OBVIOUS
  <2>1. PatchesInv /\ OpensInv /\ RemovesInv /\ RowedInv /\ CountsInv
    BY SmoothBefore
  <2>2. PatchesInv' /\ OpensInv' /\ RemovesInv' /\ RowedInv'
    BY <2>1, PatchesSteady, OpensSteady, RemovesSteady, RowedSteady DEF RowedInv
  <2>3. CountsInv'
    BY <2>1, CountsSteady DEF Answering
  <2> QED BY <2>2, <2>3 DEF SmoothInv
<1> QED BY <1>1, <1>2, <1>3 DEF InboxInv

-------------------------------------------------------------------------------
(* The parts together.                                                       *)

ListAll == part = "lists" => ListInv
EditAll == part = "editing" => EditInv
InboxAll == part = "inbox" => InboxInv

LEMMA ScreensInit == Init => ListAll /\ EditAll /\ InboxAll
<1>1. Init => ListAll
  BY ListInit DEF Init, ListAll
<1>2. Init => EditAll
  BY EditInit DEF Init, EditAll
<1>3. Init => InboxAll
  BY InboxInit DEF Init, InboxAll
<1> QED BY <1>1, <1>2, <1>3

LEMMA ListHolds == ListAll /\ [Next]_vars => ListAll'
<1> SUFFICES ASSUME ListAll, [Next]_vars, part' = "lists" PROVE ListInv'
  BY DEF ListAll
<1>1. part = "lists" /\ (List!Next \/ UNCHANGED lists)
  BY DEF Next, Others, vars
<1> QED BY <1>1, ListStep, ListStands DEF ListAll

LEMMA EditHolds == EditAll /\ [Next]_vars => EditAll'
<1> SUFFICES ASSUME EditAll, [Next]_vars, part' = "editing" PROVE EditInv'
  BY DEF EditAll
<1>1. part = "editing" /\ (Form!Next \/ UNCHANGED editing)
  BY DEF Next, Others, vars
<1> QED BY <1>1, EditStep, EditStands DEF EditAll

LEMMA InboxHolds == InboxAll /\ [Next]_vars => InboxAll'
<1> SUFFICES ASSUME InboxAll, [Next]_vars, part' = "inbox" PROVE InboxInv'
  BY DEF InboxAll
<1>1. part = "inbox" /\ (Box!Next \/ UNCHANGED inbox)
  BY DEF Next, Others, vars
<1>2. InboxInv
  BY <1>1 DEF InboxAll
<1>3. CASE Box!Next
  BY <1>2, <1>3, InboxStep
<1>4. CASE UNCHANGED inbox
  <2>1. UNCHANGED <<clock, msg, page, patch, removal, shell, mishaps, walk>>
    BY <1>4 DEF inbox
  <2> QED BY <1>2, <2>1, InboxStands
<1> QED BY <1>1, <1>3, <1>4

PartFollowed == part \in Parts

LEMMA PartHolds == (Init => PartFollowed) /\ (PartFollowed /\ [Next]_vars => PartFollowed')
<1>1. Init => PartFollowed
  BY DEF Init, PartFollowed
<1>2. PartFollowed /\ [Next]_vars => PartFollowed'
  BY DEF PartFollowed, Next, Others, vars, Parts
<1> QED BY <1>1, <1>2

\* Every variable of every part has its type, for any number of messages, rows,
\* tokens, sessions, files and attempts: no list or draft outgrows its bound, no badge
\* goes below zero and no page is numbered 0 (MessagesPage.tsx, AdminLayout.tsx).
THEOREM TypeCorrect == Spec => []TypeOK
<1>1. PartFollowed /\ SenderAll /\ DoorAll /\ SecurityAll /\ FilesAll /\ QuestionAll /\ AttemptsAll
      /\ ListAll /\ EditAll /\ InboxAll => TypeOK
  <2> SUFFICES ASSUME PartFollowed, SenderAll, DoorAll, SecurityAll, FilesAll, QuestionAll, AttemptsAll,
                      ListAll, EditAll, InboxAll
               PROVE  TypeOK
    OBVIOUS
  <2>1. /\ part = "contact" => Sender!TypeOK
        /\ part = "door" => Door!TypeOK
    BY DEF SenderAll, DoorAll, SenderInv, DoorInv
  <2>2. /\ part = "security" => Second!TypeOK
        /\ part = "asking" => Question!TypeOK
    BY DEF SecurityAll, QuestionAll, SecurityInv, QuestionInv
  <2>3. /\ part = "files" => File!TypeOK
        /\ part = "attempts" => Gate!TypeOK
    BY FilesKeepTrue, AttemptsKeepTrue DEF FilesAll, AttemptsAll
  <2>4. /\ part = "lists" => List!TypeOK
        /\ part = "editing" => Form!TypeOK
        /\ part = "inbox" => Box!TypeOK
    BY ListKeepsTrue, EditKeepsTrue, InboxKeepsTrue DEF ListAll, EditAll, InboxAll
  <2> QED BY <2>1, <2>2, <2>3, <2>4 DEF PartFollowed, TypeOK
<1> QED BY <1>1, PartsInit, ScreensInit, PartHolds, SenderHolds, DoorHolds, SecurityHolds, FilesHolds,
           QuestionHolds, AttemptsHolds, ListHolds, EditHolds, InboxHolds, PTL DEF Spec

\* Paging through the inbox shows the messages of its moment, each once, however long
\* the list, however large a page and whatever arrives or is read in between, but for
\* deletions, reset marks and what was dated by that moment and committed after it
\* (services/messages.py list_messages); and a removed file is not served
\* (api/v1/files.py).
THEOREM ReadsCorrect == Spec => []ReadsTrue
<1>1. InboxAll /\ FilesAll => ReadsTrue
  BY InboxKeepsTrue, FilesKeepTrue DEF InboxAll, FilesAll, ReadsTrue
<1> QED BY <1>1, PartsInit, ScreensInit, InboxHolds, FilesHolds, PTL DEF Spec

\* Once everything is answered, and with the exceptions that each property names, the
\* badge counts the unread messages (AdminLayout.tsx), the lists show their rows in
\* their order (ContentList.tsx; not after a Retry that overlapped a move), the CV and
\* security pages what the server has and the dialog its question; and an error of the form is
\* at the row it is about, however the rows were added, moved and removed
\* (BulletsEditor.tsx, TagListEditor.tsx).
THEOREM ScreensCorrect == Spec => []ScreensTrue
<1>1. InboxAll /\ ListAll /\ FilesAll /\ SecurityAll /\ QuestionAll /\ EditAll => ScreensTrue
  BY InboxKeepsTrue, ListKeepsTrue, FilesKeepTrue, SecurityKeepsTrue, QuestionKeepsTrue, EditKeepsTrue
     DEF InboxAll, ListAll, FilesAll, SecurityAll, QuestionAll, EditAll, ScreensTrue
<1> QED BY <1>1, PartsInit, ScreensInit, InboxHolds, ListHolds, FilesHolds, SecurityHolds, QuestionHolds,
           EditHolds, PTL DEF Spec

===============================================================================
