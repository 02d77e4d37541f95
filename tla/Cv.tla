---------------------------------- MODULE Cv ----------------------------------
(***************************************************************************)
(* The downloadable CV: the one file of its kind that the server keeps     *)
(* (services/files.py replace_cv, delete_cv), its downloads with the body  *)
(* cache in front of the database (api/v1/files.py get_file), and the page *)
(* that uploads and removes it (pages/CvPage.tsx, hooks/useFileUpload.ts). *)
(*                                                                         *)
(* A file is its id: a new upload gets a new one, and its bytes never      *)
(* change under it.                                                        *)
(***************************************************************************)
EXTENDS Naturals, Sequences

CONSTANTS
  MaxFiles,        (* Bound: files ever stored.                              *)
  Capacity,        (* FILE_BODY_CACHE's, in files.                           *)
  MaxFaults        (* Bound: failures, changes in other tabs, uploads left.  *)
Bounds == MaxFiles \in Nat \ {0} /\ Capacity \in Nat /\ MaxFaults \in Nat

VARIABLES
  cv,              (* The stored CV, 0 for none.                             *)
  ids,             (* How many files have been stored.                       *)
  bodies,          (* The body cache, least recently used first.             *)
  get,             (* A download: [at, id, late, own].                       *)
  shown,           (* The page: [status, cv, loading].                       *)
  uploads,         (* The tab's uploads: [at, id, live].                     *)
  dialog,          (* The removal: [asked, at].                              *)
  faults,
  crossed          (* History: the CV was removed during an upload.          *)

vars == <<cv, ids, bodies, get, shown, uploads, dialog, faults, crossed>>
database == <<cv, ids>>
panel == <<shown, uploads, dialog, faults, crossed>>

Files == 1..MaxFiles
Uploads == 1..2
NoGet == [at |-> "none", id |-> 0, late |-> FALSE, own |-> FALSE]
NoUpload == [at |-> "none", id |-> 0, live |-> FALSE]
NoDialog == [asked |-> FALSE, at |-> "none"]
Opened == [status |-> "loading", cv |-> 0, loading |-> [at |-> "sent", cv |-> 0]]
Loaded == [at |-> "none", cv |-> 0]

Init ==
  /\ cv \in 0..1 /\ ids = cv /\ bodies = <<>> /\ get = NoGet
  /\ shown = Opened /\ uploads = [u \in Uploads |-> NoUpload] /\ dialog = NoDialog
  /\ faults = 0 /\ crossed = FALSE

Fault == faults < MaxFaults /\ faults' = faults + 1

-------------------------------------------------------------------------------
(* Downloads: the metadata is read on every request, the body once.          *)

\* Anyone, with any link; a browser that has the file asks with its ETag.
Ask ==
  /\ get.at = "none"
  /\ \E id \in 1..ids, own \in BOOLEAN :
       get' = [at |-> "meta", id |-> id, late |-> id # cv, own |-> own]
  /\ UNCHANGED <<database, bodies, panel>>

Places(id) == {n \in DOMAIN bodies : bodies[n] = id}
Discarded(id) ==
  LET place == CHOOSE n \in Places(id) : TRUE
  IN IF Places(id) = {} THEN bodies ELSE [n \in 1 .. Len(bodies) - 1 |-> bodies[IF n < place THEN n ELSE n + 1]]
Cached == Places(get.id) # {}
Put(id) == LET all == Append(Discarded(id), id) IN IF Len(all) > Capacity THEN Tail(all) ELSE all

\* Mutant: the body cache is asked before the metadata.
GetMetaCached ==
  /\ get.at = "meta"
  /\ get' = [get EXCEPT !.at = IF Cached THEN "served" ELSE IF get.id # cv THEN "missing" ELSE IF get.own THEN "served" ELSE "body"]
  /\ UNCHANGED <<database, bodies, panel>>

\* get_file_meta: a removed file is a 404, and its body forgotten; an ETag that
\* matches is a 304.
GetMeta ==
  /\ get.at = "meta"
  /\ IF get.id # cv THEN get' = [get EXCEPT !.at = "missing"] /\ bodies' = Discarded(get.id)
     ELSE get' = [get EXCEPT !.at = IF get.own THEN "served" ELSE "body"] /\ UNCHANGED bodies
  /\ UNCHANGED <<database, panel>>

\* The cached body, most recently used now; or the database's, if it is still there.
GetBody ==
  /\ get.at = "body"
  /\ IF Cached \/ get.id = cv THEN get' = [get EXCEPT !.at = IF Cached THEN "served" ELSE "read"]
     ELSE get' = [get EXCEPT !.at = "missing"]
  /\ bodies' = IF Cached THEN Append(Discarded(get.id), get.id) ELSE bodies
  /\ UNCHANGED <<database, panel>>

\* What was read is cached, though the file may have gone since.
PutBody ==
  /\ get.at = "read" /\ get' = [get EXCEPT !.at = "served"] /\ bodies' = Put(get.id)
  /\ UNCHANGED <<database, panel>>

Answer ==
  /\ get.at \in {"served", "missing"} /\ get' = NoGet
  /\ UNCHANGED <<database, bodies, panel>>

-------------------------------------------------------------------------------
(* The server's changes, one after the other under the CV lock.              *)

Replace == ids < MaxFiles /\ ids' = ids + 1 /\ cv' = ids + 1

\* validate_cv, and the transaction: the new file in the old one's place.
Store(u) ==
  /\ uploads[u].at = "sent"
  /\ \/ uploads' = [uploads EXCEPT ![u].at = "refused"] /\ UNCHANGED database
     \/ Replace /\ uploads' = [uploads EXCEPT ![u].at = "stored", ![u].id = ids + 1]
  /\ UNCHANGED <<bodies, get, shown, dialog, faults, crossed>>

\* The refresh after the commit fails if the file is already gone.
Refresh(u) ==
  /\ uploads[u].at = "stored"
  /\ uploads' = [uploads EXCEPT ![u].at = IF cv = uploads[u].id THEN "answered" ELSE "refused"]
  /\ UNCHANGED <<database, bodies, get, shown, dialog, faults, crossed>>

DeleteCv ==
  /\ dialog.at = "sent" /\ dialog' = [dialog EXCEPT !.at = "answered"] /\ cv' = 0
  /\ UNCHANGED <<ids, bodies, get, shown, uploads, faults, crossed>>

ReadCv ==
  /\ shown.loading.at = "sent" /\ shown' = [shown EXCEPT !.loading = [at |-> "answered", cv |-> cv]]
  /\ UNCHANGED <<database, bodies, get, uploads, dialog, faults, crossed>>

\* Another tab.
Outside ==
  /\ Fault /\ (Replace \/ (cv' = 0 /\ cv # 0 /\ UNCHANGED ids))
  /\ UNCHANGED <<bodies, get, shown, uploads, dialog, crossed>>

-------------------------------------------------------------------------------
(* The page.                                                                 *)

CvLands ==
  /\ shown.loading.at = "answered"
  /\ shown' = [status |-> "ready", cv |-> shown.loading.cv, loading |-> Loaded]
  /\ UNCHANGED <<database, bodies, get, uploads, dialog, faults, crossed>>

CvFails ==
  /\ shown.loading.at # "none" /\ Fault /\ shown' = [shown EXCEPT !.status = "error", !.loading = Loaded]
  /\ UNCHANGED <<database, bodies, get, uploads, dialog, crossed>>

retry ==
  /\ shown.status = "error" /\ shown' = Opened
  /\ UNCHANGED <<database, bodies, get, uploads, dialog, faults, crossed>>

Live == {u \in Uploads : uploads[u].at # "none" /\ uploads[u].live}

\* Mutant: a new pick aborts the upload under way and takes its place.
onChangeAnew ==
  /\ shown.status = "ready" /\ ~dialog.asked
  /\ \E u \in Uploads :
       /\ uploads[u].at = "none"
       /\ uploads' = [v \in Uploads |-> IF v = u THEN [NoUpload EXCEPT !.at = "sent", !.live = TRUE]
                                        ELSE [uploads[v] EXCEPT !.live = FALSE]]
  /\ UNCHANGED <<database, bodies, get, shown, dialog, faults, crossed>>

\* A file is picked: refused while one is on its way, or by the check; or sent.
onChange ==
  /\ shown.status = "ready" /\ ~dialog.asked /\ Live = {}
  /\ \E u \in Uploads :
       uploads[u].at = "none" /\ uploads' = [uploads EXCEPT ![u] = [NoUpload EXCEPT !.at = "sent", !.live = TRUE]]
  /\ UNCHANGED <<database, bodies, get, shown, dialog, faults, crossed>>

\* The answer is shown; one that is not heard of leaves what was shown.
UploadLands(u) ==
  /\ uploads[u].at \in {"answered", "refused"} /\ uploads' = [uploads EXCEPT ![u] = NoUpload]
  /\ shown' = IF uploads[u].live /\ uploads[u].at = "answered" THEN [shown EXCEPT !.cv = uploads[u].id] ELSE shown
  /\ UNCHANGED <<database, bodies, get, dialog, faults, crossed>>

UploadFails(u) ==
  /\ uploads[u].at # "none" /\ Fault /\ uploads' = [uploads EXCEPT ![u] = NoUpload]
  /\ UNCHANGED <<database, bodies, get, shown, dialog, crossed>>

\* The removal, which does not wait for an upload.
openRemoval ==
  /\ shown.status = "ready" /\ shown.cv # 0 /\ ~dialog.asked /\ dialog' = [NoDialog EXCEPT !.asked = TRUE]
  /\ UNCHANGED <<database, bodies, get, shown, uploads, faults, crossed>>

confirm ==
  /\ dialog.asked /\ dialog.at = "none" /\ dialog' \in {NoDialog, [dialog EXCEPT !.at = "sent"]}
  /\ crossed' = (crossed \/ (dialog'.asked /\ Live # {}))
  /\ UNCHANGED <<database, bodies, get, shown, uploads, faults>>

RemovalLands ==
  /\ dialog.at = "answered" /\ dialog' = NoDialog /\ shown' = [shown EXCEPT !.cv = 0]
  /\ UNCHANGED <<database, bodies, get, uploads, faults, crossed>>

RemovalFails ==
  /\ dialog.at # "none" /\ Fault /\ dialog' = [dialog EXCEPT !.at = "none"]
  /\ UNCHANGED <<database, bodies, get, shown, uploads, crossed>>

\* The page is left and opened again: its upload is aborted, not undone.
Leave ==
  /\ ~dialog.asked /\ Fault /\ shown' = Opened
  /\ uploads' = [u \in Uploads |-> [uploads[u] EXCEPT !.live = FALSE]]
  /\ UNCHANGED <<database, bodies, get, dialog, crossed>>

Next ==
  \/ Ask \/ GetMeta \/ GetBody \/ PutBody \/ Answer
  \/ DeleteCv \/ ReadCv \/ Outside
  \/ \E u \in Uploads : Store(u) \/ Refresh(u) \/ UploadLands(u) \/ UploadFails(u)
  \/ CvLands \/ CvFails \/ retry \/ onChange \/ openRemoval \/ confirm \/ RemovalLands \/ RemovalFails \/ Leave

Spec == Init /\ [][Next]_vars

-------------------------------------------------------------------------------

TypeOK ==
  /\ cv \in 0..MaxFiles /\ ids \in 0..MaxFiles
  /\ bodies \in Seq(Files) /\ Len(bodies) <= Capacity
  /\ get \in [at : {"none", "meta", "body", "read", "served", "missing"}, id : 0..MaxFiles, late : BOOLEAN, own : BOOLEAN]
  /\ shown \in [status : {"loading", "ready", "error"}, cv : 0..MaxFiles,
                loading : [at : {"none", "sent", "answered"}, cv : 0..MaxFiles]]
  /\ uploads \in [Uploads -> [at : {"none", "sent", "stored", "answered", "refused"}, id : 0..MaxFiles, live : BOOLEAN]]
  /\ dialog \in [asked : BOOLEAN, at : {"none", "sent", "answered"}]
  /\ faults \in 0..MaxFaults /\ crossed \in BOOLEAN

\* "A removed file is a 404 at once": a download that begins after its file was
\* removed or replaced is never served, from the database, the body cache or the
\* browser's own copy (api/v1/files.py).
RemovedGone == get.late => get.at # "served"

\* The page shows the CV that is online once everything is answered, provided that
\* nothing failed, nobody else changed it, no upload was left on its way, and it was
\* not removed while one was (useFileUpload's one upload at a time).
CvSettles ==
  /\ shown.status = "ready" /\ shown.loading.at = "none" /\ dialog.at = "none"
  /\ \A u \in Uploads : uploads[u].at = "none"
  /\ faults = 0 /\ ~crossed
  => shown.cv = cv
===============================================================================
