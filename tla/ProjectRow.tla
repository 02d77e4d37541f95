------------------------------ MODULE ProjectRow ------------------------------
(***************************************************************************)
(* One project of the admin's content, as the server keeps it              *)
(* (src/backend/app/services/content_admin.py, src/backend/app/seed): its  *)
(* editable content, the version that content has (updated_at), the cover  *)
(* image it points at, and the stored cover image files.                   *)
(*                                                                         *)
(* Every operation but an upload takes the row's lock and commits, so it   *)
(* is one action; an upload reads the row, encodes the image with no lock  *)
(* held, then locks and re-reads the row.                                  *)
(*                                                                         *)
(* updated_at is a transaction's start time, to the microsecond: compared  *)
(* for equality only, so a version is the number of its content change.    *)
(***************************************************************************)
EXTENDS Naturals

CONSTANTS
  Contents,      (* What the editable columns of the row can hold.           *)
  Placeholders,  (* The contents that make the project a placeholder slot.   *)
  None,          (* No content: there is no row.                             *)
  Uploads,       (* Concurrent uploads of a cover image.                     *)
  MaxImages,     (* Bound on the cover images ever stored.                   *)
  MaxVersion     (* Bound on the content changes.                            *)

ASSUME RowAssumption ==
  /\ Placeholders \subseteq Contents
  /\ None \notin Contents
  /\ MaxImages \in Nat
  /\ MaxVersion \in Nat

VARIABLES
  row,           (* The projects row: content, image and version.            *)
  files,         (* The ids of the stored files of kind project_image.       *)
  images,        (* How many ids were given out; every upload gets a new one *)
  version,       (* How many content changes there have been.                *)
  uploads        (* uploads[u]: where upload u is.                           *)

rowVars == <<row, files, images, version, uploads>>

NoImage == 0

Missing == [content |-> None, image |-> NoImage, version |-> 0]
Exists == row.content # None
Placeholder(content) == content \in Placeholders

RowInit ==
  /\ row \in {[content |-> c, image |-> NoImage, version |-> 1] : c \in Contents}
  /\ files = {}
  /\ images = 0
  /\ version = 1
  /\ uploads = [u \in Uploads |-> "idle"]

-------------------------------------------------------------------------------

\* The column's onupdate stamps a row whose content really changes.
Stamped(content) ==
  IF content = row.content THEN UNCHANGED version
  ELSE version < MaxVersion /\ version' = version + 1

\* create_item, as far as this row goes.
Create(content) ==
  /\ ~Exists
  /\ version < MaxVersion /\ version' = version + 1
  /\ row' = [content |-> content, image |-> NoImage, version |-> version']
  /\ UNCHANGED <<files, images, uploads>>

\* update_item on the locked row: the version named by If-Match, and no
\* placeholder with an image.
Update(content, expected) ==
  /\ Exists /\ row.version = expected
  /\ ~(Placeholder(content) /\ row.image # NoImage)
  /\ Stamped(content)
  /\ row' = [row EXCEPT !.content = content,
                        !.version = IF content = row.content THEN @ ELSE version']
  /\ UNCHANGED <<files, images, uploads>>

\* update_item's refusal of a version the row has moved on from (412).
Refused(expected) == Exists /\ row.version # expected

\* delete_item: the row, and its image file.
Delete ==
  /\ Exists
  /\ row' = Missing
  /\ files' = files \ {row.image}
  /\ UNCHANGED <<images, version, uploads>>

\* remove_project_image.
Remove ==
  /\ Exists
  /\ row' = [row EXCEPT !.image = NoImage]
  /\ files' = files \ {row.image}
  /\ UNCHANGED <<images, version, uploads>>

\* set_project_image's first look at the project, then the encoding starts.
UploadRead(u) ==
  /\ uploads[u] = "idle"
  /\ Exists /\ ~Placeholder(row.content)
  /\ uploads' = [uploads EXCEPT ![u] = "encoding"]
  /\ UNCHANGED <<row, files, images, version>>

\* Mutant: the project is not looked at again after the encoding.
UploadWriteUnchecked(u) ==
  /\ uploads[u] = "encoding"
  /\ Exists
  /\ images < MaxImages /\ images' = images + 1
  /\ row' = [row EXCEPT !.image = images']
  /\ files' = (files \ {row.image}) \union {images'}
  /\ uploads' = [uploads EXCEPT ![u] = "idle"]
  /\ UNCHANGED version

\* Mutant: the image's update stamps the row like any other.
UploadWriteStamping(u) ==
  /\ uploads[u] = "encoding"
  /\ Exists /\ ~Placeholder(row.content)
  /\ images < MaxImages /\ images' = images + 1
  /\ version < MaxVersion /\ version' = version + 1
  /\ row' = [row EXCEPT !.image = images', !.version = version']
  /\ files' = (files \ {row.image}) \union {images'}
  /\ uploads' = [uploads EXCEPT ![u] = "idle"]

\* After the encoding, on the locked and re-read row: the new file is stored,
\* the project points at it, the file it pointed at is deleted.
UploadWrite(u) ==
  /\ uploads[u] = "encoding"
  /\ Exists /\ ~Placeholder(row.content)
  /\ images < MaxImages /\ images' = images + 1
  /\ row' = [row EXCEPT !.image = images']
  /\ files' = (files \ {row.image}) \union {images'}
  /\ uploads' = [uploads EXCEPT ![u] = "idle"]
  /\ UNCHANGED version

\* The upload is refused (a placeholder by now, deleted, a broken image) or fails.
UploadFails(u) ==
  /\ uploads[u] = "encoding"
  /\ uploads' = [uploads EXCEPT ![u] = "idle"]
  /\ UNCHANGED <<row, files, images, version>>

\* Mutant: the images no project points at any more are left behind.
SeedLeavingFiles(content) ==
  /\ version < MaxVersion /\ version' = version + 1
  /\ row' = [content |-> content, version |-> version',
             image |-> IF Placeholder(content) THEN NoImage ELSE row.image]
  /\ UNCHANGED <<files, images, uploads>>

\* `python -m app.seed --force` with this project in its file: an upsert that
\* always stamps the row, then the images no project points at are deleted.
Seed(content) ==
  /\ version < MaxVersion /\ version' = version + 1
  /\ row' = [content |-> content, version |-> version',
             image |-> IF Placeholder(content) THEN NoImage ELSE row.image]
  /\ files' = files \intersect {row'.image}
  /\ UNCHANGED <<images, uploads>>

-------------------------------------------------------------------------------
(* Properties                                                               *)

RowType == [content : Contents \union {None}, image : Nat, version : Nat]

\* The server's variables have their types, and ids come from their sequences.
RowTypeOK ==
  /\ row \in RowType
  /\ files \subseteq 1 .. images
  /\ images \in Nat
  /\ version \in Nat
  /\ uploads \in [Uploads -> {"idle", "encoding"}]
  /\ row.image <= images /\ row.version <= version
  /\ ~Exists => row = Missing

\* Whatever uploads, removals, deletions, saves and seeds overlap, the stored
\* cover images are exactly the ones the projects point at: no file is left
\* behind and none is missing.
NoOrphans == files = {row.image} \ {NoImage}

\* A placeholder never has an image, although it may become one while an image
\* is being encoded.
PlaceholderHasNoImage == Placeholder(row.content) => row.image = NoImage

=============================================================================
