------------------------- MODULE ProjectEditorProofs -------------------------
(***************************************************************************)
(* Every property of ProjectRow and ProjectEditor, for whatever contents,  *)
(* drafts and uploads there are, and for any bounds.                       *)
(***************************************************************************)
EXTENDS ProjectEditor, TLAPS

-------------------------------------------------------------------------------
(* The row and its image files                                              *)

\* Any step, as the row sees it.
RowStep ==
  \/ \E c \in Contents : Create(c) \/ Seed(c) \/ \E e \in Nat : Update(c, e)
  \/ Delete \/ Remove
  \/ \E u \in Uploads : UploadRead(u) \/ UploadWrite(u) \/ UploadFails(u)
  \/ UNCHANGED <<row, files, images, version>> /\ uploads' \in [Uploads -> {"idle", "encoding"}]

RowInv == RowTypeOK /\ NoOrphans /\ PlaceholderHasNoImage

\* The fields of a row.
LEMMA RowFields ==
  ASSUME NEW r \in RowType
  PROVE  /\ r.content \in Contents \union {None} /\ r.image \in Nat /\ r.version \in Nat
         /\ r = [content |-> r.content, image |-> r.image, version |-> r.version]
BY DEF RowType

LEMMA MissingType == Missing \in RowType /\ Missing.content = None /\ Missing.image = 0
BY DEF Missing, RowType, NoImage

LEMMA RowInitInv == RowInit => RowInv
<1> SUFFICES ASSUME RowInit PROVE RowInv
  OBVIOUS
<1>1. PICK c \in Contents : row = [content |-> c, image |-> NoImage, version |-> 1]
  BY DEF RowInit
<1>2. row \in RowType /\ row.content = c /\ row.image = 0 /\ row.version = 1
  BY <1>1 DEF RowType, NoImage
<1>3. files = {} /\ images = 0 /\ version = 1 /\ uploads \in [Uploads -> {"idle", "encoding"}]
  BY DEF RowInit
<1>4. RowTypeOK
  BY <1>2, <1>3, RowAssumption DEF RowTypeOK, Exists
<1>5. NoOrphans
  BY <1>2, <1>3 DEF NoOrphans, NoImage
<1>6. PlaceholderHasNoImage
  BY <1>2 DEF PlaceholderHasNoImage, NoImage
<1>7. QED BY <1>4, <1>5, <1>6 DEF RowInv

\* Whatever a step does to the row, files and images stay matched.
LEMMA RowKeeps ==
  ASSUME RowInv, RowStep
  PROVE  RowInv'
<1> USE DEF NoImage
<1>0. /\ row \in RowType /\ files = {row.image} \ {0} /\ images \in Nat /\ version \in Nat
      /\ uploads \in [Uploads -> {"idle", "encoding"}]
      /\ row.image <= images /\ row.version <= version
      /\ row.image \in Nat /\ row.version \in Nat /\ row.content \in Contents \union {None}
      /\ Placeholder(row.content) => row.image = 0
      /\ row.content = None => row = Missing
  BY RowFields DEF RowInv, RowTypeOK, NoOrphans, PlaceholderHasNoImage, Exists
\* It is enough to know the new row's fields and the new files.
<1>1. ASSUME NEW c \in Contents \union {None}, NEW i \in Nat, NEW v \in Nat,
             row' = [content |-> c, image |-> i, version |-> v],
             files' = {i} \ {0}, images' \in Nat, version' \in Nat,
             i <= images', v <= version', c = None => row' = Missing,
             Placeholder(c) => i = 0,
             uploads' \in [Uploads -> {"idle", "encoding"}]
      PROVE  RowInv'
  <2>1. row' \in RowType /\ row'.content = c /\ row'.image = i /\ row'.version = v
    BY <1>1 DEF RowType
  <2>2. RowTypeOK'
    BY <1>1, <2>1 DEF RowTypeOK, Exists
  <2>3. NoOrphans' /\ PlaceholderHasNoImage'
    BY <1>1, <2>1 DEF NoOrphans, PlaceholderHasNoImage, Placeholder
  <2>4. QED BY <2>2, <2>3 DEF RowInv
<1>2. ASSUME NEW c \in Contents, Create(c) PROVE RowInv'
  <2>1. row.image = 0
    BY <1>0, <1>2, MissingType DEF Create, Exists
  <2>2. version + 1 \in Nat /\ c # None
    BY <1>0, RowAssumption
  <2>3. QED BY <1>0, <1>2, <2>1, <2>2, <1>1 DEF Create
<1>3. ASSUME NEW c \in Contents, Seed(c) PROVE RowInv'
  <2> DEFINE i == IF Placeholder(c) THEN 0 ELSE row.image
  <2>1. version + 1 \in Nat /\ c # None /\ i \in Nat /\ i <= images
    BY <1>0, RowAssumption
  <2>2. row' = [content |-> c, image |-> i, version |-> version + 1]
    BY <1>3 DEF Seed
  <2>3. files' = {i} \ {0}
    BY <1>0, <1>3, <2>2 DEF Seed
  <2>4. images' = images /\ uploads' = uploads /\ version' = version + 1
    BY <1>3 DEF Seed
  <2>5. Placeholder(c) => i = 0
    OBVIOUS
  <2> HIDE DEF i
  <2>6. QED BY <1>0, <2>1, <2>2, <2>3, <2>4, <2>5, <1>1
<1>4. ASSUME NEW c \in Contents, NEW e \in Nat, Update(c, e) PROVE RowInv'
  <2> DEFINE v == IF c = row.content THEN row.version ELSE version'
  <2>1. version' \in Nat /\ version <= version' /\ c # None
    BY <1>0, <1>4, RowAssumption DEF Update, Stamped
  <2>2. v \in Nat /\ v <= version'
    BY <1>0, <2>1
  <2>3. row' = [row EXCEPT !.content = c, !.version = v]
    BY <1>4 DEF Update
  <2>4. row' = [content |-> c, image |-> row.image, version |-> v]
    BY <1>0, <2>3 DEF RowType
  <2>5. files' = files /\ images' = images /\ uploads' = uploads
    BY <1>4 DEF Update
  <2>6. Placeholder(c) => row.image = 0
    BY <1>4 DEF Update
  <2> HIDE DEF v
  <2>7. QED BY <1>0, <2>1, <2>2, <2>4, <2>5, <2>6, <1>1
<1>5. ASSUME Delete PROVE RowInv'
  <2>1. row' = [content |-> None, image |-> 0, version |-> 0] /\ row' = Missing
    BY <1>5 DEF Delete, Missing
  <2>2. files' = {0} \ {0} /\ images' = images /\ version' = version /\ uploads' = uploads
    BY <1>0, <1>5 DEF Delete
  <2>3. ~Placeholder(None) \/ 0 = 0
    OBVIOUS
  <2>4. QED BY <1>0, <2>1, <2>2, <1>1
<1>6. ASSUME Remove PROVE RowInv'
  <2>1. row' = [content |-> row.content, image |-> 0, version |-> row.version]
    BY <1>0, <1>6 DEF Remove, RowType
  <2>2. files' = {0} \ {0} /\ images' = images /\ version' = version /\ uploads' = uploads
    BY <1>0, <1>6 DEF Remove
  <2>3. row.content # None
    BY <1>6 DEF Remove, Exists
  <2>4. QED BY <1>0, <2>1, <2>2, <2>3, <1>1
<1>7. ASSUME NEW u \in Uploads, UploadWrite(u) PROVE RowInv'
  <2>1. images' = images + 1 /\ images' \in Nat /\ images' # 0 /\ images' # row.image
    BY <1>0, <1>7 DEF UploadWrite
  <2>2. row' = [content |-> row.content, image |-> images', version |-> row.version]
    BY <1>0, <1>7 DEF UploadWrite, RowType
  <2>3. files' = {images'} \ {0} /\ version' = version
    BY <1>0, <1>7, <2>1 DEF UploadWrite
  <2>4. row.content # None /\ ~Placeholder(row.content)
    BY <1>7 DEF UploadWrite, Exists
  <2>5. uploads' \in [Uploads -> {"idle", "encoding"}]
    BY <1>0, <1>7 DEF UploadWrite
  <2>6. QED BY <1>0, <2>1, <2>2, <2>3, <2>4, <2>5, <1>1
<1>8. ASSUME UNCHANGED <<row, files, images, version>>,
             uploads' \in [Uploads -> {"idle", "encoding"}]
      PROVE  RowInv'
  BY <1>8 DEF RowInv, RowTypeOK, NoOrphans, PlaceholderHasNoImage, Exists, Placeholder
<1>9. ASSUME NEW u \in Uploads, UploadRead(u) \/ UploadFails(u) PROVE RowInv'
  <2>1. UNCHANGED <<row, files, images, version>> /\ uploads' \in [Uploads -> {"idle", "encoding"}]
    BY <1>0, <1>9 DEF UploadRead, UploadFails
  <2>2. QED BY <2>1, <1>8
<1>10. QED BY <1>2, <1>3, <1>4, <1>5, <1>6, <1>7, <1>8, <1>9 DEF RowStep

-------------------------------------------------------------------------------
(* The tab's types                                                          *)

FormType ==
  /\ at \in {"away", "loading", "form"}
  /\ item \in RowType /\ draft \in Drafts \union {None}
  /\ restored \in {"no", "fresh", "stale"}
  /\ kept \in [draft : Drafts \union {None}, base : Nat, origin : Nat]
  /\ conflict \in BOOLEAN
  /\ origin \in Nat /\ typed \in Drafts \union {None}
  /\ slipped \in BOOLEAN
  /\ at = "form" => item.content # None /\ draft # None

LoadType == load \in [at : {"none", "asked", "read", "answered"}, got : RowType]

\* A save on its way sent a draft, and is answered with a row.
SaveType ==
  /\ save \in [at : {"none", "sent", "committed", "read", "answered"},
               sent : Drafts \union {None}, expected : Nat, made : Nat, got : RowType]
  /\ save.at # "none" => save.sent \in Drafts
  /\ save.at \in {"read", "answered"} => save.got.content # None

ImageType ==
  /\ answer \in [at : {"none", "stored", "answered"}, image : Nat]
  /\ removal \in {"none", "asked", "answered"}

TypeInv == RowInv /\ FormType /\ LoadType /\ SaveType /\ ImageType /\ foreign \in BOOLEAN

LEMMA TypeInvIsTypeOK == TypeInv => TypeOK
BY DEF TypeInv, TypeOK, RowInv, FormType, LoadType, SaveType, ImageType

\* What the server's row can hold can be in a form.
LEMMA ContentIsDraft ==
  ASSUME NEW c \in Contents \union {None}
  PROVE  c \in Drafts \union {None} /\ (c # None => c \in Drafts)
BY EditorAssumption

LEMMA NoneTypes ==
  /\ NoKept \in [draft : Drafts \union {None}, base : Nat, origin : Nat]
  /\ NoSave \in [at : {"none", "sent", "committed", "read", "answered"},
                 sent : Drafts \union {None}, expected : Nat, made : Nat, got : RowType]
  /\ NoLoad \in [at : {"none", "asked", "read", "answered"}, got : RowType]
  /\ NoAnswer \in [at : {"none", "stored", "answered"}, image : Nat]
  /\ NoSave.at = "none" /\ NoLoad.at = "none" /\ NoAnswer.at = "none"
BY MissingType DEF NoKept, NoSave, NoLoad, NoAnswer, NoImage

LEMMA WithImageType ==
  ASSUME NEW r \in RowType
  PROVE  /\ WithImage(r) \in RowType
         /\ WithImage(r).content = r.content /\ WithImage(r).version = r.version
BY DEF WithImage, RowType, NoImage

LEMMA ImageChanged ==
  ASSUME NEW r \in RowType, NEW i \in Nat
  PROVE  /\ [r EXCEPT !.image = i] \in RowType
         /\ [r EXCEPT !.image = i].content = r.content
         /\ [r EXCEPT !.image = i].version = r.version
BY DEF RowType

\* The effect keeps the draft, or nothing.
LEMMA KeepType ==
  ASSUME NEW d \in Drafts, NEW it \in RowType, NEW from \in Nat, Keep(d, it, from)
  PROVE  /\ kept' \in [draft : Drafts \union {None}, base : Nat, origin : Nat]
         /\ d # it.content => kept'.draft = d /\ kept'.base = it.version /\ kept'.origin = from
         /\ d = it.content => kept'.draft = None
<1>1. it.version \in Nat
  BY RowFields
<1>2. QED BY <1>1 DEF Keep, NoKept

\* A form that is left.
LEMMA GoneType ==
  ASSUME TypeInv, Gone
  PROVE  /\ LoadType' /\ SaveType' /\ ImageType' /\ RowStep
         /\ at' = "away" /\ item' \in RowType /\ draft' = None /\ restored' = "no"
         /\ conflict' = FALSE /\ origin' = 0 /\ slipped' = FALSE
         /\ save'.at = "none" /\ load'.at = "none"
<1>1. UNCHANGED <<row, files, images, version>> /\ uploads' \in [Uploads -> {"idle", "encoding"}]
  BY DEF Gone, TypeInv, RowInv, RowTypeOK
<1>2. LoadType' /\ SaveType' /\ ImageType'
  BY NoneTypes DEF Gone, LoadType, SaveType, ImageType
<1>3. item' \in RowType
  BY MissingType DEF Gone
<1>4. QED BY <1>1, <1>2, <1>3, NoneTypes DEF Gone, RowStep

LEMMA TypeInit == Init => TypeInv
<1> SUFFICES ASSUME Init PROVE TypeInv
  OBVIOUS
<1>1. RowInv
  BY RowInitInv DEF Init
<1>2. FormType
  BY MissingType, NoneTypes DEF Init, FormType
<1>3. LoadType /\ SaveType /\ ImageType
  BY NoneTypes DEF Init, LoadType, SaveType, ImageType
<1>4. QED BY <1>1, <1>2, <1>3 DEF Init, TypeInv

\* A step that leaves the server alone.
LEMMA RowAlone == ASSUME TypeInv, UNCHANGED rowVars PROVE RowStep
BY DEF TypeInv, RowInv, RowTypeOK, RowStep, rowVars

\* The parts of TypeInv that are there after a step, given the parts it changes.
LEMMA TypeParts ==
  ASSUME TypeInv, RowStep, FormType', LoadType', SaveType', ImageType', foreign' \in BOOLEAN
  PROVE  TypeInv'
BY RowKeeps DEF TypeInv

LEMMA SameForm == ASSUME FormType, UNCHANGED formVars PROVE FormType'
BY DEF FormType, formVars

LEMMA SameLoad == ASSUME LoadType, UNCHANGED loadVars PROVE LoadType'
BY DEF LoadType, loadVars

LEMMA SameSave == ASSUME SaveType, UNCHANGED save PROVE SaveType'
BY DEF SaveType

LEMMA SameImage == ASSUME ImageType, UNCHANGED imageVars PROVE ImageType'
BY DEF ImageType, imageVars

LEMMA TypeLoading == ASSUME TypeInv, Loading PROVE TypeInv'
<1>0. /\ RowInv /\ FormType /\ LoadType /\ SaveType /\ ImageType /\ foreign \in BOOLEAN
      /\ row \in RowType /\ load.got \in RowType
  BY DEF TypeInv, RowInv, RowTypeOK, LoadType
<1>1. CASE Open
  <2>1. FormType'
    BY <1>0, <1>1 DEF Open, FormType
  <2>2. LoadType'
    BY <1>1, NoneTypes DEF Open, LoadType
  <2>3. RowStep /\ SaveType' /\ ImageType' /\ foreign' \in BOOLEAN
    BY <1>0, <1>1, RowAlone, SameSave, SameImage DEF Open
  <2>4. QED BY <2>1, <2>2, <2>3, TypeParts
<1>2. CASE LoadRead
  <2>1. LoadType'
    BY <1>0, <1>2 DEF LoadRead, LoadType
  <2>2. RowStep /\ FormType' /\ SaveType' /\ ImageType' /\ foreign' \in BOOLEAN
    BY <1>0, <1>2, RowAlone, SameForm, SameSave, SameImage DEF LoadRead
  <2>3. QED BY <2>1, <2>2, TypeParts
<1>3. CASE LoadAnswer
  <2>1. LoadType'
    BY <1>0, <1>3, WithImageType DEF LoadAnswer, LoadType
  <2>2. RowStep /\ FormType' /\ SaveType' /\ ImageType' /\ foreign' \in BOOLEAN
    BY <1>0, <1>3, RowAlone, SameForm, SameSave, SameImage DEF LoadAnswer
  <2>3. QED BY <2>1, <2>2, TypeParts
<1>4. CASE Mount
  <2>1. LoadType'
    BY <1>4, NoneTypes DEF Mount, LoadType
  <2>2. RowStep /\ SaveType' /\ ImageType' /\ foreign' \in BOOLEAN
    BY <1>0, <1>4, RowAlone, SameSave, SameImage DEF Mount
  <2>3. FormType'
    <3>1. CASE load.got.content = None
      BY <1>0, <1>4, <3>1 DEF Mount, FormType
    <3>2. CASE load.got.content # None
      <4> DEFINE back == kept.draft # None /\ kept.draft # load.got.content
      <4>1. load.got.content \in Drafts /\ load.got.version \in Nat
        BY <1>0, <3>2, RowFields, ContentIsDraft
      <4>2. kept.draft \in Drafts \union {None} /\ kept.origin \in Nat
        BY <1>0 DEF FormType
      <4>3. /\ at' = "form" /\ item' = load.got /\ conflict' = FALSE
            /\ draft' = IF back THEN kept.draft ELSE load.got.content
            /\ restored' = IF ~back THEN "no"
                           ELSE IF kept.base = load.got.version THEN "fresh" ELSE "stale"
            /\ origin' = IF back THEN kept.origin ELSE load.got.version
            /\ slipped' = (back /\ kept.base = load.got.version /\ kept.origin # load.got.version)
            /\ Keep(draft', load.got, origin')
            /\ typed' = IF back THEN typed ELSE None
        BY <1>4, <3>2 DEF Mount
      <4>4. draft' \in Drafts /\ origin' \in Nat /\ slipped' \in BOOLEAN
            /\ restored' \in {"no", "fresh", "stale"}
            /\ typed' \in Drafts \union {None} /\ draft' # None
        BY <1>0, <4>1, <4>2, <4>3, EditorAssumption DEF FormType
      <4>5. kept' \in [draft : Drafts \union {None}, base : Nat, origin : Nat]
        BY <1>0, <4>3, <4>4, KeepType
      <4>6. QED BY <1>0, <3>2, <4>3, <4>4, <4>5 DEF FormType
    <3>3. QED BY <3>1, <3>2
  <2>4. QED BY <2>1, <2>2, <2>3, TypeParts
<1>5. CASE GoAway
  <2>1. FormType'
    BY <1>0, <1>5, GoneType DEF GoAway, FormType
  <2>2. foreign' \in BOOLEAN
    BY <1>5 DEF GoAway
  <2>3. QED BY <1>5, <2>1, <2>2, GoneType, TypeParts DEF GoAway
<1>6. CASE Discard
  <2>1. FormType'
    BY <1>0, <1>6, GoneType, NoneTypes DEF Discard, FormType
  <2>2. foreign' \in BOOLEAN
    BY <1>6 DEF Discard
  <2>3. QED BY <1>6, <2>1, <2>2, GoneType, TypeParts DEF Discard
<1>7. QED BY <1>1, <1>2, <1>3, <1>4, <1>5, <1>6 DEF Loading

LEMMA TypeEditing ==
  ASSUME TypeInv, DropRestored \/ \E d \in Drafts : Type(d)
  PROVE  TypeInv'
<1>0. /\ RowInv /\ FormType /\ LoadType /\ SaveType /\ ImageType /\ foreign \in BOOLEAN
      /\ item \in RowType /\ item.version \in Nat /\ origin \in Nat
  BY RowFields DEF TypeInv, FormType
<1>1. CASE DropRestored
  <2>1. at = "form" /\ item.content \in Drafts /\ item.content # None
    BY <1>0, <1>1, RowFields, ContentIsDraft DEF DropRestored, Free, FormType
  <2>2. FormType'
    BY <1>0, <1>1, <2>1, NoneTypes DEF DropRestored, FormType
  <2>3. QED BY <1>0, <1>1, <2>2, RowAlone, SameLoad, SameSave, SameImage, TypeParts DEF DropRestored
<1>2. ASSUME NEW d \in Drafts, Type(d) PROVE TypeInv'
  <2>1. kept' \in [draft : Drafts \union {None}, base : Nat, origin : Nat]
    BY <1>0, <1>2, KeepType DEF Type
  <2>2. typed' \in Drafts \union {None} /\ draft' = d /\ d # None
    BY <1>2, EditorAssumption DEF Type
  <2>3. FormType'
    BY <1>0, <1>2, <2>1, <2>2 DEF Type, FormType
  <2>4. QED BY <1>0, <1>2, <2>3, RowAlone, SameLoad, SameSave, SameImage, TypeParts DEF Type
<1>3. QED BY <1>1, <1>2

LEMMA TypeSaving == ASSUME TypeInv, Saving PROVE TypeInv'
<1>0. /\ RowInv /\ FormType /\ LoadType /\ SaveType /\ ImageType /\ foreign \in BOOLEAN
      /\ row \in RowType /\ row.version \in Nat
      /\ item \in RowType /\ item.version \in Nat /\ origin \in Nat
      /\ save.got \in RowType /\ load.got \in RowType
  BY RowFields DEF TypeInv, RowInv, RowTypeOK, FormType, LoadType, SaveType
<1>1. CASE SubmitInvalid
  <2>1. FormType'
    BY <1>0, <1>1 DEF SubmitInvalid, FormType
  <2>2. QED BY <1>0, <1>1, <2>1, RowAlone, SameLoad, SameSave, SameImage, TypeParts DEF SubmitInvalid
<1>2. CASE Submit
  <2>1. FormType'
    BY <1>0, <1>2 DEF Submit, FormType
  <2>2. draft \in Drafts
    BY <1>0, <1>2 DEF Submit, Free, FormType
  <2>3. SaveType'
    BY <1>0, <1>2, <2>2, NoneTypes DEF Submit, SaveType
  <2>4. QED BY <1>0, <1>2, <2>1, <2>3, RowAlone, SameLoad, SameImage, TypeParts DEF Submit
<1>3. CASE SaveCommit
  <2>1. save.sent \in Drafts /\ save.expected \in Nat
    BY <1>0, <1>3 DEF SaveCommit, SaveType
  <2>2. RowStep
    BY <1>3, <2>1, EditorAssumption DEF SaveCommit, RowStep
  <2>3. row'.version \in Nat
    BY <2>2, RowKeeps, RowFields DEF TypeInv, RowInv, RowTypeOK
  <2>4. SaveType'
    BY <1>0, <1>3, <2>1, <2>3 DEF SaveCommit, SaveType
  <2>5. foreign' \in BOOLEAN
    BY <1>3 DEF SaveCommit
  <2>6. QED BY <1>0, <1>3, <2>2, <2>4, <2>5, SameForm, SameLoad, SameImage, TypeParts DEF SaveCommit
<1>4. CASE SaveRead
  <2>1. SaveType'
    BY <1>0, <1>4 DEF SaveRead, SaveType, Exists
  <2>2. QED BY <1>0, <1>4, <2>1, RowAlone, SameForm, SameLoad, SameImage, TypeParts DEF SaveRead
<1>5. CASE SaveAnswer
  <2>1. SaveType'
    BY <1>0, <1>5, WithImageType DEF SaveAnswer, SaveType
  <2>2. QED BY <1>0, <1>5, <2>1, RowAlone, SameForm, SameLoad, SameImage, TypeParts DEF SaveAnswer
<1>6. CASE SaveDone
  <2>1. FormType'
    BY <1>0, <1>6, GoneType, NoneTypes DEF SaveDone, FormType
  <2>2. QED BY <1>0, <1>6, <2>1, GoneType, TypeParts DEF SaveDone
<1>7. CASE SaveKeepsNewer
  <2>1. save.got.content # None /\ save.got.version \in Nat /\ save.made \in Nat
    BY <1>0, <1>7, RowFields DEF SaveKeepsNewer, SaveType
  <2>2. save.got.content \in Drafts
    BY <1>0, <2>1, RowFields, ContentIsDraft
  <2>3. CASE draft = None
    <3>1. FormType'
      <4>1. kept' \in [draft : Drafts \union {None}, base : Nat, origin : Nat]
        BY <1>7, <2>1, <2>3, NoneTypes DEF SaveKeepsNewer, Keep
      <4>2. QED BY <1>0, <1>7, <2>1, <4>1 DEF SaveKeepsNewer, FormType
    <3>2. SaveType'
      BY <1>7, NoneTypes DEF SaveKeepsNewer, SaveType
    <3>3. QED BY <1>0, <1>7, <3>1, <3>2, RowAlone, SameLoad, SameImage, TypeParts DEF SaveKeepsNewer
  <2>4. CASE draft # None
    <3>1. kept' \in [draft : Drafts \union {None}, base : Nat, origin : Nat]
      BY <1>0, <1>7, <2>1, <2>4, KeepType DEF SaveKeepsNewer, FormType
    <3>2. FormType'
      BY <1>0, <1>7, <2>1, <3>1 DEF SaveKeepsNewer, FormType
    <3>3. SaveType'
      BY <1>7, NoneTypes DEF SaveKeepsNewer, SaveType
    <3>4. QED BY <1>0, <1>7, <3>2, <3>3, RowAlone, SameLoad, SameImage, TypeParts DEF SaveKeepsNewer
  <2>5. QED BY <2>3, <2>4
<1>8. CASE SaveRefused
  <2>1. FormType'
    BY <1>0, <1>8 DEF SaveRefused, FormType
  <2>2. SaveType'
    BY <1>8, NoneTypes DEF SaveRefused, SaveType
  <2>3. QED BY <1>0, <1>8, <2>1, <2>2, RowAlone, SameLoad, SameImage, TypeParts DEF SaveRefused
<1>9. CASE SaveFails
  <2>1. SaveType'
    BY <1>9, NoneTypes DEF SaveFails, SaveType
  <2>2. foreign' \in BOOLEAN
    BY <1>9 DEF SaveFails
  <2>3. QED BY <1>0, <1>9, <2>1, <2>2, RowAlone, SameForm, SameLoad, SameImage, TypeParts DEF SaveFails
<1>10. CASE AskLatest
  <2>1. LoadType'
    BY <1>10, NoneTypes DEF AskLatest, LoadType
  <2>2. QED BY <1>0, <1>10, <2>1, RowAlone, SameForm, SameSave, SameImage, TypeParts DEF AskLatest
<1>11. CASE LatestLands
  <2>1. LoadType'
    BY <1>11, NoneTypes DEF LatestLands, LoadType
  <2>2. FormType'
    <3>1. CASE load.got.content = None
      BY <1>0, <1>11, <3>1 DEF LatestLands, FormType
    <3>2. CASE load.got.content # None
      <4>1. load.got.content \in Drafts /\ load.got.version \in Nat
        BY <1>0, <3>2, RowFields, ContentIsDraft
      <4>2. QED BY <1>0, <1>11, <3>2, <4>1, NoneTypes DEF LatestLands, FormType
    <3>3. QED BY <3>1, <3>2
  <2>3. QED BY <1>0, <1>11, <2>1, <2>2, RowAlone, SameSave, SameImage, TypeParts DEF LatestLands
<1>12. CASE LatestFails
  <2>1. LoadType'
    BY <1>12, NoneTypes DEF LatestFails, LoadType
  <2>2. QED BY <1>0, <1>12, <2>1, RowAlone, SameForm, SameSave, SameImage, TypeParts DEF LatestFails
<1>13. QED BY <1>1, <1>2, <1>3, <1>4, <1>5, <1>6, <1>7, <1>8, <1>9, <1>10, <1>11, <1>12 DEF Saving

LEMMA TypeImaging == ASSUME TypeInv, Imaging PROVE TypeInv'
<1>0. /\ RowInv /\ FormType /\ LoadType /\ SaveType /\ ImageType /\ foreign \in BOOLEAN
      /\ row.image \in Nat /\ images \in Nat /\ item \in RowType
      /\ answer.image \in Nat /\ tab \in Uploads
  BY RowFields, EditorAssumption DEF TypeInv, RowInv, RowTypeOK, FormType, ImageType
<1>1. CASE Upload
  BY <1>0, <1>1, SameForm, SameLoad, SameSave, SameImage, TypeParts DEF Upload, RowStep
<1>2. CASE UploadStored
  <2>1. images' \in Nat
    BY <1>0, <1>2 DEF UploadStored, UploadWrite
  <2>2. ImageType'
    BY <1>0, <1>2, <2>1 DEF UploadStored, ImageType
  <2>3. RowStep
    BY <1>0, <1>2 DEF UploadStored, RowStep
  <2>4. QED BY <1>0, <1>2, <2>2, <2>3, SameForm, SameLoad, SameSave, TypeParts DEF UploadStored
<1>3. CASE UploadAnswer
  <2>1. ImageType'
    BY <1>0, <1>3 DEF UploadAnswer, ImageType, NoImage
  <2>2. QED BY <1>0, <1>3, <2>1, RowAlone, SameForm, SameLoad, SameSave, TypeParts DEF UploadAnswer
<1>4. CASE UploadLands
  <2>1. ImageType'
    BY <1>0, <1>4, NoneTypes DEF UploadLands, ImageType
  <2>2. FormType'
    BY <1>0, <1>4, ImageChanged DEF UploadLands, FormType
  <2>3. QED BY <1>0, <1>4, <2>1, <2>2, RowAlone, SameLoad, SameSave, TypeParts DEF UploadLands
<1>5. CASE UploadEndsBadly
  <2>1. CASE UploadFails(tab) /\ UNCHANGED <<formVars, loadVars, save, imageVars, foreign>>
    BY <1>0, <2>1, SameForm, SameLoad, SameSave, SameImage, TypeParts DEF RowStep
  <2>2. CASE answer' = NoAnswer /\ UNCHANGED <<rowVars, formVars, loadVars, save, removal, foreign>>
    <3>1. ImageType'
      BY <1>0, <2>2, NoneTypes DEF ImageType
    <3>2. QED BY <1>0, <2>2, <3>1, RowAlone, SameForm, SameLoad, SameSave, TypeParts
  <2>3. QED BY <1>5, <2>1, <2>2 DEF UploadEndsBadly
<1>6. CASE AskRemoval \/ RemovalFails
  <2>1. ImageType'
    BY <1>0, <1>6 DEF AskRemoval, RemovalFails, ImageType
  <2>2. QED BY <1>0, <1>6, <2>1, RowAlone, SameForm, SameLoad, SameSave, TypeParts
            DEF AskRemoval, RemovalFails
<1>7. CASE RemovalCommit
  <2>1. ImageType' /\ RowStep
    BY <1>0, <1>7 DEF RemovalCommit, ImageType, RowStep
  <2>2. QED BY <1>0, <1>7, <2>1, SameForm, SameLoad, SameSave, TypeParts DEF RemovalCommit
<1>8. CASE RemovalLands
  <2>1. ImageType'
    BY <1>0, <1>8 DEF RemovalLands, ImageType
  <2>2. FormType'
    BY <1>0, <1>8, ImageChanged DEF RemovalLands, FormType, NoImage
  <2>3. QED BY <1>0, <1>8, <2>1, <2>2, RowAlone, SameLoad, SameSave, TypeParts DEF RemovalLands
<1>9. QED BY <1>1, <1>2, <1>3, <1>4, <1>5, <1>6, <1>7, <1>8 DEF Imaging

LEMMA TypeOthers == ASSUME TypeInv, Others PROVE TypeInv'
<1>1. FormType' /\ LoadType' /\ SaveType' /\ ImageType'
  BY SameForm, SameLoad, SameSave, SameImage DEF TypeInv, Others
<1>2. row.version \in Nat /\ foreign \in BOOLEAN
  BY RowFields DEF TypeInv, RowInv, RowTypeOK
<1>3. RowStep
  BY <1>2 DEF Others, OthersChange, RowStep
<1>4. foreign' \in BOOLEAN
  BY <1>2 DEF Others, OthersChange
<1>5. QED BY <1>1, <1>3, <1>4, TypeParts

LEMMA TypeStep == TypeInv /\ [Next]_vars => TypeInv'
<1> SUFFICES ASSUME TypeInv, [Next]_vars PROVE TypeInv'
  OBVIOUS
<1>1. CASE UNCHANGED vars
  BY <1>1, RowAlone, SameForm, SameLoad, SameSave, SameImage, TypeParts DEF vars, TypeInv
<1>2. CASE Next
  BY <1>2, TypeLoading, TypeSaving, TypeImaging, TypeOthers, TypeEditing DEF Next
<1>3. QED BY <1>1, <1>2

LEMMA TypeInvCorrect == Spec => []TypeInv
BY TypeInit, TypeStep, PTL DEF Spec

\* The types of the server's row and of everything the tab holds of it, for
\* whatever contents, drafts and uploads there are.
THEOREM TypeCorrect == Spec => []TypeOK
BY TypeInvCorrect, TypeInvIsTypeOK, PTL

\* Uploads read, encode and write while others upload, remove, delete, save and
\* seed: the stored image files are always those the project points at.
THEOREM FilesCorrect == Spec => []NoOrphans
<1>1. TypeInv => NoOrphans
  BY DEF TypeInv, RowInv
<1>2. QED BY <1>1, TypeInvCorrect, PTL

\* No order of saves, seeds and uploads gives a placeholder an image.
THEOREM PlaceholderCorrect == Spec => []PlaceholderHasNoImage
<1>1. TypeInv => PlaceholderHasNoImage
  BY DEF TypeInv, RowInv
<1>2. QED BY <1>1, TypeInvCorrect, PTL

\* An image answer leaves the form's version alone.
LEMMA LandsVersion ==
  ASSUME TypeInv, UploadLands \/ RemovalLands
  PROVE  item'.version = item.version
<1>1. item \in RowType /\ answer.image \in Nat
  BY DEF TypeInv, FormType, ImageType
<1>2. CASE UploadLands
  BY <1>1, <1>2, ImageChanged DEF UploadLands
<1>3. CASE RemovalLands
  BY <1>1, <1>3, ImageChanged DEF RemovalLands, NoImage
<1>4. QED BY <1>2, <1>3

-------------------------------------------------------------------------------
(* The versions a save replaces                                             *)

\* A save on its way is the form's: it names the version of the row the form is
\* compared with, no load can replace that row under it, and no box offers one.
SavesOfForm ==
  /\ at # "form" => save.at = "none"
  /\ conflict => save.at = "none"
  /\ load.at # "none" => save.at = "none"
  /\ save.at = "sent" => save.expected = item.version

LEMMA SavesStep == TypeInv /\ SavesOfForm /\ [Next]_vars => SavesOfForm'
<1> SUFFICES ASSUME TypeInv, SavesOfForm, [Next]_vars PROVE SavesOfForm'
  OBVIOUS
<1>0. item \in RowType /\ answer.image \in Nat
      /\ save \in [at : {"none", "sent", "committed", "read", "answered"},
                   sent : Drafts \union {None}, expected : Nat, made : Nat, got : RowType]
      /\ NoSave.at = "none" /\ NoLoad.at = "none"
      /\ load \in [at : {"none", "asked", "read", "answered"}, got : RowType]
  BY NoneTypes DEF TypeInv, FormType, ImageType, SaveType, LoadType
<1>1. CASE UNCHANGED <<at, conflict, load, save, item>>
  BY <1>1 DEF SavesOfForm
<1>2. CASE UNCHANGED <<at, conflict, item, save>> /\ load'.at # "none" /\ (load.at # "none" \/ conflict)
  BY <1>2 DEF SavesOfForm
<1>3. CASE Open \/ AskLatest
  <2>1. save.at = "none" /\ save' = save
    BY <1>3 DEF Open, AskLatest, SavesOfForm
  <2>2. QED BY <2>1 DEF SavesOfForm
<1>4. CASE LoadRead \/ LoadAnswer
  BY <1>2, <1>4 DEF LoadRead, LoadAnswer, formVars
<1>5. CASE Mount
  <2>1. save.at = "none" /\ save' = save
    BY <1>5 DEF Mount, SavesOfForm
  <2>2. QED BY <2>1 DEF SavesOfForm
<1>6. CASE GoAway \/ Discard \/ SaveDone
  BY <1>6, GoneType DEF GoAway, Discard, SaveDone, SavesOfForm
<1>7. CASE DropRestored \/ \E d \in Drafts : Type(d)
  BY <1>7 DEF DropRestored, Type, loadVars, SavesOfForm
<1>8. CASE SubmitInvalid
  BY <1>8 DEF SubmitInvalid, loadVars, SavesOfForm
<1>9. CASE Submit
  <2>1. at' = "form" /\ conflict' = FALSE /\ load'.at = "none" /\ item' = item
    BY <1>9 DEF Submit, Free, loadVars
  <2>2. save'.expected = item.version
    BY <1>9 DEF Submit, NoSave
  <2>3. QED BY <2>1, <2>2 DEF SavesOfForm
<1>10. CASE SaveCommit \/ SaveRead \/ SaveAnswer
  <2>1. save.at # "none" /\ save'.at \notin {"none", "sent"}
        /\ UNCHANGED <<at, conflict, load, item>>
    BY <1>0, <1>10 DEF SaveCommit, SaveRead, SaveAnswer, formVars, loadVars
  <2>2. QED BY <2>1 DEF SavesOfForm
<1>11. CASE SaveKeepsNewer \/ SaveRefused \/ SaveFails
  BY <1>0, <1>11 DEF SaveKeepsNewer, SaveRefused, SaveFails, SavesOfForm
<1>12. CASE LatestLands
  <2>1. save.at = "none" /\ save' = save
    BY <1>12 DEF LatestLands, SavesOfForm
  <2>2. QED BY <2>1 DEF SavesOfForm
<1>13. CASE LatestFails
  BY <1>0, <1>13 DEF LatestFails, formVars, SavesOfForm
<1>14. CASE UploadLands \/ RemovalLands
  <2>1. item'.version = item.version
    BY <1>14, LandsVersion
  <2>2. QED BY <1>14, <2>1 DEF UploadLands, RemovalLands, loadVars, SavesOfForm
<1>15. QED
  BY <1>1, <1>3, <1>4, <1>5, <1>6, <1>7, <1>8, <1>9, <1>10, <1>11, <1>12, <1>13, <1>14
  DEF Next, Loading, Saving, Imaging, Others, formVars, loadVars, vars,
      Upload, UploadStored, UploadAnswer, UploadEndsBadly, AskRemoval, RemovalCommit, RemovalFails

\* Unless it slipped, the form is compared with the version its draft was begun
\* on, or says that this is not so.
SeenInv == at = "form" /\ ~slipped => origin = item.version \/ restored = "stale"

LEMMA SeenStep == TypeInv /\ SeenInv /\ [Next]_vars => SeenInv'
<1> SUFFICES ASSUME TypeInv, SeenInv, [Next]_vars PROVE SeenInv'
  OBVIOUS
<1>1. CASE UNCHANGED <<at, slipped, origin, item, restored>>
  BY <1>1 DEF SeenInv
<1>2. CASE Open
  BY <1>2 DEF Open, SeenInv
<1>3. CASE Mount
  <2>1. CASE load.got.content = None
    BY <1>3, <2>1 DEF Mount, SeenInv
  <2>2. CASE load.got.content # None
    <3> DEFINE back == kept.draft # None /\ kept.draft # load.got.content
    <3>1. /\ item' = load.got
          /\ restored' = IF ~back THEN "no"
                         ELSE IF kept.base = load.got.version THEN "fresh" ELSE "stale"
          /\ origin' = IF back THEN kept.origin ELSE load.got.version
          /\ slipped' = (back /\ kept.base = load.got.version /\ kept.origin # load.got.version)
      BY <1>3, <2>2 DEF Mount
    <3>2. CASE back
      BY <3>1, <3>2 DEF SeenInv
    <3>3. CASE ~back
      BY <3>1, <3>3 DEF SeenInv
    <3>4. QED BY <3>2, <3>3
  <2>3. QED BY <2>1, <2>2
<1>4. CASE GoAway \/ Discard \/ SaveDone
  BY <1>4, GoneType DEF GoAway, Discard, SaveDone, SeenInv
<1>5. CASE DropRestored \/ \E d \in Drafts : Type(d)
  BY <1>5 DEF DropRestored, Type, SeenInv
<1>6. CASE SaveKeepsNewer
  BY <1>6 DEF SaveKeepsNewer, SeenInv
<1>7. CASE LatestLands
  BY <1>7 DEF LatestLands, SeenInv
<1>8. CASE UploadLands \/ RemovalLands
  <2>1. item'.version = item.version
    BY <1>8, LandsVersion
  <2>2. QED BY <1>8, <2>1 DEF UploadLands, RemovalLands, SeenInv
<1>9. QED
  BY <1>1, <1>2, <1>3, <1>4, <1>5, <1>6, <1>7, <1>8
  DEF Next, Loading, Saving, Imaging, Others, formVars, vars,
      LoadRead, LoadAnswer, SubmitInvalid, Submit, SaveCommit, SaveRead, SaveAnswer,
      SaveRefused, SaveFails, AskLatest, LatestFails, Upload, UploadStored, UploadAnswer,
      UploadEndsBadly, AskRemoval, RemovalCommit, RemovalFails

LEMMA EditorInit == Init => SavesOfForm /\ SeenInv
BY NoneTypes DEF Init, SavesOfForm, SeenInv

LEMMA SavesCorrect == Spec => [](TypeInv /\ SavesOfForm /\ SeenInv)
BY TypeInit, TypeStep, EditorInit, SavesStep, SeenStep, PTL DEF Spec

\* A save that the server accepts replaces the version its draft was begun on,
\* or one the user was told about, whatever image answers, loads, reloads and
\* other people's saves came in between.
THEOREM SeenCorrect == Spec => SaveReplacesSeen
<1>1. TypeInv /\ SavesOfForm /\ SeenInv
      => (SaveCommit /\ ~slipped => origin = row.version \/ restored = "stale")
  <2> SUFFICES ASSUME SavesOfForm, SeenInv, SaveCommit, ~slipped
               PROVE  origin = row.version \/ restored = "stale"
    OBVIOUS
  <2>1. save.at = "sent" /\ row.version = save.expected
    BY DEF SaveCommit, Update
  <2>2. at = "form" /\ save.expected = item.version
    BY <2>1 DEF SavesOfForm
  <2>3. QED BY <2>1, <2>2 DEF SeenInv
<1>2. QED BY <1>1, SavesCorrect, PTL DEF SaveReplacesSeen

-------------------------------------------------------------------------------
(* Typing                                                                   *)

\* What was typed is kept in the tab's storage, and in the form while there is
\* one: the effect that keeps it runs after every change of the two.
TypingInv == typed # None => kept.draft = typed /\ (at = "form" => draft = typed)

LEMMA TypingStep == TypeInv /\ SavesOfForm /\ TypingInv /\ [Next]_vars => TypingInv'
<1> SUFFICES ASSUME TypeInv, SavesOfForm, TypingInv, [Next]_vars PROVE TypingInv'
  OBVIOUS
<1>0. /\ FormType /\ item \in RowType /\ origin \in Nat
      /\ save.got \in RowType /\ save.made \in Nat /\ load.got \in RowType
  BY DEF TypeInv, FormType, SaveType, LoadType
<1>1. CASE UNCHANGED <<at, draft, kept, typed>>
  BY <1>1 DEF TypingInv
<1>2. CASE Open
  BY <1>2 DEF Open, TypingInv
<1>3. CASE Mount
  <2>1. CASE load.got.content = None
    BY <1>3, <2>1 DEF Mount, TypingInv
  <2>2. CASE load.got.content # None
    <3> DEFINE back == kept.draft # None /\ kept.draft # load.got.content
    <3>1. /\ draft' = IF back THEN kept.draft ELSE load.got.content
          /\ origin' = IF back THEN kept.origin ELSE load.got.version
          /\ Keep(draft', load.got, origin')
          /\ typed' = IF back THEN typed ELSE None
      BY <1>3, <2>2 DEF Mount
    <3>2. CASE back
      <4>1. draft' = kept.draft /\ draft' # load.got.content /\ typed' = typed
        BY <3>1, <3>2
      <4>2. kept'.draft = draft'
        BY <3>1, <4>1 DEF Keep
      <4>3. QED BY <4>1, <4>2 DEF TypingInv
    <3>3. CASE ~back
      BY <3>1, <3>3 DEF TypingInv
    <3>4. QED BY <3>2, <3>3
  <2>3. QED BY <2>1, <2>2
<1>4. CASE GoAway
  BY <1>4, GoneType DEF GoAway, TypingInv
<1>5. CASE Discard \/ DropRestored \/ SaveDone
  BY <1>5 DEF Discard, DropRestored, SaveDone, TypingInv
<1>6. ASSUME NEW d \in Drafts, Type(d) PROVE TypingInv'
  <2>1. CASE d = item.content
    BY <1>6, <2>1 DEF Type, TypingInv
  <2>2. CASE d # item.content
    BY <1>6, <2>2 DEF Type, Keep, TypingInv
  <2>3. QED BY <2>1, <2>2
<1>7. CASE SaveKeepsNewer
  <2>1. kept'.draft = draft
    BY <1>7 DEF SaveKeepsNewer, Keep
  <2>2. at = "form"
    BY <1>7 DEF SaveKeepsNewer, SavesOfForm
  <2>3. QED BY <1>7, <2>1, <2>2 DEF SaveKeepsNewer, TypingInv
<1>8. CASE LatestLands
  BY <1>8 DEF LatestLands, TypingInv
<1>9. QED
  BY <1>1, <1>2, <1>3, <1>4, <1>5, <1>6, <1>7, <1>8
  DEF Next, Loading, Saving, Imaging, Others, formVars, vars,
      LoadRead, LoadAnswer, SubmitInvalid, Submit, SaveCommit, SaveRead, SaveAnswer,
      SaveRefused, SaveFails, AskLatest, LatestFails, Upload, UploadStored, UploadAnswer,
      UploadLands, UploadEndsBadly, AskRemoval, RemovalCommit, RemovalLands, RemovalFails

\* What the user typed and neither saved nor dropped is in the form or kept,
\* through refused and failed saves, reloads and expired sessions.
THEOREM TypingCorrect == Spec => []TypingSurvives
<1>1. Init => TypingInv
  BY DEF Init, TypingInv
<1>2. TypingInv => TypingSurvives
  BY DEF TypingInv, TypingSurvives
<1>3. QED BY <1>1, <1>2, TypingStep, SavesCorrect, PTL DEF Spec

-------------------------------------------------------------------------------
(* Conflicts                                                                *)

\* While nobody else has changed the row since this tab's last answered save,
\* the tab holds its version, or is about to: in the form, in the save's answer
\* or in a load.
OwnInv ==
  ~foreign /\ Exists =>
    /\ at = "form" /\ save.at \in {"none", "sent"} => item.version = row.version
    /\ save.at \in {"read", "answered"} => save.got.version = row.version
    /\ load.at \in {"read", "answered"} /\ load.got.content # None => load.got.version = row.version

LEMMA OwnStep == TypeInv /\ SavesOfForm /\ OwnInv /\ [Next]_vars => OwnInv'
<1> SUFFICES ASSUME TypeInv, SavesOfForm, OwnInv, [Next]_vars PROVE OwnInv'
  OBVIOUS
<1>0. /\ item \in RowType /\ answer.image \in Nat
      /\ row \in RowType /\ row.version \in Nat /\ version \in Nat /\ row.version <= version
      /\ load \in [at : {"none", "asked", "read", "answered"}, got : RowType]
      /\ save \in [at : {"none", "sent", "committed", "read", "answered"},
                   sent : Drafts \union {None}, expected : Nat, made : Nat, got : RowType]
      /\ save.got \in RowType /\ load.got \in RowType
      /\ ~Exists => row.version = 0
      /\ NoSave.at = "none" /\ NoLoad.at = "none"
  BY RowFields, NoneTypes
  DEF TypeInv, RowInv, RowTypeOK, FormType, ImageType, LoadType, SaveType, Missing, Exists
\* Steps that leave the versions alone, and what the tab holds of them.
<1>1. ASSUME UNCHANGED <<at, item, save, load, foreign>>,
             Exists' => Exists /\ row'.version = row.version
      PROVE  OwnInv'
  BY <1>1 DEF OwnInv
<1>2. CASE Open \/ AskLatest
  <2>1. load'.at = "asked"
    BY <1>2 DEF Open, AskLatest, NoLoad
  <2>2. UNCHANGED <<row, save, item, foreign>> /\ (at' = at \/ at' = "loading")
    BY <1>2 DEF Open, AskLatest, rowVars, formVars
  <2>3. QED BY <2>1, <2>2 DEF OwnInv, Exists
<1>3. CASE LoadRead
  <2>1. load'.got = row /\ UNCHANGED <<row, save, item, foreign, at>>
    BY <1>3 DEF LoadRead, rowVars, formVars
  <2>2. QED BY <2>1 DEF OwnInv, Exists
<1>4. CASE LoadAnswer
  <2>1. /\ load'.got.version = load.got.version /\ load'.got.content = load.got.content
        /\ load.at = "read" /\ UNCHANGED <<row, save, item, foreign, at>>
    BY <1>0, <1>4, WithImageType DEF LoadAnswer, rowVars, formVars
  <2>2. QED BY <2>1 DEF OwnInv, Exists
<1>5. CASE Mount
  <2>1. load'.at = "none" /\ load.at = "answered" /\ UNCHANGED <<row, save, foreign>>
    BY <1>0, <1>5 DEF Mount, rowVars
  <2>2. CASE load.got.content = None
    BY <1>5, <2>1, <2>2 DEF Mount, OwnInv, Exists
  <2>3. CASE load.got.content # None
    BY <1>5, <2>1, <2>3 DEF Mount, OwnInv, Exists
  <2>4. QED BY <2>2, <2>3
<1>6. CASE GoAway \/ Discard \/ SaveDone
  <2>1. at' = "away" /\ save'.at = "none" /\ load'.at = "none"
    BY <1>6, GoneType DEF GoAway, Discard, SaveDone
  <2>2. QED BY <2>1 DEF OwnInv
<1>7. CASE DropRestored \/ \E d \in Drafts : Type(d)
  BY <1>1, <1>7 DEF DropRestored, Type, rowVars, loadVars, Exists
<1>8. CASE SubmitInvalid
  BY <1>1, <1>8 DEF SubmitInvalid, rowVars, loadVars, Exists
<1>9. CASE Submit
  <2>1. /\ save.at = "none" /\ save'.at = "sent"
        /\ UNCHANGED <<row, item, load, foreign, at>>
    BY <1>9 DEF Submit, NoSave, rowVars, loadVars
  <2>2. QED BY <2>1 DEF OwnInv, Exists
<1>10. CASE SaveCommit
  <2>1. save.at = "sent" /\ save'.at = "committed" /\ load' = load
    BY <1>0, <1>10 DEF SaveCommit, loadVars
  <2>2. load.at = "none"
    BY <2>1 DEF SavesOfForm
  <2>3. QED BY <2>1, <2>2 DEF OwnInv
<1>11. CASE SaveRead
  <2>1. /\ save'.at = "read" /\ save'.got = row
        /\ UNCHANGED <<row, item, load, foreign, at>>
    BY <1>0, <1>11 DEF SaveRead, rowVars, formVars, loadVars
  <2>2. QED BY <2>1 DEF OwnInv, Exists
<1>12. CASE SaveAnswer
  <2>1. /\ save.at = "read" /\ save'.at = "answered" /\ save'.got.version = save.got.version
        /\ UNCHANGED <<row, item, load, foreign, at>>
    BY <1>0, <1>12, WithImageType DEF SaveAnswer, rowVars, formVars, loadVars
  <2>2. QED BY <2>1 DEF OwnInv, Exists
<1>13. CASE SaveKeepsNewer
  <2>1. /\ save.at = "answered" /\ item' = save.got /\ save'.at = "none"
        /\ UNCHANGED <<row, load, foreign, at>>
    BY <1>0, <1>13 DEF SaveKeepsNewer, rowVars, loadVars
  <2>2. QED BY <2>1 DEF OwnInv, Exists
<1>14. CASE SaveRefused
  <2>1. save.at = "sent" /\ save'.at = "none" /\ UNCHANGED <<row, item, load, foreign, at>>
    BY <1>0, <1>14 DEF SaveRefused, rowVars, loadVars
  <2>2. QED BY <2>1 DEF OwnInv, Exists
<1>15. CASE SaveFails
  <2>1. save'.at = "none" /\ UNCHANGED <<row, item, load, at>>
    BY <1>0, <1>15 DEF SaveFails, rowVars, formVars, loadVars
  <2>2. ~foreign' => ~foreign /\ save.at = "sent"
    BY <1>15 DEF SaveFails
  <2>3. QED BY <2>1, <2>2 DEF OwnInv, Exists
<1>16. CASE LatestLands
  <2>1. load'.at = "none" /\ load.at = "answered" /\ UNCHANGED <<row, save, foreign, at>>
    BY <1>0, <1>16 DEF LatestLands, rowVars
  <2>2. CASE load.got.content = None
    BY <1>16, <2>1, <2>2 DEF LatestLands, OwnInv, Exists
  <2>3. CASE load.got.content # None
    BY <1>16, <2>1, <2>3 DEF LatestLands, OwnInv, Exists
  <2>4. QED BY <2>2, <2>3
<1>17. CASE LatestFails
  <2>1. load'.at = "none" /\ UNCHANGED <<row, item, save, foreign, at>>
    BY <1>0, <1>17 DEF LatestFails, rowVars, formVars
  <2>2. QED BY <2>1 DEF OwnInv, Exists
<1>18. CASE UploadLands \/ RemovalLands
  <2>1. item'.version = item.version
    BY <1>18, LandsVersion
  <2>2. UNCHANGED <<row, load, save, foreign, at>>
    BY <1>18 DEF UploadLands, RemovalLands, rowVars, loadVars
  <2>3. QED BY <2>1, <2>2 DEF OwnInv, Exists
\* Nobody but Create, Seed, Update and Delete changes what OwnInv says of the row.
<1>19. CASE Upload \/ UploadStored \/ UploadAnswer \/ UploadEndsBadly
            \/ AskRemoval \/ RemovalCommit \/ RemovalFails
  <2>1. UNCHANGED <<at, item, save, load, foreign>>
    BY <1>19 DEF Upload, UploadStored, UploadAnswer, UploadEndsBadly, AskRemoval,
                 RemovalCommit, RemovalFails, formVars, loadVars
  <2>2. row' = row \/ \E u \in Uploads : UploadWrite(u) \/ Remove
    BY <1>19, EditorAssumption
    DEF Upload, UploadStored, UploadAnswer, UploadEndsBadly, UploadRead, UploadFails,
        AskRemoval, RemovalCommit, RemovalFails, rowVars
  <2>3. row'.version = row.version /\ row'.content = row.content
    BY <1>0, <2>2 DEF UploadWrite, Remove, RowType
  <2>4. QED BY <1>1, <2>1, <2>3 DEF Exists
<1>20. CASE Others
  <2>1. UNCHANGED <<at, item, save, load>>
    BY <1>20 DEF Others, formVars, loadVars
  <2>2. CASE OthersChange
    <3>1. CASE row'.version # row.version
      BY <2>2, <3>1 DEF OthersChange, OwnInv
    <3>2. CASE row'.version = row.version
      <4>1. foreign' = foreign
        BY <2>2, <3>2, <1>0 DEF OthersChange, TypeInv
      <4>2. ~Exists => FALSE
        <5> SUFFICES ASSUME ~Exists PROVE FALSE
          OBVIOUS
        <5>1. PICK c \in Contents : Create(c) \/ Seed(c)
          BY <2>2 DEF OthersChange, Update
        <5>2. row'.version = version + 1
          BY <5>1 DEF Create, Seed
        <5>3. QED BY <1>0, <3>2, <5>2
      <4>3. QED BY <1>1, <2>1, <3>2, <4>1, <4>2
    <3>3. QED BY <3>1, <3>2
  <2>3. CASE Delete
    <3>1. ~Exists'
      BY <2>3, MissingType DEF Delete, Exists
    <3>2. QED BY <3>1 DEF OwnInv
  <2>4. CASE ~OthersChange /\ ~Delete
    <3>1. foreign' = foreign
      BY <1>20, <2>4 DEF Others
    <3>2. row'.version = row.version /\ row'.content = row.content
      BY <1>0, <1>20, <2>4 DEF Others, Remove, UploadRead, UploadWrite, UploadFails, RowType
    <3>3. QED BY <1>1, <2>1, <3>1, <3>2 DEF Exists
  <2>5. QED BY <2>2, <2>3, <2>4
<1>21. CASE UNCHANGED vars
  BY <1>1, <1>21 DEF vars, formVars, loadVars, rowVars, Exists
<1>22. QED
  BY <1>2, <1>3, <1>4, <1>5, <1>6, <1>7, <1>8, <1>9, <1>10, <1>11, <1>12, <1>13, <1>14,
     <1>15, <1>16, <1>17, <1>18, <1>19, <1>20, <1>21
  DEF Next, Loading, Saving, Imaging

\* A save is refused as changed elsewhere only when somebody else changed the
\* row, or a save of this tab got no answer: image changes and the tab's own
\* answered saves never make the next save fail.
THEOREM ConflictCorrect == Spec => NoSelfConflict
<1>1. Init => OwnInv
  BY NoneTypes DEF Init, OwnInv
<1>2. Spec => [](SavesOfForm /\ OwnInv)
  BY <1>1, OwnStep, SavesCorrect, PTL DEF Spec
<1>3. SavesOfForm /\ OwnInv => (SaveRefused => foreign)
  <2> SUFFICES ASSUME SavesOfForm, OwnInv, SaveRefused, ~foreign PROVE FALSE
    OBVIOUS
  <2>1. save.at = "sent" /\ Exists /\ row.version # save.expected
    BY DEF SaveRefused, Refused
  <2>2. at = "form" /\ save.expected = item.version
    BY <2>1 DEF SavesOfForm
  <2>3. QED BY <2>1, <2>2 DEF OwnInv
<1>4. QED BY <1>2, <1>3, PTL DEF NoSelfConflict

=============================================================================
