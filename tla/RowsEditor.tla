------------------------------ MODULE RowsEditor ------------------------------
(***************************************************************************)
(* The lists inside the editor's form: a role's bullets, in two languages  *)
(* that go row by row together (editor/BulletsEditor.tsx), and chips, each *)
(* a noun or a term in two languages (editor/TagListEditor.tsx).  Errors   *)
(* are kept by path (ContentEditorForm.tsx, validation.ts), so adding,     *)
(* moving and removing rows must not leave them on another row's text; and *)
(* the focus is sent to a control by its id.  ProjectEditor follows the    *)
(* rest of the form.                                                       *)
(***************************************************************************)
EXTENDS Naturals, Sequences

CONSTANTS MaxRows    (* field.max. *)
Bounds == MaxRows \in Nat \ {0}

VARIABLES
  field,         (* Which list is followed: bullets or tags.                 *)
  draft,         (* Its part of the form.                                    *)
  errors,        (* [path, why], why "invalid" here or "rejected" there.     *)
  form,          (* Whether there is a form-level message.                   *)
  saving,        (* The save: [at, sent, fields].                            *)
  focus,         (* Where the form last sent the focus.                      *)
  edited         (* History: the draft was changed during the last save.     *)

vars == <<field, draft, errors, form, saving, focus, edited>>

\* What a text is to the checks: missing, fine, or refused by the server only.
Texts == {"", "good", "odd"}
Locales == {"en", "zh"}
Lists == [en : UNION {[1..n -> Texts] : n \in 0..MaxRows}, zh : UNION {[1..n -> Texts] : n \in 0..MaxRows}]
Noun(text) == [term |-> FALSE, en |-> text, zh |-> ""]
Term(en, zh) == [term |-> TRUE, en |-> en, zh |-> zh]
Chips == {Noun(text) : text \in Texts} \cup {Term(en, zh) : en \in Texts, zh \in Texts}
Tags == [tags : UNION {[1..n -> Chips] : n \in 0..MaxRows}]

Idle == [at |-> "none", sent |-> "nothing", fields |-> {}]

Count(d) ==
  IF field = "tags" THEN Len(d.tags) ELSE IF Len(d.en) > Len(d.zh) THEN Len(d.en) ELSE Len(d.zh)

\* The texts that the draft has, by path, and what they are.
Cells(d) ==
  IF field = "bullets" THEN UNION {{<<l, i>> : i \in DOMAIN d[l]} : l \in Locales}
  ELSE {<<"tags", i>> : i \in {j \in DOMAIN d.tags : ~d.tags[j].term}}
       \cup {<<"tags", i, l>> : i \in {j \in DOMAIN d.tags : d.tags[j].term}, l \in Locales}
getAt(d, path) ==
  IF field = "bullets" THEN d[path[1]][path[2]]
  ELSE IF Len(path) = 2 THEN d.tags[path[2]].en ELSE d.tags[path[2]][path[3]]
setAt(d, path, text) ==
  IF field = "bullets" THEN [d EXCEPT ![path[1]][path[2]] = text]
  ELSE IF Len(path) = 2 THEN [d EXCEPT !.tags[path[2]].en = text] ELSE [d EXCEPT !.tags[path[2]][path[3]] = text]

Whole == IF field = "bullets" THEN {<<l>> : l \in Locales} ELSE {<<"tags">>}
\* Both lists of a field have at least one row, as a skill group's have.
validateDraft(d) == {p \in Cells(d) : getAt(d, p) = ""} \cup {p \in Whole : d[p[1]] = <<>>}

\* Where an error can be kept, and the controls that show one as invalid: a chip's
\* on its first text box, a list's on the button that adds.
errorSlots(d) == Whole \cup Cells(d) \cup (IF field = "tags" THEN {<<"tags", i>> : i \in DOMAIN d.tags} ELSE {})
Shows(d, path) ==
  IF path \in Whole THEN {<<"add">>}
  ELSE IF path \in Cells(d) THEN {path}
  ELSE IF path \in errorSlots(d) THEN {<<path[1], path[2], "en">>} ELSE {}
Invalid(d, es) == UNION {Shows(d, e.path) : e \in es}

Controls(d) ==
  Cells(d) \cup {<<"en", i>> : i \in {j \in 1..Count(d) : field = "bullets"}} \cup {<<"add">>} \cup {<<"row", i, a>> : i \in 1..Count(d), a \in {"up", "down", "remove"}}

\* A row as loaded has as many bullets in each language; a new one has one, and no chips.
Loaded(d) == validateDraft(d) = {} /\ (field = "bullets" => Len(d.en) = Len(d.zh))
Empty == IF field = "bullets" THEN [en |-> <<"">>, zh |-> <<"">>] ELSE [tags |-> <<>>]

Init ==
  /\ field \in {"bullets", "tags"}
  /\ draft \in {d \in (IF field = "bullets" THEN Lists ELSE Tags) : Loaded(d) \/ d = Empty}
  /\ errors = {} /\ form = FALSE /\ saving = Idle /\ focus = <<"user">> /\ edited = FALSE

-------------------------------------------------------------------------------
(* Editing.                                                                  *)

\* Mutant: only the errors of the changed paths themselves are cleared.
clearErrorsThere(es, paths) == {e \in es : e.path \notin paths}

startsWith(path, p) == Len(p) <= Len(path) /\ \A n \in DOMAIN p : path[n] = p[n]

\* Without the errors at the paths and below them.
clearErrors(es, paths) == {e \in es : \A p \in paths : ~startsWith(e.path, p)}

\* apply: the draft, and the errors of what changed.
apply(d, paths) ==
  /\ draft' = d /\ errors' = clearErrors(errors, paths)
  /\ edited' = (edited \/ saving.at # "none")
  /\ UNCHANGED <<field, form, saving>>

type(cell, text) ==
  /\ text # getAt(draft, cell) /\ apply(setAt(draft, cell, text), {cell}) /\ focus' = <<"user">>

\* A chip becomes a term with its text in English, or a noun with what that was.
setKind(i) ==
  LET tag == draft.tags[i] IN
  /\ apply([draft EXCEPT !.tags[i] = IF tag.term THEN Noun(tag.en) ELSE Term(tag.en, "")], {<<"tags", i>>})
  /\ focus' = <<"user">>

\* Both languages change together, the shorter list padded first.
pad(list) == [i \in 1..Count(draft) |-> IF i \in DOMAIN list THEN list[i] ELSE ""]

addBullet ==
  /\ Count(draft) < MaxRows
  /\ apply([l \in DOMAIN draft |-> Append(pad(draft[l]), "")], Whole)
  /\ focus' = <<"en", Count(draft) + 1>>

addTag(tag) ==
  /\ Count(draft) < MaxRows
  /\ apply([draft EXCEPT !.tags = Append(@, tag)], Whole)
  /\ focus' = IF tag.term THEN <<"tags", Count(draft) + 1, "en">> ELSE <<"tags", Count(draft) + 1>>

swapped(list, a, b) == [list EXCEPT ![a] = list[b], ![b] = list[a]]
move(i, action) ==
  LET target == IF action = "up" THEN i - 1 ELSE i + 1 IN
     /\ target \in 1..Count(draft)
     /\ apply([l \in DOMAIN draft |-> swapped(pad(draft[l]), i, target)], Whole)
     /\ focus' = <<"row", target, action>>

without(list, i) == [n \in 1..Len(list) - 1 |-> IF n < i THEN list[n] ELSE list[n + 1]]

\* The last bullet stays, the last chip need not.
remove(i) ==
  LET left == Count(draft) - 1 IN
     /\ field = "bullets" => left > 0
     /\ apply([l \in DOMAIN draft |-> without(pad(draft[l]), i)], Whole)
     /\ focus' = IF left = 0 THEN <<"add">> ELSE <<"row", IF i <= left THEN i ELSE left, "remove">>

-------------------------------------------------------------------------------
(* Saving.                                                                   *)

\* failed: the errors are shown, and the first is focused.
failed(es, message) ==
  /\ errors' = es /\ form' = message
  /\ focus' \in IF message THEN {<<"message">>} ELSE IF Invalid(draft, es) = {} THEN {focus} ELSE Invalid(draft, es)

onSubmit ==
  /\ saving.at = "none" /\ edited' = FALSE
  /\ IF validateDraft(draft) # {}
     THEN failed({[path |-> p, why |-> "invalid"] : p \in validateDraft(draft)}, FALSE) /\ UNCHANGED saving
     ELSE /\ errors' = {} /\ form' = FALSE /\ focus' = <<"user">>
          /\ saving' = [Idle EXCEPT !.at = "sent", !.sent = draft]
  /\ UNCHANGED <<field, draft>>

\* The keys of a 422: a bullet's path, or the chip's, whichever of its texts it is.
Keys(d) ==
  {IF field = "bullets" THEN p ELSE <<p[1], p[2]>> : p \in {c \in Cells(d) : getAt(d, c) = "odd"}}

\* The server refuses what only it can tell, a rule about the row, or nothing.
UpdateItem ==
  /\ saving.at = "sent"
  /\ saving' \in {[saving EXCEPT !.at = "refused", !.fields = Keys(saving.sent)],
                  [saving EXCEPT !.at = "refused", !.fields = Keys(saving.sent) \cup {<<>>}]}
                 \cup (IF Keys(saving.sent) = {} THEN {[saving EXCEPT !.at = "saved"]} ELSE {})
  /\ saving'.at = "refused" => saving'.fields # {}
  /\ UNCHANGED <<field, draft, errors, form, focus, edited>>

\* Each key goes to the most specific slot it starts with.
Slotted(key, slots) == {p \in slots : startsWith(key, p) /\ \A q \in slots : startsWith(key, q) => Len(q) <= Len(p)}
mapServerFields(keys, slots) ==
  [errors |-> {[path |-> p, why |-> "rejected"] : p \in UNION {Slotted(key, slots) : key \in keys}},
   unmatched |-> {key \in keys : Slotted(key, slots) = {}}]

Refused ==
  /\ saving.at = "refused" /\ saving' = Idle
  /\ LET mapped == mapServerFields(saving.fields, errorSlots(saving.sent))
     IN failed(mapped.errors, mapped.unmatched # {})
  /\ UNCHANGED <<field, draft, edited>>

\* No answer, or an error about no field.
SaveFails ==
  /\ saving.at # "none" /\ saving' = Idle /\ failed({}, TRUE)
  /\ UNCHANGED <<field, draft, edited>>

\* The row is saved: the form stays with what was typed meanwhile, or goes, and is the
\* same when it is opened again.
Saved ==
  /\ saving.at = "saved" /\ saving' = Idle /\ focus' = <<"user">>
  /\ UNCHANGED <<field, draft, errors, form, edited>>

Next ==
  \/ \E cell \in Cells(draft), text \in Texts : type(cell, text)
  \/ field = "bullets" /\ addBullet
  \/ field = "tags" /\ (addTag(Noun("")) \/ addTag(Term("", "")) \/ \E i \in DOMAIN draft.tags : setKind(i))
  \/ \E i \in 1..Count(draft) : remove(i) \/ move(i, "up") \/ move(i, "down")
  \/ onSubmit \/ UpdateItem \/ Refused \/ SaveFails \/ Saved

Spec == Init /\ [][Next]_vars

-------------------------------------------------------------------------------

TypeOK ==
  /\ field \in {"bullets", "tags"} /\ draft \in (IF field = "bullets" THEN Lists ELSE Tags)
  /\ \A e \in errors : e.why \in {"invalid", "rejected"}
  /\ form \in BOOLEAN /\ saving.at \in {"none", "sent", "refused", "saved"} /\ edited \in BOOLEAN
  /\ focus \in Controls(draft) \cup {<<"user">>, <<"message">>}

\* "The two locales always have the same number of bullets"; the focus is only ever
\* sent to a control that is there; and an error on the form is shown on a control and
\* is about the text it is shown on; whatever rows are added, moved, removed and
\* switched (the errors, unless that was done while a save was on its way).  What the
\* server says of a translated chip as a whole is not about one text.
ErrorsTrue ==
  /\ field = "bullets" => Len(draft.en) = Len(draft.zh)
  /\ focus \in Controls(draft) \cup {<<"user">>, <<"message">>}
  /\ ~edited => \A e \in errors :
       /\ Shows(draft, e.path) # {}
       /\ e.why = "invalid" => e.path \in validateDraft(draft)
       /\ e.why = "rejected" /\ e.path \in Cells(draft) => getAt(draft, e.path) = "odd"
===============================================================================
