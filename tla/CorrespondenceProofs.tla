------------------------- MODULE CorrespondenceProofs -------------------------
(***************************************************************************)
(* What Correspondence keeps true for any number of tokens, submissions    *)
(* and sessions.  Each part has its inductive invariant, which its own     *)
(* steps keep and the steps of the others leave alone.                     *)
(***************************************************************************)
EXTENDS Correspondence, SequenceTheorems, FiniteSetTheorems, WellFoundedInduction, TLAPS

-------------------------------------------------------------------------------
(* The contact form.                                                         *)

Forms ==
  [mounted : BOOLEAN, values : [Fields -> Sender!Contents], website : BOOLEAN,
   errors : [Sender!Marks -> Sender!Faults], attempted : BOOLEAN, status : Sender!Statuses,
   request : 0 .. MaxRequests, challenge : BOOLEAN,
   issue : [token : 0 .. MaxTokens, current : BOOLEAN]]

Submissions ==
  [at : {"unsent", "sent", "verifying", "storing", "sending", "marking", "answered", "lost"},
   token : 0 .. MaxTokens, body : [Fields -> Sender!Contents], website : BOOLEAN,
   answer : {0} \cup Sender!Answers, fields : SUBSET Sender!Marks,
   mark : {"pending", "sent", "failed"}]

LEMMA SenderBounds ==
  /\ "turnstile" \in Sender!Marks /\ Fields \subseteq Sender!Marks /\ "turnstile" \notin Fields
  /\ MaxTokens \in Nat /\ MaxRequests \in Nat
  BY CorrespondenceAssumption DEF Sender!Bounds, Sender!Marks

LEMMA SenderTypes ==
  Sender!TypeOK <=>
    /\ form \in Forms /\ issued \in 0 .. MaxTokens
    /\ req \in [Sender!Requests -> Submissions]
    /\ row \in [Sender!Requests -> {"none", "pending", "sent", "failed", "deleted"}]
    /\ spent \subseteq Sender!Tokens /\ mailed \subseteq Sender!Requests
    /\ stored \subseteq Sender!Requests
  BY DEF Sender!TypeOK, Forms, Submissions

LEMMA SenderBlanks ==
  /\ Sender!Empty \in [Fields -> Sender!Contents]
  /\ Sender!NoErrors \in [Sender!Marks -> Sender!Faults]
  /\ Sender!NoToken \in [token : 0 .. MaxTokens, current : BOOLEAN] /\ Sender!NoToken.token = 0
  BY SenderBounds DEF Sender!Empty, Sender!NoErrors, Sender!NoToken, Sender!Contents, Sender!Faults

\* The forms that the page starts from.
LEMMA FormsFresh ==
  /\ Sender!Mounted \in Forms /\ Sender!Unmounted \in Forms
  /\ Sender!Unmounted.request = 0 /\ Sender!Unmounted.status = "idle"
  /\ Sender!Unmounted.issue.token = 0
  /\ Sender!Mounted.request = 0 /\ Sender!Mounted.status = "idle" /\ Sender!Mounted.issue.token = 0
<1>1. /\ Sender!Mounted \in Forms /\ Sender!Mounted.request = 0
      /\ Sender!Mounted.status = "idle" /\ Sender!Mounted.issue.token = 0
  BY SenderBounds, SenderBlanks DEF Forms, Sender!Mounted, Sender!Statuses
<1>2. Sender!Unmounted = [Sender!Mounted EXCEPT !.mounted = FALSE, !.challenge = FALSE]
  BY DEF Sender!Unmounted
<1> QED BY <1>1, <1>2 DEF Forms

\* A token that is dropped is asked for again.
LEMMA ResetForm ==
  ASSUME NEW f \in Forms
  PROVE  /\ Sender!Reset(f) \in Forms /\ Sender!Reset(f).issue.token = 0
         /\ Sender!Reset(f).request = f.request /\ Sender!Reset(f).status = f.status
  BY SenderBlanks DEF Forms, Sender!Reset

\* What is left of a submission that was answered.
LEMMA OverType ==
  ASSUME NEW i \in Sender!Requests, req \in [Sender!Requests -> Submissions],
         NEW end \in {"answered", "lost"}, NEW r, r = Sender!Over(i, end)
  PROVE  /\ r \in Submissions /\ r.at = end /\ r.token = req[i].token /\ r.website = req[i].website
         /\ r.answer = req[i].answer
  BY ZenonT(30) DEF Sender!Over, Sender!Empty, Submissions, Sender!Contents

\* Every answer leaves the form with no submission under way; unless it says that
\* the token was not spent, or that all is well, the token is dropped.
LEMMA SettledForm ==
  ASSUME NEW r \in Submissions, form \in Forms, NEW f, f = Sender!Settled(r)
  PROVE  /\ f \in Forms /\ f.request = 0 /\ f.status \in Sender!Statuses \ {"submitting"}
         /\ f.issue.token = form.issue.token \/ f.issue.token = 0
         /\ r.answer \in {422, 429} \/ f.issue.token = 0 \/ f.status = "success"
<1> DEFINE done == [form EXCEPT !.request = 0]
<1>0. done \in Forms /\ done.request = 0 /\ done.issue = form.issue
  BY SenderBounds DEF Forms
<1>1. CASE r.answer = 202
  <2>1. f = [done EXCEPT !.values = Sender!Empty, !.website = FALSE, !.status = "success"]
    BY <1>1 DEF Sender!Settled
  <2> HIDE DEF done
  <2> QED BY <1>0, <2>1, SenderBlanks, ZenonT(30) DEF Forms, Sender!Statuses
<1>2. CASE r.answer = 422 /\ r.fields = {}
  <2>1. f = [done EXCEPT !.status = "error"]
    BY <1>2 DEF Sender!Settled
  <2> HIDE DEF done
  <2> QED BY <1>0, <1>2, <2>1 DEF Forms, Sender!Statuses
<1>3. CASE r.answer = 422 /\ r.fields # {}
  <2> DEFINE named == Sender!serverFieldErrors(r.fields)
  <2>1. f = [done EXCEPT !.errors = named, !.status = "invalid"]
    BY <1>3 DEF Sender!Settled
  <2>2. named \in [Sender!Marks -> Sender!Faults]
    BY DEF Sender!serverFieldErrors, Sender!Faults
  <2>3. r.answer = 422
    BY <1>3
  <2> HIDE DEF done, named
  <2>4. [done EXCEPT !.errors = named] \in Forms
    BY <1>0, <2>2 DEF Forms
  <2>5. f \in Forms /\ f.request = 0 /\ f.issue = form.issue /\ f.status = "invalid"
    BY <1>0, <2>1, <2>2 DEF Forms, Sender!Statuses
  <2> QED BY <2>3, <2>5 DEF Sender!Statuses
<1>4. CASE r.answer = 429
  <2>1. f = [done EXCEPT !.status = "rateLimited"]
    BY <1>4 DEF Sender!Settled
  <2> HIDE DEF done
  <2> QED BY <1>0, <1>4, <2>1 DEF Forms, Sender!Statuses
<1>5. CASE r.answer \notin {202, 422, 429}
  <2> DEFINE g == [done EXCEPT !.status = "error"]
  <2>1. f = Sender!Reset(g)
    BY <1>5 DEF Sender!Settled
  <2> HIDE DEF done
  <2>2. g \in Forms /\ g.request = 0 /\ g.status = "error"
    BY <1>0 DEF Forms, Sender!Statuses
  <2> HIDE DEF g
  <2> QED BY <2>1, <2>2, ResetForm DEF Sender!Statuses
<1> QED BY <1>1, <1>2, <1>3, <1>4, <1>5

-------------------------------------------------------------------------------

Held(i) == req[i].at \in {"storing", "sending", "marking"} \/ i \in stored

\* A token is the form's, or a submission's, before it is spent.
TokenInv ==
  /\ form.issue.token <= issued /\ spent \subseteq 1 .. issued
  /\ \A i \in Sender!Requests : req[i].token <= issued /\ (req[i].at # "unsent" => req[i].token # 0)
  /\ form.status = "submitting" <=> form.request # 0
  /\ \A i \in Sender!Requests :
       req[i].at \in {"sent", "verifying"} /\ form.request # i /\ form.issue.token # 0
         => form.issue.token # req[i].token
  /\ form.issue.token \in spent /\ form.status # "success" =>
       /\ form.request # 0 /\ req[form.request].at \notin {"unsent", "sent"}
       /\ req[form.request].at = "answered" => req[form.request].answer \notin {422, 429}

\* What the server has of a submission at each stage, and one token each.
DeliveryInv ==
  /\ \A i \in Sender!Requests :
       /\ req[i].at \in {"unsent", "sent", "verifying", "storing"} => i \notin stored
       /\ req[i].at \in {"sending", "marking"} => i \in stored
       /\ req[i].at \in {"verifying", "storing", "sending", "marking"} => ~req[i].website
       /\ req[i].at = "marking" /\ req[i].mark = "sent" => i \in mailed
       /\ Held(i) => req[i].token \in spent
  /\ \A i, j \in Sender!Requests : Held(i) /\ Held(j) /\ req[i].token = req[j].token => i = j
  /\ Sender!AnswersTrue /\ Sender!DeliveryTrue

SenderInv == Sender!TypeOK /\ TokenInv /\ DeliveryInv

\* What a step of the page does to the form: a token it keeps belongs to what it did
\* before, and an answer that leaves one says that it was not spent.
FormMoves ==
  /\ form' \in Forms
  /\ \/ issued' = issued /\ form'.issue.token \in {0, form.issue.token}
     \/ issued' = issued + 1 /\ issued' <= MaxTokens /\ form'.issue.token = issued'
  /\ form'.status = "submitting" <=> form'.request # 0
  /\ \/ form'.issue.token = 0
     \/ form'.request = form.request /\ (form.status = "success" => form'.status = "success")
     \/ /\ form.request # 0 /\ req[form.request].at = "answered" /\ form'.request = 0
        /\ req[form.request].answer \in {422, 429} \/ form'.status = "success"

Submits == Sender!onSubmit /\ Sender!Invalid = Sender!NoErrors

LEMMA FormSteps ==
  ASSUME Sender!TypeOK, TokenInv, Sender!Page, ~Submits
  PROVE  FormMoves /\ UNCHANGED <<req, row, spent, mailed, stored>>
<1>0. /\ form \in Forms /\ issued \in 0 .. MaxTokens /\ MaxTokens \in Nat
      /\ form.issue.token \in 0 .. MaxTokens /\ form.request \in 0 .. MaxRequests
      /\ req \in [Sender!Requests -> Submissions]
      /\ form.issue \in [token : 0 .. MaxTokens, current : BOOLEAN]
      /\ form.status = "submitting" <=> form.request # 0
  BY SenderTypes, SenderBounds DEF TokenInv, Forms
<1>1. CASE Sender!Mount \/ Sender!Unmount
  BY <1>0, <1>1, FormsFresh DEF Sender!Mount, Sender!Unmount, Sender!server, FormMoves
<1>2. CASE Sender!SwitchTheme
  <2>1. PICK issue \in [token : 0 .. MaxTokens, current : BOOLEAN], on \in BOOLEAN :
          /\ form' = [form EXCEPT !.challenge = on, !.issue = issue]
          /\ issue.token = form.issue.token
    <3> DEFINE flipped == [form.issue EXCEPT !.current = ~form.issue.current]
               issue == IF form.issue = Sender!NoToken THEN form.issue ELSE flipped
    <3>1. flipped \in [token : 0 .. MaxTokens, current : BOOLEAN] /\ flipped.token = form.issue.token
      BY <1>0
    <3> HIDE DEF flipped
    <3>2. issue \in [token : 0 .. MaxTokens, current : BOOLEAN] /\ issue.token = form.issue.token
      BY <1>0, <3>1
    <3>3. form' = [form EXCEPT !.challenge = Sender!OnPage, !.issue = issue]
      BY <1>0, <1>2 DEF Sender!SwitchTheme, flipped, Forms
    <3>4. Sender!OnPage \in BOOLEAN
      BY DEF Sender!OnPage
    <3> HIDE DEF issue
    <3> QED BY <3>2, <3>3, <3>4
  <2>2. UNCHANGED <<issued, req, row, spent, mailed, stored>>
    BY <1>2 DEF Sender!SwitchTheme, Sender!server
  <2>3. /\ form' \in Forms /\ form'.issue = issue
        /\ form'.request = form.request /\ form'.status = form.status
    BY <1>0, <2>1 DEF Forms
  <2> QED BY <1>0, <2>1, <2>2, <2>3 DEF FormMoves
<1>3. CASE Sender!WidgetIssues
  <2> DEFINE issue == [token |-> issued + 1, current |-> TRUE]
             marks == [form.errors EXCEPT !["turnstile"] = "none"]
  <2>1. /\ form.status # "success" /\ issued < MaxTokens /\ issued' = issued + 1
        /\ form' = [form EXCEPT !.issue = issue, !.challenge = FALSE, !.errors = marks]
        /\ UNCHANGED <<req, row, spent, mailed, stored>>
    BY <1>3 DEF Sender!WidgetIssues, Sender!server, Sender!OnPage
  <2>2. issue \in [token : 0 .. MaxTokens, current : BOOLEAN] /\ issue.token = issued'
    BY <1>0, <2>1
  <2>3. marks \in [Sender!Marks -> Sender!Faults]
    BY <1>0, SenderBounds DEF Forms, Sender!Faults
  <2> HIDE DEF issue, marks
  <2>4. /\ form' \in Forms /\ form'.issue = issue
        /\ form'.request = form.request /\ form'.status = form.status
    BY <1>0, <2>1, <2>2, <2>3 DEF Forms
  <2> QED BY <1>0, <2>1, <2>2, <2>4 DEF FormMoves
<1>4. CASE Sender!WidgetLapses
  BY <1>0, <1>4, ResetForm DEF Sender!WidgetLapses, Sender!server, FormMoves
<1>5. CASE Sender!FillHoneypot
  <2>1. /\ form' = [form EXCEPT !.website = TRUE]
        /\ UNCHANGED <<issued, req, row, spent, mailed, stored>>
    BY <1>5 DEF Sender!FillHoneypot, Sender!server
  <2>2. /\ form' \in Forms /\ form'.issue = form.issue
        /\ form'.request = form.request /\ form'.status = form.status
    BY <1>0, <2>1 DEF Forms
  <2> QED BY <1>0, <2>1, <2>2 DEF FormMoves
<1>6. CASE Sender!onSubmit
  <2>1. /\ form.status \notin {"submitting", "success"}
        /\ form' = [form EXCEPT !.attempted = TRUE, !.errors = Sender!Invalid, !.status = "invalid"]
        /\ UNCHANGED <<issued, req, row, spent, mailed, stored>>
    BY <1>6 DEF Sender!onSubmit, Submits, Sender!server, Sender!OnPage
  <2>2. Sender!Invalid \in [Sender!Marks -> Sender!Faults]
    BY DEF Sender!Invalid, Sender!validateField, Sender!Faults
  <2>3. /\ form' \in Forms /\ form'.issue = form.issue
        /\ form'.request = form.request /\ form'.status = "invalid"
    BY <1>0, <2>1, <2>2 DEF Forms, Sender!Statuses
  <2> QED BY <1>0, <2>1, <2>3 DEF FormMoves
<1>7. CASE Sender!AnswerLands
  <2>1. /\ form.request # 0 /\ form.request \in Sender!Requests
        /\ req[form.request].at = "answered" /\ form' = Sender!Settled(req[form.request])
        /\ UNCHANGED <<issued, req, row, spent, mailed, stored>>
    BY <1>0, <1>7, SenderBounds DEF Sender!AnswerLands, Sender!server, Sender!Requests
  <2>2. /\ form' \in Forms /\ form'.request = 0 /\ form'.status \in Sender!Statuses \ {"submitting"}
        /\ form'.issue.token = form.issue.token \/ form'.issue.token = 0
        /\ \/ req[form.request].answer \in {422, 429} \/ form'.issue.token = 0
           \/ form'.status = "success"
    BY <1>0, <2>1, SettledForm
  <2> QED BY <2>1, <2>2 DEF FormMoves
<1>8. CASE Sender!NoAnswer
  <2> DEFINE done == [form EXCEPT !.request = 0]
             f == [done EXCEPT !.status = "error"]
  <2>1. form' = Sender!Reset(f) /\ UNCHANGED <<issued, req, row, spent, mailed, stored>>
    BY <1>8 DEF Sender!NoAnswer, Sender!server
  <2>0. done \in Forms /\ done.request = 0
    BY <1>0, SenderBounds DEF Forms
  <2> HIDE DEF done
  <2>2. f \in Forms /\ f.request = 0 /\ f.status = "error"
    BY <2>0 DEF Forms, Sender!Statuses
  <2> HIDE DEF f
  <2> QED BY <2>1, <2>2, ResetForm DEF FormMoves
<1>9. CASE Sender!startOver
  <2>1. /\ form.status = "success"
        /\ form' = [form EXCEPT !.errors = Sender!NoErrors, !.attempted = FALSE, !.status = "idle",
                                !.issue = Sender!NoToken, !.challenge = TRUE]
        /\ UNCHANGED <<issued, req, row, spent, mailed, stored>>
    BY <1>9 DEF Sender!startOver, Sender!server
  <2>2. /\ form' \in Forms /\ form'.issue.token = 0
        /\ form'.request = form.request /\ form'.status = "idle"
    BY <1>0, <2>1, SenderBlanks DEF Forms, Sender!Statuses
  <2> QED BY <1>0, <2>1, <2>2 DEF FormMoves
<1>10. CASE \E name \in Fields : Sender!blur(name)
  <2>1. PICK name \in Fields : Sender!blur(name)
    BY <1>10
  <2> DEFINE marks == [form.errors EXCEPT ![name] = Sender!validateField(form.values[name])]
  <2>2. /\ form' = [form EXCEPT !.errors = marks]
        /\ UNCHANGED <<issued, req, row, spent, mailed, stored>>
    BY <2>1 DEF Sender!blur, Sender!server
  <2>3. marks \in [Sender!Marks -> Sender!Faults]
    BY <1>0, SenderBounds DEF Forms, Sender!Faults, Sender!validateField
  <2> HIDE DEF marks
  <2>4. /\ form' \in Forms /\ form'.issue = form.issue
        /\ form'.request = form.request /\ form'.status = form.status
    BY <1>0, <2>2, <2>3 DEF Forms
  <2> QED BY <1>0, <2>2, <2>4 DEF FormMoves
<1>11. CASE \E name \in Fields, content \in Sender!Contents : Sender!change(name, content)
  <2>1. PICK name \in Fields, content \in Sender!Contents : Sender!change(name, content)
    BY <1>11
  <2> DEFINE values == [form.values EXCEPT ![name] = content]
             fault == IF form.errors[name] = "none" THEN form.errors[name]
                      ELSE Sender!validateField(content)
             marks == [form.errors EXCEPT ![name] = fault]
  <2>2. /\ form' = [form EXCEPT !.values = values, !.errors = marks]
        /\ UNCHANGED <<issued, req, row, spent, mailed, stored>>
    BY <2>1 DEF Sender!change, Sender!server
  <2>3. fault \in Sender!Faults
    BY DEF Sender!Faults, Sender!validateField
  <2>4. marks \in [Sender!Marks -> Sender!Faults] /\ values \in [Fields -> Sender!Contents]
    BY <1>0, <2>3, SenderBounds DEF Forms
  <2> HIDE DEF marks, values
  <2>5. /\ form' \in Forms /\ form'.issue = form.issue
        /\ form'.request = form.request /\ form'.status = form.status
    BY <1>0, <2>2, <2>4 DEF Forms
  <2> QED BY <1>0, <2>2, <2>5 DEF FormMoves
<1> QED
  BY <1>1, <1>2, <1>3, <1>4, <1>5, <1>6, <1>7, <1>8, <1>9, <1>10, <1>11 DEF Sender!Page

\* A step of the page keeps every token unspent that the form may send.
LEMMA PageKeeps ==
  ASSUME SenderInv, Sender!Page, ~Submits
  PROVE  SenderInv'
<1>0. /\ Sender!TypeOK /\ TokenInv /\ DeliveryInv
      /\ issued \in Nat /\ form.issue.token \in Nat /\ req \in [Sender!Requests -> Submissions]
      /\ \A i \in Sender!Requests : req[i].token \in Nat
  BY SenderTypes, SenderBounds DEF SenderInv, Forms, Submissions
<1>1. FormMoves /\ UNCHANGED <<req, row, spent, mailed, stored>>
  BY <1>0, FormSteps
<1>2. Sender!TypeOK'
  BY <1>0, <1>1, SenderTypes DEF FormMoves, Sender!TypeOK, Forms, Sender!Tokens
<1>3. DeliveryInv'
  BY <1>0, <1>1 DEF DeliveryInv, Held, Sender!AnswersTrue, Sender!DeliveryTrue
<1>4. TokenInv'
  <2>1. issued <= issued' /\ form'.issue.token <= issued' /\ spent' \subseteq 1 .. issued'
    BY <1>0, <1>1 DEF TokenInv, FormMoves
  <2>2. \A i \in Sender!Requests :
          req'[i].token <= issued' /\ (req'[i].at # "unsent" => req'[i].token # 0)
    <3>1. issued' \in Nat /\ issued <= issued' /\ req' = req
      BY <1>0, <1>1 DEF FormMoves
    <3>2. \A i \in Sender!Requests :
            req[i].token <= issued /\ (req[i].at # "unsent" => req[i].token # 0)
      BY <1>0 DEF TokenInv
    <3> QED BY <1>0, <3>1, <3>2
  <2>3. ASSUME NEW i \in Sender!Requests, req'[i].at \in {"sent", "verifying"}, form'.request # i,
               form'.issue.token # 0
        PROVE  form'.issue.token # req'[i].token
    <3>1. CASE form'.issue.token = issued + 1
      BY <1>0, <1>1, <3>1 DEF TokenInv
    <3>2. CASE form'.issue.token = form.issue.token /\ form.request # i
      BY <1>0, <1>1, <2>3, <3>2 DEF TokenInv
    <3>3. CASE form.request = i
      BY <1>1, <2>3, <3>3 DEF FormMoves
    <3> QED BY <1>1, <2>3, <3>1, <3>2, <3>3 DEF FormMoves
  <2>4. ASSUME form'.issue.token \in spent', form'.status # "success"
        PROVE  /\ form'.request # 0 /\ req'[form'.request].at \notin {"unsent", "sent"}
               /\ req'[form'.request].at = "answered" => req'[form'.request].answer \notin {422, 429}
    <3>1. form'.issue.token # 0 /\ form'.issue.token # issued + 1
      BY <1>0, <1>1, <2>4 DEF TokenInv
    <3>2. form'.issue.token = form.issue.token /\ form.issue.token \in spent
      BY <1>1, <2>4, <3>1 DEF FormMoves
    <3>3. \/ form'.request = form.request /\ form.status # "success"
          \/ /\ form.request # 0 /\ req[form.request].at = "answered"
             /\ req[form.request].answer \in {422, 429}
      BY <1>1, <2>4, <3>1 DEF FormMoves
    <3>4. form.request # 0 => form.status = "submitting"
      BY <1>0 DEF TokenInv
    <3> QED BY <1>0, <1>1, <3>2, <3>3, <3>4 DEF TokenInv
  <2>5. form'.status = "submitting" <=> form'.request # 0
    BY <1>1 DEF FormMoves
  <2> QED BY <2>1, <2>2, <2>3, <2>4, <2>5 DEF TokenInv
<1> QED BY <1>2, <1>3, <1>4 DEF SenderInv

\* A form sends a token that nobody has spent, nor will before the server has this
\* submission.
LEMMA SubmitKeeps ==
  ASSUME SenderInv, Submits
  PROVE  SenderInv'
<1>0. /\ Sender!TypeOK /\ TokenInv /\ DeliveryInv /\ form \in Forms
      /\ issued \in Nat /\ form.issue.token \in 0 .. MaxTokens /\ req \in [Sender!Requests -> Submissions]
      /\ \A i \in Sender!Requests : req[i].token \in Nat
  BY SenderTypes, SenderBounds DEF SenderInv, Forms, Submissions
<1>1. PICK i \in Sender!Requests :
        /\ req[i].at = "unsent"
        /\ req' = [req EXCEPT ![i] = [Sender!Unsent EXCEPT
                     !.at = "sent", !.token = Sender!Token(form),
                     !.body = form.values, !.website = form.website]]
        /\ form' = [form EXCEPT !.attempted = TRUE, !.errors = Sender!NoErrors,
                                !.status = "submitting", !.request = i]
  BY DEF Submits, Sender!onSubmit
<1>2. /\ form.status \notin {"submitting", "success"} /\ Sender!Invalid = Sender!NoErrors
      /\ UNCHANGED <<issued, row, spent, mailed, stored>>
  BY DEF Submits, Sender!onSubmit, Sender!OnPage, Sender!server
<1>3. Sender!Token(form) = form.issue.token /\ form.issue.token # 0
  <2>1. Sender!Invalid["turnstile"] = "none"
    BY <1>2, SenderBounds DEF Sender!NoErrors
  <2>2. Sender!Token(form) # 0
    BY <2>1, SenderBounds DEF Sender!Invalid
  <2> QED BY <2>2 DEF Sender!Token
<1>4. i \in Nat \ {0} /\ i \in 0 .. MaxRequests
  BY SenderBounds DEF Sender!Requests
<1>5. form' \in Forms /\ form'.issue = form.issue /\ form'.status = "submitting" /\ form'.request = i
  BY <1>0, <1>1, <1>4, SenderBlanks DEF Forms, Sender!Statuses
<1> DEFINE s == [Sender!Unsent EXCEPT !.at = "sent", !.token = Sender!Token(form),
                                      !.body = form.values, !.website = form.website]
<1>6. s \in Submissions /\ s.at = "sent" /\ s.token = form.issue.token
  <2>1. form.values \in [Fields -> Sender!Contents] /\ form.website \in BOOLEAN
    BY <1>0 DEF Forms
  <2>2. Sender!Unsent \in Submissions
    BY SenderBlanks, SenderBounds DEF Sender!Unsent, Submissions
  <2> HIDE DEF s
  <2>3. s = [Sender!Unsent EXCEPT !.at = "sent", !.token = form.issue.token,
                                  !.body = form.values, !.website = form.website]
    BY <1>3 DEF s
  <2> QED BY <1>0, <2>1, <2>2, <2>3 DEF Submissions
<1>7. req' = [req EXCEPT ![i] = s]
  BY <1>1
<1> HIDE DEF s
<1>8. req' \in [Sender!Requests -> Submissions] /\ req'[i] = s
      /\ \A j \in Sender!Requests : j # i => req'[j] = req[j]
  BY <1>0, <1>6, <1>7
<1>9. Sender!TypeOK'
  BY <1>0, <1>2, <1>5, <1>8 DEF Sender!TypeOK, Forms, Submissions, Sender!Tokens
<1>10. form.request = 0 /\ form.issue.token \notin spent
  BY <1>0, <1>2 DEF TokenInv
<1>11. TokenInv'
  <2>1. \A j \in Sender!Requests :
          req'[j].token <= issued' /\ (req'[j].at # "unsent" => req'[j].token # 0)
    BY <1>0, <1>2, <1>3, <1>6, <1>8 DEF TokenInv
  <2>2. ASSUME NEW j \in Sender!Requests, req'[j].at \in {"sent", "verifying"}, form'.request # j,
               form'.issue.token # 0
        PROVE  form'.issue.token # req'[j].token
    <3>1. j # i /\ req'[j] = req[j] /\ form.request # j
      BY <1>4, <1>5, <1>8, <1>10, <2>2 DEF Sender!Requests
    <3> QED BY <1>0, <1>5, <2>2, <3>1 DEF TokenInv
  <2> QED BY <1>0, <1>2, <1>4, <1>5, <1>10, <2>1, <2>2 DEF TokenInv
<1>12. DeliveryInv'
  <2>1. ~Held(i) /\ ~Held(i)' /\ i \notin stored
    BY <1>0, <1>1, <1>2, <1>6, <1>8 DEF DeliveryInv, Held
  <2>2. \A j \in Sender!Requests : j # i => (Held(j)' <=> Held(j)) /\ req'[j] = req[j]
    BY <1>2, <1>8 DEF Held
  <2>3. \A j \in Sender!Requests : Held(j)' => j # i
    BY <2>1
  <2>4. \A j \in Sender!Requests :
       /\ req'[j].at \in {"unsent", "sent", "verifying", "storing"} => j \notin stored'
       /\ req'[j].at \in {"sending", "marking"} => j \in stored'
       /\ req'[j].at \in {"verifying", "storing", "sending", "marking"} => ~req'[j].website
       /\ req'[j].at = "marking" /\ req'[j].mark = "sent" => j \in mailed'
       /\ Held(j)' => req'[j].token \in spent'
    BY <1>0, <1>2, <1>6, <1>8, <2>1, <2>2 DEF DeliveryInv
  <2>5. \A j, k \in Sender!Requests : Held(j)' /\ Held(k)' /\ req'[j].token = req'[k].token => j = k
    BY <1>0, <2>2, <2>3 DEF DeliveryInv
  <2>6. Sender!AnswersTrue'
    <3>1. stored \subseteq Sender!Requests
      BY <1>0, SenderTypes
    <3>2. \A j \in stored : req'[j] = req[j]
      BY <1>8, <2>1, <3>1
    <3>3. \A j \in Sender!Requests : req'[j].at = "answered" => req'[j] = req[j]
      BY <1>6, <1>8
    <3> QED BY <1>0, <1>2, <3>2, <3>3 DEF DeliveryInv, Sender!AnswersTrue
  <2>7. Sender!DeliveryTrue'
    BY <1>0, <1>2 DEF DeliveryInv, Sender!DeliveryTrue
  <2> QED BY <2>4, <2>5, <2>6, <2>7 DEF DeliveryInv
<1> QED BY <1>9, <1>11, <1>12 DEF SenderInv

\* What a step of the server does with submission i, which becomes r: it may spend
\* its token while it verifies it, store its message, mail it and write its row.
Serves(i, r) ==
  /\ UNCHANGED <<form, issued>>
  /\ r \in Submissions /\ req' = [req EXCEPT ![i] = r]
  /\ r.token = req[i].token /\ r.website = req[i].website
  /\ req[i].at # "unsent" /\ r.at \notin {"unsent", "sent"} /\ (r.at = "verifying" => req[i].at = "sent")
  /\ spent' = spent \/ (spent' = spent \cup {req[i].token} /\ req[i].at = "verifying")
  /\ r.at = "answered" /\ r.answer \in {422, 429} => req[i].at = "sent"
  /\ stored' \in {stored, stored \cup {i}} /\ mailed' \in {mailed, mailed \cup {i}}
  /\ row' \in [Sender!Requests -> {"none", "pending", "sent", "failed", "deleted"}]
  /\ \A j \in Sender!Requests \ {i} : row'[j] = row[j]
  /\ r.at \in {"verifying", "storing"} => i \notin stored'
  /\ r.at \in {"sending", "marking"} => i \in stored'
  /\ r.at \in {"verifying", "storing", "sending", "marking"} => ~r.website
  /\ r.at = "marking" /\ r.mark = "sent" => i \in mailed'
  /\ r.at \in {"storing", "sending", "marking"} \/ i \in stored' =>
       r.token \in spent' /\ (Held(i) \/ r.token \notin spent)
  /\ r.at = "answered" =>
       /\ r.answer = 202 => (i \in stored' <=> ~r.website)
       /\ r.answer \in {400, 422, 429, 503} => i \notin stored'
  /\ row'[i] = "sent" => i \in mailed'
  /\ i \in mailed' => i \in stored'
  /\ row'[i] # "none" => i \in stored'

LEMMA ServesKeeps ==
  ASSUME SenderInv, NEW i \in Sender!Requests, NEW r, Serves(i, r)
  PROVE  SenderInv'
<1>0. /\ Sender!TypeOK /\ TokenInv /\ DeliveryInv /\ req \in [Sender!Requests -> Submissions]
      /\ issued \in Nat /\ form \in Forms /\ form.request \in Nat
      /\ spent \subseteq Sender!Tokens /\ stored \subseteq Sender!Requests /\ mailed \subseteq Sender!Requests
      /\ MaxTokens \in Nat /\ MaxRequests \in Nat
  BY SenderTypes, SenderBounds DEF SenderInv, Forms
<1>1. /\ form' = form /\ issued' = issued /\ r \in Submissions /\ req' = [req EXCEPT ![i] = r]
      /\ r.token = req[i].token /\ r.website = req[i].website
      /\ req[i].at # "unsent" /\ r.at \notin {"unsent", "sent"} /\ (r.at = "verifying" => req[i].at = "sent")
      /\ spent' = spent \/ (spent' = spent \cup {req[i].token} /\ req[i].at = "verifying")
      /\ r.at = "answered" /\ r.answer \in {422, 429} => req[i].at = "sent"
      /\ stored' \in {stored, stored \cup {i}} /\ mailed' \in {mailed, mailed \cup {i}}
      /\ row' \in [Sender!Requests -> {"none", "pending", "sent", "failed", "deleted"}]
  BY DEF Serves
<1>2. req' \in [Sender!Requests -> Submissions] /\ req'[i] = r
      /\ \A j \in Sender!Requests : j # i => req'[j] = req[j]
  BY <1>0, <1>1
<1>3. req[i].token \in 1 .. issued /\ req[i].token \in 1 .. MaxTokens
  BY <1>0, <1>1, SenderTypes DEF TokenInv, Submissions
<1>4. Sender!TypeOK'
  <2>1. spent' \subseteq Sender!Tokens /\ stored' \subseteq Sender!Requests /\ mailed' \subseteq Sender!Requests
    BY <1>0, <1>1, <1>3 DEF Sender!Tokens
  <2> QED BY <1>0, <1>1, <1>2, <2>1 DEF Sender!TypeOK, Submissions
<1>5. TokenInv'
  <2>1. spent' \subseteq 1 .. issued'
    <3>1. spent \subseteq 1 .. issued
      BY <1>0 DEF TokenInv
    <3>2. spent' \subseteq 1 .. issued
      BY <1>1, <1>3, <3>1
    <3> QED BY <1>1, <3>2
  <2>2. \A j \in Sender!Requests :
          req'[j].token <= issued' /\ (req'[j].at # "unsent" => req'[j].token # 0)
    BY <1>0, <1>1, <1>2, <1>3 DEF TokenInv
  <2>3. ASSUME NEW j \in Sender!Requests, req'[j].at \in {"sent", "verifying"}, form'.request # j,
               form'.issue.token # 0
        PROVE  form'.issue.token # req'[j].token
    <3>1. req'[j].token = req[j].token /\ req[j].at \in {"sent", "verifying"}
      BY <1>1, <1>2, <2>3
    <3> QED BY <1>0, <1>1, <2>3, <3>1 DEF TokenInv
  <2>4. ASSUME form'.issue.token \in spent', form'.status # "success"
        PROVE  /\ form'.request # 0 /\ req'[form'.request].at \notin {"unsent", "sent"}
               /\ req'[form'.request].at = "answered" => req'[form'.request].answer \notin {422, 429}
    <3>1. CASE form.issue.token \in spent
      <4>1. /\ form.request # 0 /\ req[form.request].at \notin {"unsent", "sent"}
            /\ req[form.request].at = "answered" => req[form.request].answer \notin {422, 429}
        BY <1>0, <1>1, <2>4, <3>1 DEF TokenInv
      <4>2. form.request \in Sender!Requests
        BY <1>0, <4>1 DEF Forms, Sender!Requests
      <4>3. CASE form.request = i
        BY <1>1, <1>2, <4>1, <4>3
      <4>4. CASE form.request # i
        BY <1>1, <1>2, <4>1, <4>2, <4>4
      <4> QED BY <4>3, <4>4
    <3>2. CASE form.issue.token \notin spent
      <4>1. form.issue.token = req[i].token /\ req[i].at = "verifying" /\ form.issue.token # 0
        BY <1>1, <1>3, <2>4, <3>2
      <4>2. form.request = i
        BY <1>0, <4>1 DEF TokenInv
      <4>3. i # 0
        BY DEF Sender!Requests
      <4> QED BY <1>1, <1>2, <4>1, <4>2, <4>3
    <3> QED BY <3>1, <3>2
  <2> QED BY <1>0, <1>1, <2>1, <2>2, <2>3, <2>4 DEF TokenInv
<1>6. DeliveryInv'
  <2>1. ASSUME NEW j \in Sender!Requests, j # i
        PROVE  /\ Held(j)' <=> Held(j)
               /\ j \in stored' <=> j \in stored
               /\ j \in mailed' <=> j \in mailed
               /\ req'[j] = req[j] /\ row'[j] = row[j]
    BY <1>1, <1>2, <2>1 DEF Held, Serves
  <2>2. spent \subseteq spent'
    BY <1>1
  <2>3. Held(i)' <=> r.at \in {"storing", "sending", "marking"} \/ i \in stored'
    BY <1>2 DEF Held
  <2>4. ASSUME NEW j \in Sender!Requests
        PROVE  /\ req'[j].at \in {"unsent", "sent", "verifying", "storing"} => j \notin stored'
               /\ req'[j].at \in {"sending", "marking"} => j \in stored'
               /\ req'[j].at \in {"verifying", "storing", "sending", "marking"} => ~req'[j].website
               /\ req'[j].at = "marking" /\ req'[j].mark = "sent" => j \in mailed'
               /\ Held(j)' => req'[j].token \in spent'
               /\ req'[j].at = "answered" =>
                    /\ req'[j].answer = 202 => (j \in stored' <=> ~req'[j].website)
                    /\ req'[j].answer \in {400, 422, 429, 503} => j \notin stored'
               /\ row'[j] = "sent" => j \in mailed'
               /\ j \in mailed' => j \in stored'
               /\ row'[j] # "none" => j \in stored'
    <3>1. CASE j = i
      BY <1>1, <1>2, <2>3, <3>1 DEF Serves
    <3>2. CASE j # i
      BY <1>0, <2>1, <2>2, <3>2 DEF DeliveryInv, Sender!AnswersTrue, Sender!DeliveryTrue
    <3> QED BY <3>1, <3>2
  <2>5. ASSUME NEW j \in Sender!Requests, NEW k \in Sender!Requests, Held(j)', Held(k)',
               req'[j].token = req'[k].token
        PROVE  j = k
    <3>0. ASSUME NEW l \in Sender!Requests, l # i, Held(l)', r.token = req'[l].token
          PROVE  ~Held(i)'
      <4>1. Held(l) /\ req[l].token = r.token /\ r.token \in spent
        BY <1>0, <2>1, <3>0 DEF DeliveryInv
      <4>2. ~Held(i)
        BY <1>0, <1>1, <3>0, <4>1 DEF DeliveryInv
      <4> QED BY <2>3, <4>1, <4>2 DEF Serves
    <3>1. CASE j # i /\ k # i
      BY <1>0, <2>1, <2>5, <3>1 DEF DeliveryInv
    <3>2. CASE j = i /\ k # i
      BY <1>2, <2>5, <3>0, <3>2
    <3>3. CASE j # i /\ k = i
      BY <1>2, <2>5, <3>0, <3>3
    <3> QED BY <3>1, <3>2, <3>3
  <2>6. Sender!AnswersTrue'
    <3>1. stored' \subseteq Sender!Requests
      BY <1>0, <1>1
    <3>2. \A j \in stored' : Held(j)'
      BY DEF Held
    <3> QED BY <2>4, <2>5, <3>1, <3>2 DEF Sender!AnswersTrue
  <2>7. Sender!DeliveryTrue'
    <3>1. mailed' \subseteq Sender!Requests
      BY <1>0, <1>1
    <3> QED BY <2>4, <3>1 DEF Sender!DeliveryTrue
  <2> QED BY <2>4, <2>5, <2>6, <2>7 DEF DeliveryInv
<1> QED BY <1>4, <1>5, <1>6 DEF SenderInv

LEMMA AnswerType ==
  ASSUME NEW i \in Sender!Requests, req \in [Sender!Requests -> Submissions],
         NEW told \in Sender!Answers, Sender!Answer(i, told)
  PROVE  \E r \in Submissions :
           /\ req' = [req EXCEPT ![i] = r]
           /\ r.at = "answered" /\ r.token = req[i].token /\ r.website = req[i].website
           /\ r.answer = told
<1> DEFINE over == Sender!Over(i, "answered")
           r == [over EXCEPT !.answer = told]
<1>1. over \in Submissions /\ over.at = "answered" /\ over.token = req[i].token
      /\ over.website = req[i].website
  BY OverType
<1>2. req' = [req EXCEPT ![i] = r]
  BY DEF Sender!Answer
<1> HIDE DEF over
<1>3. r \in Submissions /\ r.at = "answered" /\ r.token = req[i].token
      /\ r.website = req[i].website /\ r.answer = told
  BY <1>1 DEF Submissions
<1> QED BY <1>2, <1>3

LEMMA StepType ==
  ASSUME NEW i \in Sender!Requests, req \in [Sender!Requests -> Submissions],
         NEW from, NEW to \in {"verifying", "storing", "sending"}, Sender!Step(i, from, to)
  PROVE  \E r \in Submissions :
           /\ req' = [req EXCEPT ![i] = r] /\ req[i].at = from
           /\ r.at = to /\ r.token = req[i].token /\ r.website = req[i].website
<1> DEFINE r == [req[i] EXCEPT !.at = to]
<1>1. req' = [req EXCEPT ![i] = r] /\ req[i].at = from
  BY DEF Sender!Step
<1>2. r \in Submissions /\ r.at = to /\ r.token = req[i].token /\ r.website = req[i].website
  BY DEF Submissions
<1> QED BY <1>1, <1>2

\* Each step of the server is one of those.
LEMMA ServerServes ==
  ASSUME SenderInv, NEW i \in Sender!Requests,
         \/ Sender!RateLimited(i) \/ Sender!Rejected(i) \/ Sender!Honeypot(i) \/ Sender!Accepted(i)
         \/ Sender!Verify(i) \/ Sender!Store(i) \/ Sender!Send(i) \/ Sender!Mark(i)
         \/ Sender!DeleteMessage(i)
  PROVE  \E r : Serves(i, r)
<1>0. /\ req \in [Sender!Requests -> Submissions] /\ req[i] \in Submissions
      /\ row \in [Sender!Requests -> {"none", "pending", "sent", "failed", "deleted"}]
      /\ mailed \subseteq stored /\ stored \subseteq Sender!Requests
      /\ row[i] = "sent" => i \in mailed
      /\ row[i] # "none" => i \in stored
      /\ Held(i) <=> req[i].at \in {"storing", "sending", "marking"} \/ i \in stored
      /\ req[i].at \in {"unsent", "sent", "verifying", "storing"} => i \notin stored
      /\ req[i].at \in {"sending", "marking"} => i \in stored
      /\ req[i].at \in {"verifying", "storing", "sending", "marking"} => ~req[i].website
      /\ req[i].at = "marking" /\ req[i].mark = "sent" => i \in mailed
      /\ Held(i) => req[i].token \in spent
      /\ req[i].at = "answered" =>
           /\ req[i].answer = 202 => (i \in stored <=> ~req[i].website)
           /\ req[i].answer \in {400, 422, 429, 503} => i \notin stored
  BY SenderTypes DEF SenderInv, DeliveryInv, Held, Sender!AnswersTrue, Sender!DeliveryTrue
<1>1. CASE Sender!RateLimited(i)
  <2>1. req[i].at = "sent" /\ Sender!Answer(i, 429)
        /\ UNCHANGED <<form, issued, row, spent, mailed, stored>>
    BY <1>1 DEF Sender!RateLimited, Sender!server
  <2>2. PICK r \in Submissions :
          /\ req' = [req EXCEPT ![i] = r] /\ r.at = "answered" /\ r.token = req[i].token
          /\ r.website = req[i].website /\ r.answer = 429
    BY <1>0, <2>1, AnswerType DEF Sender!Answers
  <2>3. Serves(i, r)
    BY <1>0, <2>1, <2>2 DEF Serves
  <2> QED BY <2>3
<1>2. CASE Sender!Rejected(i)
  <2> DEFINE over == Sender!Over(i, "answered")
             strict == {f \in Fields : req[i].body[f] = "strict"}
  <2>0. PICK fields \in IF strict # {} THEN {strict} ELSE {{}, {"turnstile"}} :
          req' = [req EXCEPT ![i] = [over EXCEPT !.answer = 422, !.fields = fields]]
    BY <1>2 DEF Sender!Rejected
  <2>1. req[i].at = "sent" /\ UNCHANGED <<form, issued, row, spent, mailed, stored>>
    BY <1>2 DEF Sender!Rejected, Sender!server
  <2> DEFINE named == [over EXCEPT !.answer = 422]
             r == [over EXCEPT !.answer = 422, !.fields = fields]
  <2>2. over \in Submissions /\ over.at = "answered" /\ over.token = req[i].token
        /\ over.website = req[i].website
    BY <1>0, OverType
  <2>3. fields \in SUBSET Sender!Marks
    BY <2>0, SenderBounds
  <2>4. req' = [req EXCEPT ![i] = r]
    BY <2>0
  <2> HIDE DEF over
  <2>5. named \in Submissions /\ named.at = "answered" /\ named.token = req[i].token
        /\ named.website = req[i].website /\ named.answer = 422
    BY <2>2 DEF Submissions, Sender!Answers
  <2>6. r = [named EXCEPT !.fields = fields]
    OBVIOUS
  <2> HIDE DEF named, r
  <2>7. r \in Submissions /\ r.at = "answered" /\ r.token = req[i].token
        /\ r.website = req[i].website /\ r.answer = 422
    BY <2>3, <2>5, <2>6 DEF Submissions
  <2>8. Serves(i, r)
    BY <1>0, <2>1, <2>4, <2>7 DEF Serves
  <2> QED BY <2>8
<1>3. CASE Sender!Honeypot(i)
  <2>0. Sender!Answer(i, 202)
    BY <1>3 DEF Sender!Honeypot
  <2>1. req[i].at = "sent" /\ req[i].website
        /\ UNCHANGED <<form, issued, row, spent, mailed, stored>>
    BY <1>3 DEF Sender!Honeypot, Sender!server
  <2>2. PICK r \in Submissions :
          /\ req' = [req EXCEPT ![i] = r] /\ r.at = "answered" /\ r.token = req[i].token
          /\ r.website = req[i].website /\ r.answer = 202
    BY <1>0, <2>0, AnswerType DEF Sender!Answers
  <2>3. Serves(i, r)
    BY <1>0, <2>1, <2>2 DEF Serves
  <2> QED BY <2>3
<1>4. CASE Sender!Accepted(i)
  <2>1. Sender!Step(i, "sent", "verifying") /\ ~req[i].website
        /\ UNCHANGED <<form, issued, row, spent, mailed, stored>>
    BY <1>4 DEF Sender!Accepted, Sender!server
  <2>2. PICK r \in Submissions :
          /\ req' = [req EXCEPT ![i] = r] /\ req[i].at = "sent"
          /\ r.at = "verifying" /\ r.token = req[i].token /\ r.website = req[i].website
    BY <1>0, <2>1, StepType
  <2>3. Serves(i, r)
    BY <1>0, <2>1, <2>2 DEF Serves
  <2> QED BY <2>3
<1>5. CASE Sender!Verify(i)
  <2>1. req[i].at = "verifying" /\ UNCHANGED <<form, issued, row, mailed, stored>>
    BY <1>5 DEF Sender!Verify
  <2>2. CASE /\ req[i].token \notin spent /\ Sender!Step(i, "verifying", "storing")
             /\ spent' = spent \cup {req[i].token}
    <3>1. PICK r \in Submissions :
            /\ req' = [req EXCEPT ![i] = r]
            /\ r.at = "storing" /\ r.token = req[i].token /\ r.website = req[i].website
      BY <1>0, <2>2, StepType
    <3>2. Serves(i, r)
      BY <1>0, <2>1, <2>2, <3>1 DEF Serves
    <3> QED BY <3>2
  <2>3. CASE \E told \in {400, 503} : Sender!Answer(i, told) /\ spent' \in {spent, spent \cup {req[i].token}}
    <3>1. PICK told \in {400, 503} : Sender!Answer(i, told)
      BY <2>3
    <3>2. PICK r \in Submissions :
            /\ req' = [req EXCEPT ![i] = r] /\ r.at = "answered" /\ r.token = req[i].token
            /\ r.website = req[i].website /\ r.answer = told
      BY <1>0, <3>1, AnswerType DEF Sender!Answers
    <3>3. Serves(i, r)
      BY <1>0, <2>1, <2>3, <3>2 DEF Serves
    <3> QED BY <3>3
  <2> QED BY <1>5, <2>2, <2>3 DEF Sender!Verify
<1>6. CASE Sender!Store(i)
  <2>1. req[i].at = "storing" /\ UNCHANGED <<form, issued, spent, mailed>>
    BY <1>6 DEF Sender!Store
  <2>2. CASE /\ Sender!Step(i, "storing", "sending") /\ row' = [row EXCEPT ![i] = "pending"]
             /\ stored' = stored \cup {i}
    <3>1. PICK r \in Submissions :
            /\ req' = [req EXCEPT ![i] = r]
            /\ r.at = "sending" /\ r.token = req[i].token /\ r.website = req[i].website
      BY <1>0, <2>2, StepType
    <3>2. Serves(i, r)
      BY <1>0, <2>1, <2>2, <3>1 DEF Serves
    <3> QED BY <3>2
  <2>3. CASE /\ Sender!Answer(i, 500)
             /\ \/ UNCHANGED <<row, stored>>
                \/ row' = [row EXCEPT ![i] = "pending"] /\ stored' = stored \cup {i}
    <3>2. PICK r \in Submissions :
            /\ req' = [req EXCEPT ![i] = r] /\ r.at = "answered" /\ r.token = req[i].token
            /\ r.website = req[i].website /\ r.answer = 500
      BY <1>0, <2>3, AnswerType DEF Sender!Answers
    <3>3. Serves(i, r)
      BY <1>0, <2>1, <2>3, <3>2 DEF Serves
    <3> QED BY <3>3
  <2> QED BY <1>6, <2>2, <2>3 DEF Sender!Store
<1>7. CASE Sender!Send(i)
  <2>1. PICK mark \in {"sent", "failed"} :
          /\ mailed' \in {mailed, mailed \cup {i}} /\ (mark = "sent" => mailed' = mailed \cup {i})
          /\ req' = [req EXCEPT ![i].at = "marking", ![i].mark = mark]
          /\ req[i].at = "sending" /\ UNCHANGED <<form, issued, row, spent, stored>>
    BY <1>7 DEF Sender!Send
  <2> DEFINE r == [req[i] EXCEPT !.at = "marking", !.mark = mark]
             s == [req[i] EXCEPT !.at = "marking"]
  <2>5. s \in Submissions /\ s.at = "marking" /\ s.token = req[i].token /\ s.website = req[i].website
    BY <1>0 DEF Submissions
  <2>6. r = [s EXCEPT !.mark = mark] /\ mark \in {"pending", "sent", "failed"}
    BY <1>0 DEF Submissions
  <2> DEFINE q == [req EXCEPT ![i].at = "marking"]
  <2>7. q \in [Sender!Requests -> Submissions] /\ q[i] = s /\ \A j \in Sender!Requests \ {i} : q[j] = req[j]
    BY <1>0, <2>5
  <2>8. req' = [q EXCEPT ![i].mark = mark]
    BY <2>1
  <2> HIDE DEF q
  <2>9. [q EXCEPT ![i].mark = mark] = [q EXCEPT ![i] = r]
    BY <2>6, <2>7
  <2> HIDE DEF r, s
  <2>2. r \in Submissions /\ r.at = "marking" /\ r.mark = mark /\ r.token = req[i].token
        /\ r.website = req[i].website
    BY <2>5, <2>6 DEF Submissions
  <2>3. req' = [req EXCEPT ![i] = r]
    <3>1. req' = [q EXCEPT ![i] = r]
      BY <2>8, <2>9
    <3>2. req' \in [Sender!Requests -> Submissions] /\ req'[i] = r
          /\ \A j \in Sender!Requests \ {i} : req'[j] = req[j]
      BY <2>2, <2>7, <3>1
    <3> DEFINE g == [req EXCEPT ![i] = r]
    <3>3. g \in [Sender!Requests -> Submissions] /\ g[i] = r
          /\ \A j \in Sender!Requests \ {i} : g[j] = req[j]
      BY <1>0, <2>2
    <3> HIDE DEF g
    <3>4. req' = g
      BY <3>2, <3>3
    <3> QED BY <3>4 DEF g
  <2>4. Serves(i, r)
    <3>1. /\ req[i].at = "sending" /\ i \in stored /\ ~req[i].website /\ Held(i)
          /\ req[i].token \in spent
      BY <1>0, <2>1
    <3>2. /\ UNCHANGED <<form, issued>> /\ spent' = spent /\ stored' = stored /\ row' = row
          /\ mailed' \in {mailed, mailed \cup {i}} /\ (mark = "sent" => i \in mailed')
      BY <2>1
    <3>3. row[i] = "sent" => i \in mailed'
      BY <1>0, <3>2
    <3> QED BY <1>0, <2>2, <2>3, <3>1, <3>2, <3>3 DEF Serves
  <2> QED BY <2>4
<1>8. CASE Sender!Mark(i)
  <2>1. /\ req[i].at = "marking" /\ Sender!Answer(i, 202)
        /\ UNCHANGED <<form, issued, spent, mailed, stored>>
        /\ row' = [row EXCEPT ![i] = req[i].mark] \/ row' = row
    BY <1>8 DEF Sender!Mark
  <2>2. PICK r \in Submissions :
          /\ req' = [req EXCEPT ![i] = r] /\ r.at = "answered" /\ r.token = req[i].token
          /\ r.website = req[i].website /\ r.answer = 202
    BY <1>0, <2>1, AnswerType DEF Sender!Answers
  <2>3. req[i].mark \in {"pending", "sent", "failed"}
    BY <1>0 DEF Submissions
  <2>4. Serves(i, r)
    BY <1>0, <2>1, <2>2, <2>3 DEF Serves
  <2> QED BY <2>4
<1>9. CASE Sender!DeleteMessage(i)
  <2>1. /\ row[i] \in {"pending", "sent", "failed"} /\ row' = [row EXCEPT ![i] = "deleted"]
        /\ UNCHANGED <<form, issued, req, spent, mailed, stored>>
    BY <1>9 DEF Sender!DeleteMessage
  <2>2. req' = [req EXCEPT ![i] = req[i]]
    BY <1>0, <2>1
  <2>3. Serves(i, req[i])
    <3>1. /\ i \in stored /\ Held(i) /\ req[i].token \in spent
          /\ req[i].at \notin {"unsent", "sent", "verifying", "storing"}
          /\ req[i].at = "answered" => 
               req[i].answer \notin {400, 422, 429, 503} /\ (req[i].answer = 202 => ~req[i].website)
      BY <1>0, <2>1
    <3>2. /\ row' \in [Sender!Requests -> {"none", "pending", "sent", "failed", "deleted"}]
          /\ row'[i] = "deleted" /\ \A j \in Sender!Requests \ {i} : row'[j] = row[j]
      BY <1>0, <2>1
    <3>3. /\ UNCHANGED <<form, issued>> /\ spent' = spent /\ stored' = stored /\ mailed' = mailed
      BY <2>1
    <3> QED BY <1>0, <2>2, <3>1, <3>2, <3>3, ZenonT(30) DEF Serves
  <2> QED BY <2>3
<1> QED BY <1>1, <1>2, <1>3, <1>4, <1>5, <1>6, <1>7, <1>8, <1>9

\* A crash answers nothing more, and undoes nothing.
LEMMA CrashKeeps ==
  ASSUME SenderInv, Sender!Crash
  PROVE  SenderInv'
<1>0. /\ Sender!TypeOK /\ TokenInv /\ DeliveryInv /\ req \in [Sender!Requests -> Submissions]
      /\ form \in Forms /\ form.request \in 0 .. MaxRequests /\ MaxRequests \in Nat
      /\ stored \subseteq Sender!Requests
  BY SenderTypes, SenderBounds DEF SenderInv, Forms
<1>1. /\ UNCHANGED <<form, issued, row, spent, mailed, stored>>
      /\ req' = [i \in Sender!Requests |-> IF req[i].at \in {"unsent", "answered"} THEN req[i]
                                           ELSE Sender!Over(i, "lost")]
  BY DEF Sender!Crash, Sender!server
<1>2. ASSUME NEW i \in Sender!Requests
      PROVE  /\ req'[i] \in Submissions /\ req'[i].token = req[i].token
             /\ req'[i].website = req[i].website /\ req'[i].answer = req[i].answer
             /\ \/ req'[i] = req[i] /\ req[i].at \in {"unsent", "answered"}
                \/ req'[i].at = "lost" /\ req[i].at \notin {"unsent", "answered"}
  <2>1. CASE req[i].at \in {"unsent", "answered"}
    BY <1>0, <1>1, <2>1
  <2>2. CASE req[i].at \notin {"unsent", "answered"}
    <3>1. req'[i] = Sender!Over(i, "lost")
      BY <1>1, <2>2
    <3> QED BY <1>0, <2>2, <3>1, OverType
  <2> QED BY <2>1, <2>2
<1>3. req' \in [Sender!Requests -> Submissions]
  BY <1>1, <1>2
<1>4. Sender!TypeOK'
  BY <1>0, <1>1, <1>3 DEF Sender!TypeOK, Submissions
<1>5. TokenInv'
  <2>1. form.request # 0 => form.request \in Sender!Requests
    BY <1>0 DEF Sender!Requests
  <2> QED BY <1>0, <1>1, <1>2, <2>1 DEF TokenInv
<1>6. DeliveryInv'
  <2>1. \A i \in Sender!Requests : Held(i)' => Held(i)
    BY <1>1, <1>2 DEF Held
  <2>2. Sender!AnswersTrue'
    BY <1>0, <1>1, <1>2 DEF DeliveryInv, Sender!AnswersTrue
  <2>3. Sender!DeliveryTrue'
    BY <1>0, <1>1 DEF DeliveryInv, Sender!DeliveryTrue
  <2>4. \A i \in Sender!Requests :
       /\ req'[i].at \in {"unsent", "sent", "verifying", "storing"} => i \notin stored'
       /\ req'[i].at \in {"sending", "marking"} => i \in stored'
       /\ req'[i].at \in {"verifying", "storing", "sending", "marking"} => ~req'[i].website
       /\ req'[i].at = "marking" /\ req'[i].mark = "sent" => i \in mailed'
       /\ Held(i)' => req'[i].token \in spent'
    BY <1>0, <1>1, <1>2, <2>1 DEF DeliveryInv
  <2>5. \A i, j \in Sender!Requests : Held(i)' /\ Held(j)' /\ req'[i].token = req'[j].token => i = j
    BY <1>0, <1>2, <2>1 DEF DeliveryInv
  <2> QED BY <2>2, <2>3, <2>4, <2>5 DEF DeliveryInv
<1> QED BY <1>4, <1>5, <1>6 DEF SenderInv

LEMMA SenderStep == SenderInv /\ Sender!Next => SenderInv'
<1> SUFFICES ASSUME SenderInv, Sender!Next PROVE SenderInv'
  OBVIOUS
<1>1. CASE Sender!Page
  BY <1>1, PageKeeps, SubmitKeeps
<1>2. CASE Sender!Server
  BY <1>2, CrashKeeps, ServerServes, ServesKeeps DEF Sender!Server
<1> QED BY <1>1, <1>2 DEF Sender!Next

LEMMA SenderInit == Sender!Init => SenderInv
<1> SUFFICES ASSUME Sender!Init PROVE SenderInv
  OBVIOUS
<1>0. /\ form = Sender!Unmounted /\ issued = 0
      /\ req = [i \in Sender!Requests |-> Sender!Unsent]
      /\ row = [i \in Sender!Requests |-> "none"]
      /\ spent = {} /\ mailed = {} /\ stored = {}
  BY DEF Sender!Init
<1>1. Sender!Unsent \in Submissions /\ Sender!Unsent.at = "unsent" /\ Sender!Unsent.token = 0
  BY SenderBlanks, SenderBounds DEF Sender!Unsent, Submissions
<1>2. Sender!TypeOK
  BY <1>0, <1>1, SenderTypes, SenderBounds, FormsFresh
<1>3. \A i \in Sender!Requests : req[i].at = "unsent" /\ req[i].token = 0
  BY <1>0, <1>1
<1>4. TokenInv
  BY <1>0, <1>3, FormsFresh DEF TokenInv
<1>5. DeliveryInv
  BY <1>0, <1>3 DEF DeliveryInv, Held, Sender!AnswersTrue, Sender!DeliveryTrue
<1> QED BY <1>2, <1>4, <1>5 DEF SenderInv

LEMMA SenderKeepsTrue == SenderInv => Sender!TokenNotSpent /\ Sender!AnswersTrue /\ Sender!DeliveryTrue
  BY SenderTypes
     DEF SenderInv, TokenInv, DeliveryInv, Sender!TokenNotSpent, Sender!Token, Forms, Sender!Tokens

-------------------------------------------------------------------------------
(* The way into the admin panel.                                             *)

Calls ==
  [stage : {"no", "sent", "answered"}, answer : Door!Answers, token : 0 .. MaxTokens,
   cookie : 0 .. MaxSessions, new : 0 .. MaxSessions, drop : BOOLEAN]
Logins == [status : Door!Statuses, token : 0 .. MaxTokens, flagged : BOOLEAN, typed : BOOLEAN]
Servers ==
  [valid : SUBSET (1 .. MaxSessions), spent : SUBSET (1 .. MaxTokens),
   sessions : 0 .. MaxSessions, tokens : 0 .. MaxTokens, totp : BOOLEAN]
Drafts == [kept : BOOLEAN, asked : BOOLEAN]

\* Which page waits for which answer.
WaitsInv ==
  /\ calls["login"] # Door!NoCall => at = "login" /\ login.status = "submitting"
  /\ calls["code"] # Door!NoCall => at = "code"
  /\ calls["me"] # Door!NoCall => at = "checking"
  /\ calls["page"] # Door!NoCall => at = "panel"
  /\ calls["code"].answer \notin {"totp", "tokenRefused"}

\* The login page's token is spent only by the attempt that waits for an answer,
\* and never by one that is told to correct its fields.
LoginInv ==
  /\ server.spent \subseteq 1 .. server.tokens /\ login.token <= server.tokens
  /\ calls["login"].stage = "sent" => calls["login"].token \in 1 .. server.tokens
  /\ \/ calls["login"].stage = "answered" /\ calls["login"].answer # "fields"
     \/ login.token \notin server.spent

\* Sessions are revoked all at once, so a later one is valid if an earlier one is;
\* and what the browser sends is never older than what the panel was opened with.
SessionsInv ==
  /\ server.valid \subseteq 1 .. server.sessions
  /\ \A s \in server.valid : \A t \in 1 .. server.sessions : s <= t => t \in server.valid
  /\ cookie <= server.sessions /\ held <= server.sessions
  /\ \A k \in Door!Kinds : calls[k].cookie <= server.sessions /\ calls[k].new <= server.sessions
  /\ \A k \in {"login", "code"} :
       /\ calls[k].new # 0 => cookie <= calls[k].new
       /\ calls[k].stage = "answered" /\ calls[k].answer = "ok" => calls[k].new # 0
  /\ calls["me"].cookie <= cookie
  /\ calls["me"].stage = "answered" /\ calls["me"].answer = "ok" => calls["me"].cookie # 0
  /\ at = "panel" => held # 0 /\ held <= cookie
  /\ calls["page"] # Door!NoCall => calls["page"].cookie = cookie
  /\ calls["page"].stage = "answered" /\ calls["page"].answer = "401" =>
       calls["page"].cookie \notin server.valid
  /\ Door!NoStaleExpiry

DoorInv == Door!TypeOK /\ WaitsInv /\ LoginInv /\ SessionsInv

LEMMA DoorTypes ==
  /\ MaxTokens \in Nat /\ MaxSessions \in Nat
  /\ Door!TypeOK <=>
       /\ at \in Door!Screens /\ session \in {"unknown", "signedIn", "signedOut", "expired"}
       /\ login \in Logins /\ calls \in [Door!Kinds -> Calls] /\ draft \in Drafts
       /\ cookie \in 0 .. MaxSessions /\ held \in 0 .. MaxSessions /\ pending \in BOOLEAN
       /\ server \in Servers
  BY CorrespondenceAssumption DEF Door!Bounds, Door!TypeOK, Logins, Calls, Drafts, Servers

LEMMA NoCallType ==
  /\ Door!NoCall \in Calls /\ Door!NoCall.stage = "no" /\ Door!NoCall.answer = "none"
  /\ Door!NoCall.token = 0 /\ Door!NoCall.cookie = 0 /\ Door!NoCall.new = 0
  BY DoorTypes DEF Door!NoCall, Calls, Door!Answers

LEMMA CallType ==
  ASSUME cookie \in 0 .. MaxSessions
  PROVE  /\ Door!Call \in Calls /\ Door!Call.stage = "sent" /\ Door!Call.answer = "none"
         /\ Door!Call.token = 0 /\ Door!Call.cookie = cookie /\ Door!Call.new = 0
  BY NoCallType DEF Door!Call, Calls

LEMMA FormType ==
  ASSUME NEW how \in Door!Statuses
  PROVE  /\ Door!Form(how) \in Logins /\ Door!Form(how).token = 0
         /\ Door!Form(how).status = how
  BY DoorTypes DEF Door!Form, Logins

\* The calls that are ended are no more; the others stay.
LEMMA EndedCalls ==
  ASSUME calls \in [Door!Kinds -> Calls], NEW ks
  PROVE  /\ Door!Ended(ks) \in [Door!Kinds -> Calls]
         /\ \A k \in Door!Kinds : /\ k \in ks => Door!Ended(ks)[k] = Door!NoCall
                                  /\ k \notin ks => Door!Ended(ks)[k] = calls[k]
  BY NoCallType DEF Door!Ended

LEMMA DoorKinds ==
  /\ Door!Kinds = {"login", "code", "me", "page", "logout"}
  /\ "idle" \in Door!Statuses /\ "codeExpired" \in Door!Statuses /\ "submitting" \in Door!Statuses
  /\ "invalid" \in Door!Statuses /\ Door!Failures \subseteq Door!Statuses
  BY DEF Door!Kinds, Door!Statuses

LEMMA DoorInit == Door!Init => DoorInv
<1> SUFFICES ASSUME Door!Init PROVE DoorInv
  OBVIOUS
<1>1. /\ at = "checking" /\ session = "unknown" /\ login = Door!Form("idle")
      /\ cookie = 0 /\ pending = FALSE /\ held = 0 /\ draft \in Drafts
      /\ server \in Servers /\ server.valid = {} /\ server.spent = {}
      /\ server.sessions = 0 /\ server.tokens = 0
  BY DoorTypes DEF Door!Init, Servers, Drafts
<1> DEFINE asked == [Door!NoCall EXCEPT !.stage = "sent"]
           none == [k \in Door!Kinds |-> Door!NoCall]
<1>2. calls = [none EXCEPT !["me"] = [@ EXCEPT !.stage = "sent"]]
  BY DEF Door!Init
<1>3. /\ asked \in Calls /\ asked.stage = "sent" /\ asked.answer = "none" /\ asked.cookie = 0 /\ asked.new = 0
  BY NoCallType DEF Calls
<1>4. none \in [Door!Kinds -> Calls] /\ \A k \in Door!Kinds : none[k] = Door!NoCall
  BY NoCallType
<1>5. /\ calls \in [Door!Kinds -> Calls] /\ calls["me"] = asked
      /\ \A k \in Door!Kinds \ {"me"} : calls[k] = Door!NoCall
  BY <1>2, <1>3, <1>4, DoorKinds
<1> HIDE DEF asked, none
<1>6. login \in Logins /\ login.token = 0 /\ login.status = "idle"
  BY <1>1, FormType, DoorKinds
<1>7. Door!TypeOK
  <2>1. at \in Door!Screens /\ session \in {"unknown", "signedIn", "signedOut", "expired"}
    BY <1>1 DEF Door!Screens
  <2>2. pending \in BOOLEAN
    BY <1>1
  <2>3. cookie \in 0 .. MaxSessions /\ held \in 0 .. MaxSessions
    BY <1>1, DoorTypes
  <2> QED BY <1>1, <1>5, <1>6, <2>1, <2>2, <2>3, DoorTypes
<1>8. \A k \in Door!Kinds : calls[k].cookie = 0 /\ calls[k].new = 0 /\ calls[k].answer = "none"
  BY <1>3, <1>5, NoCallType
<1>9. WaitsInv
  BY <1>1, <1>5, <1>8, DoorKinds DEF WaitsInv
<1>10. LoginInv
  BY <1>1, <1>5, <1>6, DoorKinds, NoCallType DEF LoginInv
<1>11. SessionsInv
  BY <1>1, <1>5, <1>8, DoorKinds DEF SessionsInv, Door!NoStaleExpiry
<1> QED BY <1>7, <1>9, <1>10, <1>11 DEF DoorInv

\* A step that leaves the calls and the sessions alone.
LEMMA LoginPage ==
  ASSUME DoorInv,
         Door!onToken \/ Door!onLapse \/ Door!change \/ Door!Edit
  PROVE  DoorInv'
<1>0. /\ at \in Door!Screens /\ login \in Logins /\ server \in Servers /\ draft \in Drafts
      /\ calls \in [Door!Kinds -> Calls] /\ Door!TypeOK /\ WaitsInv /\ LoginInv /\ SessionsInv
      /\ calls["login"] \in Calls
  BY DoorTypes, DoorKinds DEF DoorInv
<1>1. UNCHANGED <<at, session, calls, cookie, pending, held>>
  BY DEF Door!onToken, Door!onLapse, Door!change, Door!Edit
<1>2. /\ login' \in Logins /\ login'.status = login.status /\ server' \in Servers /\ draft' \in Drafts
      /\ server'.valid = server.valid /\ server'.spent = server.spent
      /\ server'.sessions = server.sessions /\ server.tokens <= server'.tokens
      /\ login'.token \in {0, login.token}
           \/ (login'.token = server.tokens + 1 /\ server'.tokens = server.tokens + 1)
  <2>1. CASE Door!onToken
    <3> DEFINE flagged == login.flagged /\ ~login.typed
    <3>1. /\ login' = [login EXCEPT !.token = server.tokens + 1, !.flagged = flagged]
          /\ server' = [server EXCEPT !.tokens = server.tokens + 1] /\ draft' = draft
          /\ server.tokens < MaxTokens
      BY <1>0, <2>1 DEF Door!onToken, Logins, Servers
    <3>2. flagged \in BOOLEAN
      BY <1>0 DEF Logins
    <3> HIDE DEF flagged
    <3>3. server.tokens + 1 \in 0 .. MaxTokens /\ server.tokens \in Nat
      BY <1>0, <3>1, DoorTypes DEF Servers
    <3>4. login' \in Logins /\ login'.status = login.status /\ login'.token = server.tokens + 1
      BY <1>0, <3>1, <3>2, <3>3 DEF Logins
    <3>5. /\ server' \in Servers /\ server'.valid = server.valid /\ server'.spent = server.spent
          /\ server'.sessions = server.sessions /\ server'.tokens = server.tokens + 1
      BY <1>0, <3>1, <3>3 DEF Servers
    <3> QED BY <1>0, <3>1, <3>3, <3>4, <3>5
  <2>2. CASE Door!onLapse
    <3>1. login' = [login EXCEPT !.token = 0] /\ server' = server /\ draft' = draft
      BY <2>2 DEF Door!onLapse
    <3>2. server.tokens \in Nat
      BY <1>0, DoorTypes DEF Servers
    <3> QED BY <1>0, <3>1, <3>2, DoorTypes DEF Logins
  <2>3. CASE Door!change
    <3>1. login' = [login EXCEPT !.typed = TRUE, !.flagged = FALSE] /\ server' = server /\ draft' = draft
      BY <2>3 DEF Door!change
    <3>2. server.tokens \in Nat
      BY <1>0, DoorTypes DEF Servers
    <3>3. login' \in Logins /\ login'.status = login.status /\ login'.token = login.token
      BY <1>0, <3>1 DEF Logins
    <3> QED BY <1>0, <3>1, <3>2, <3>3
  <2>4. CASE Door!Edit
    <3>1. draft' = [draft EXCEPT !.kept = ~draft.kept] /\ server' = server /\ login' = login
      BY <1>0, <2>4 DEF Door!Edit, Drafts
    <3>2. server.tokens \in Nat
      BY <1>0, DoorTypes DEF Servers
    <3>3. draft' \in Drafts
      BY <1>0, <3>1 DEF Drafts
    <3> QED BY <1>0, <3>1, <3>2, <3>3
  <2> QED BY <2>1, <2>2, <2>3, <2>4
<1>3. Door!TypeOK'
  BY <1>0, <1>1, <1>2, DoorTypes DEF Door!TypeOK, Logins, Servers, Drafts
<1>4. WaitsInv'
  BY <1>0, <1>1, <1>2 DEF WaitsInv
<1>5. server.tokens \in Nat /\ server'.tokens \in Nat /\ login.token \in Nat
  BY <1>0, <1>2, DoorTypes DEF Servers, Logins
<1>6. LoginInv'
  <2>1. server'.spent \subseteq 1 .. server'.tokens /\ login'.token <= server'.tokens
    <3>1. server.spent \subseteq 1 .. server.tokens /\ login.token <= server.tokens
      BY <1>0 DEF LoginInv
    <3> QED BY <1>2, <1>5, <3>1
  <2>2. calls["login"].stage = "sent" => calls["login"].token \in 1 .. server'.tokens
    BY <1>0, <1>2, <1>5 DEF LoginInv, Calls
  <2>3. login.token \notin server.spent => login'.token \notin server'.spent
    <3>1. server.spent \subseteq 1 .. server.tokens
      BY <1>0 DEF LoginInv
    <3> QED BY <1>2, <1>5, <3>1
  <2> QED BY <1>0, <1>1, <2>1, <2>2, <2>3 DEF LoginInv
<1>7. SessionsInv'
  BY <1>0, <1>1, <1>2 DEF SessionsInv, Door!NoStaleExpiry
<1> QED BY <1>3, <1>4, <1>6, <1>7 DEF DoorInv

DoorTyped ==
  /\ at \in Door!Screens /\ session \in {"unknown", "signedIn", "signedOut", "expired"}
  /\ login \in Logins /\ calls \in [Door!Kinds -> Calls] /\ draft \in Drafts
  /\ cookie \in 0 .. MaxSessions /\ held \in 0 .. MaxSessions /\ pending \in BOOLEAN
  /\ server \in Servers
  /\ cookie \in Nat /\ held \in Nat /\ server.sessions \in Nat /\ server.tokens \in Nat
  /\ login.token \in Nat
  /\ \A k \in Door!Kinds : /\ calls[k] \in Calls
                           /\ calls[k].token \in Nat /\ calls[k].cookie \in Nat /\ calls[k].new \in Nat

LEMMA DoorInvTyped == DoorInv => DoorTyped /\ WaitsInv /\ LoginInv /\ SessionsInv
  BY DoorTypes DEF DoorInv, DoorTyped, Servers, Logins, Calls

LEMMA SetCall ==
  ASSUME calls \in [Door!Kinds -> Calls], NEW kind \in Door!Kinds, NEW c \in Calls,
         calls' = [calls EXCEPT ![kind] = c]
  PROVE  /\ calls' \in [Door!Kinds -> Calls] /\ calls'[kind] = c
         /\ \A k \in Door!Kinds : k # kind => calls'[k] = calls[k]
  OBVIOUS

\* A call that is sent carries the browser's cookie.
LEMMA SendKeeps ==
  ASSUME DoorInv, NEW kind \in Door!Kinds, NEW c \in Calls, calls' = [calls EXCEPT ![kind] = c],
         c.stage = "sent", c.answer = "none", c.new = 0, c.cookie = cookie,
         UNCHANGED <<session, cookie, server, held>>, at' = "panel" <=> at = "panel",
         login' \in Logins, login'.token = login.token,
         kind = "login" => c.token = login.token /\ c.token # 0 /\ calls["login"] = Door!NoCall
  PROVE  LoginInv' /\ SessionsInv'
<1>0. DoorTyped /\ WaitsInv /\ LoginInv /\ SessionsInv
  BY DoorInvTyped
<1>1. /\ calls' \in [Door!Kinds -> Calls] /\ calls'[kind] = c
      /\ \A k \in Door!Kinds : k # kind => calls'[k] = calls[k]
  BY <1>0, SetCall DEF DoorTyped
<1>2. LoginInv'
  <2>1. CASE kind = "login"
    <3>1. login.token \in 1 .. server.tokens /\ login.token \notin server.spent
      BY <1>0, <2>1, NoCallType DEF LoginInv, DoorTyped
    <3> QED BY <1>0, <1>1, <2>1, <3>1 DEF LoginInv
  <2>2. CASE kind # "login"
    BY <1>0, <1>1, <2>2, DoorKinds DEF LoginInv
  <2> QED BY <2>1, <2>2
<1>3. SessionsInv'
  <2>1. \A k \in Door!Kinds : calls'[k].cookie <= server'.sessions /\ calls'[k].new <= server'.sessions
    BY <1>0, <1>1 DEF SessionsInv, DoorTyped
  <2>2. \A k \in {"login", "code"} :
       /\ calls'[k].new # 0 => cookie' <= calls'[k].new
       /\ calls'[k].stage = "answered" /\ calls'[k].answer = "ok" => calls'[k].new # 0
    BY <1>0, <1>1, DoorKinds DEF SessionsInv
  <2>3. /\ calls'["me"].cookie <= cookie'
        /\ calls'["me"].stage = "answered" /\ calls'["me"].answer = "ok" => calls'["me"].cookie # 0
        /\ calls'["page"] # Door!NoCall => calls'["page"].cookie = cookie'
        /\ calls'["page"].stage = "answered" /\ calls'["page"].answer = "401" =>
             calls'["page"].cookie \notin server'.valid
    BY <1>0, <1>1, DoorKinds DEF SessionsInv, DoorTyped
  <2> QED BY <1>0, <2>1, <2>2, <2>3 DEF SessionsInv, Door!NoStaleExpiry
<1> QED BY <1>2, <1>3

\* A step that sends nothing and hears nothing.
LEMMA StayKeeps ==
  ASSUME DoorInv, UNCHANGED <<session, calls, cookie, server, held>>, at' = "panel" <=> at = "panel",
         login' \in Logins, login'.token = login.token \/ (calls["login"] = Door!NoCall /\ login'.token = 0)
  PROVE  LoginInv' /\ SessionsInv'
<1>0. DoorTyped /\ WaitsInv /\ LoginInv /\ SessionsInv
  BY DoorInvTyped
<1>1. LoginInv'
  BY <1>0 DEF LoginInv, DoorTyped
<1>2. SessionsInv'
  BY <1>0 DEF SessionsInv, Door!NoStaleExpiry
<1> QED BY <1>1, <1>2

\* The page's own steps that send a call.
LEMMA Sends ==
  ASSUME DoorInv,
         Door!onSubmit \/ Door!onSubmitCode \/ Door!Retry \/ Door!Ask
           \/ Door!requestSignOut \/ Door!leave
  PROVE  DoorInv'
<1>0. DoorTyped /\ WaitsInv /\ LoginInv /\ SessionsInv
  BY DoorInvTyped
<1>c. /\ Door!Call \in Calls /\ Door!Call.stage = "sent" /\ Door!Call.answer = "none"
      /\ Door!Call.token = 0 /\ Door!Call.cookie = cookie /\ Door!Call.new = 0
  BY <1>0, CallType DEF DoorTyped
<1>1. CASE Door!onSubmit
  <2>0. at = "login" /\ login.status # "submitting" /\ UNCHANGED <<at, session, draft, cookie, pending, server, held>>
    BY <1>1 DEF Door!onSubmit
  <2>1. calls["login"] = Door!NoCall /\ calls["code"] = Door!NoCall
    BY <1>0, <2>0 DEF WaitsInv
  <2>2. CASE login.typed /\ login.token # 0
    <3> DEFINE c == [Door!Call EXCEPT !.token = login.token]
    <3>1. c \in Calls /\ c.stage = "sent" /\ c.answer = "none" /\ c.token = login.token
          /\ c.cookie = cookie /\ c.new = 0
      BY <1>0, <1>c DEF Calls, Logins, DoorTyped
    <3>2. /\ login' = [login EXCEPT !.status = "submitting", !.flagged = FALSE]
          /\ calls' = [calls EXCEPT !["login"] = c]
      BY <1>1, <2>2 DEF Door!onSubmit
    <3> HIDE DEF c
    <3>3. login' \in Logins /\ login'.token = login.token /\ login'.status = "submitting"
      BY <1>0, <3>2, DoorKinds DEF DoorTyped, Logins
    <3>4. /\ calls' \in [Door!Kinds -> Calls] /\ calls'["login"] = c
          /\ \A k \in Door!Kinds : k # "login" => calls'[k] = calls[k]
      BY <1>0, <3>1, <3>2, SetCall, DoorKinds DEF DoorTyped
    <3>5. LoginInv' /\ SessionsInv'
      BY <2>0, <2>1, <2>2, <3>1, <3>2, <3>3, SendKeeps, DoorKinds
    <3>6. WaitsInv'
      BY <1>0, <2>0, <3>3, <3>4, DoorKinds DEF WaitsInv
    <3>7. Door!TypeOK'
      BY <1>0, <2>0, <3>3, <3>4, DoorTypes DEF Door!TypeOK, DoorTyped, Logins, Calls, Drafts, Servers
    <3> QED BY <3>5, <3>6, <3>7 DEF DoorInv
  <2>3. CASE ~(login.typed /\ login.token # 0)
    <3>1. login' = [login EXCEPT !.status = "invalid", !.flagged = TRUE] /\ calls' = calls
      BY <1>1, <2>3 DEF Door!onSubmit
    <3>2. login' \in Logins /\ login'.token = login.token
      BY <1>0, <3>1, DoorKinds DEF DoorTyped, Logins
    <3>3. LoginInv' /\ SessionsInv'
      BY <2>0, <3>1, <3>2, StayKeeps
    <3>4. WaitsInv'
      BY <1>0, <2>0, <2>1, <3>1 DEF WaitsInv
    <3>5. Door!TypeOK'
      BY <1>0, <2>0, <3>1, <3>2, DoorTypes DEF Door!TypeOK, DoorTyped, Logins, Calls, Drafts, Servers
    <3> QED BY <3>3, <3>4, <3>5 DEF DoorInv
  <2> QED BY <2>2, <2>3
<1>2. CASE Door!onSubmitCode
  <2>0. at = "code" /\ login.status # "submitting" /\ UNCHANGED <<at, session, draft, cookie, pending, server, held>>
    BY <1>2 DEF Door!onSubmitCode
  <2>1. calls["login"] = Door!NoCall
    BY <1>0, <2>0 DEF WaitsInv
  <2>2. CASE login.typed
    <3>2. login' = [login EXCEPT !.status = "submitting"] /\ calls' = [calls EXCEPT !["code"] = Door!Call]
      BY <1>2, <2>2 DEF Door!onSubmitCode
    <3>3. login' \in Logins /\ login'.token = login.token
      BY <1>0, <3>2, DoorKinds DEF DoorTyped, Logins
    <3>4. /\ calls' \in [Door!Kinds -> Calls] /\ calls'["code"] = Door!Call
          /\ \A k \in Door!Kinds : k # "code" => calls'[k] = calls[k]
      BY <1>0, <1>c, <3>2, SetCall, DoorKinds DEF DoorTyped
    <3>5. LoginInv' /\ SessionsInv'
      BY <1>c, <2>0, <3>2, <3>3, SendKeeps, DoorKinds
    <3>6. WaitsInv'
      BY <1>0, <1>c, <2>0, <2>1, <3>4, DoorKinds DEF WaitsInv
    <3>7. Door!TypeOK'
      BY <1>0, <2>0, <3>3, <3>4, DoorTypes DEF Door!TypeOK, DoorTyped, Logins, Calls, Drafts, Servers
    <3> QED BY <3>5, <3>6, <3>7 DEF DoorInv
  <2>3. CASE ~login.typed
    <3>1. login' = [login EXCEPT !.status = "invalid", !.flagged = TRUE] /\ calls' = calls
      BY <1>2, <2>3 DEF Door!onSubmitCode
    <3>2. login' \in Logins /\ login'.token = login.token
      BY <1>0, <3>1, DoorKinds DEF DoorTyped, Logins
    <3>3. LoginInv' /\ SessionsInv'
      BY <2>0, <3>1, <3>2, StayKeeps
    <3>4. WaitsInv'
      BY <1>0, <2>0, <2>1, <3>1 DEF WaitsInv
    <3>5. Door!TypeOK'
      BY <1>0, <2>0, <3>1, <3>2, DoorTypes DEF Door!TypeOK, DoorTyped, Logins, Calls, Drafts, Servers
    <3> QED BY <3>3, <3>4, <3>5 DEF DoorInv
  <2> QED BY <2>2, <2>3
<1>3. CASE Door!Retry
  <2>0. /\ at = "failed" /\ at' = "checking" /\ calls' = [calls EXCEPT !["me"] = Door!Call]
        /\ UNCHANGED <<session, login, draft, cookie, pending, server, held>>
    BY <1>3 DEF Door!Retry
  <2>1. /\ calls' \in [Door!Kinds -> Calls] /\ calls'["me"] = Door!Call
        /\ \A k \in Door!Kinds : k # "me" => calls'[k] = calls[k]
    BY <1>0, <1>c, <2>0, SetCall, DoorKinds DEF DoorTyped
  <2>2. LoginInv' /\ SessionsInv'
    BY <1>0, <1>c, <2>0, SendKeeps, DoorKinds DEF DoorTyped
  <2>3. WaitsInv'
    BY <1>0, <1>c, <2>0, <2>1, DoorKinds DEF WaitsInv
  <2>4. at' \in Door!Screens
    BY <2>0 DEF Door!Screens
  <2>5. Door!TypeOK'
    BY <1>0, <2>0, <2>1, <2>4, DoorTypes DEF Door!TypeOK, DoorTyped, Logins, Calls, Drafts, Servers
  <2> QED BY <2>2, <2>3, <2>5 DEF DoorInv
<1>4. CASE Door!Ask
  <2>0. /\ at = "panel" /\ calls' = [calls EXCEPT !["page"] = Door!Call]
        /\ UNCHANGED <<at, session, login, draft, cookie, pending, server, held>>
    BY <1>4 DEF Door!Ask, Door!client
  <2>1. /\ calls' \in [Door!Kinds -> Calls] /\ calls'["page"] = Door!Call
        /\ \A k \in Door!Kinds : k # "page" => calls'[k] = calls[k]
    BY <1>0, <1>c, <2>0, SetCall, DoorKinds DEF DoorTyped
  <2>2. LoginInv' /\ SessionsInv'
    BY <1>0, <1>c, <2>0, SendKeeps, DoorKinds DEF DoorTyped
  <2>3. WaitsInv'
    BY <1>0, <1>c, <2>0, <2>1, DoorKinds DEF WaitsInv
  <2>5. Door!TypeOK'
    BY <1>0, <2>0, <2>1, DoorTypes DEF Door!TypeOK, DoorTyped, Logins, Calls, Drafts, Servers
  <2> QED BY <2>2, <2>3, <2>5 DEF DoorInv
<1>5. CASE Door!requestSignOut \/ Door!leave
  <2>0. UNCHANGED <<at, session, login, cookie, pending, server, held>>
    BY <1>5 DEF Door!requestSignOut, Door!leave
  <2> DEFINE drop == [Door!Call EXCEPT !.drop = TRUE]
  <2>1. /\ drop \in Calls /\ drop.stage = "sent" /\ drop.answer = "none" /\ drop.cookie = cookie /\ drop.new = 0
    BY <1>c DEF Calls
  <2>2. draft' \in Drafts /\ (calls' = calls \/ \E c \in {Door!Call, drop} : calls' = [calls EXCEPT !["logout"] = c])
    <3>1. draft' = draft \/ draft' = [draft EXCEPT !.asked = TRUE] \/ draft' = [draft EXCEPT !.asked = FALSE]
      BY <1>5 DEF Door!requestSignOut, Door!leave
    <3>2. draft' \in Drafts
      BY <1>0, <3>1 DEF Drafts, DoorTyped
    <3> QED BY <1>5, <3>2 DEF Door!requestSignOut, Door!leave
  <2> HIDE DEF drop
  <2>3. CASE calls' = calls
    <3>3. LoginInv' /\ SessionsInv'
      BY <1>0, <2>0, <2>3, StayKeeps DEF DoorTyped
    <3>4. WaitsInv'
      BY <1>0, <2>0, <2>3 DEF WaitsInv
    <3>5. Door!TypeOK'
      BY <1>0, <2>0, <2>2, <2>3, DoorTypes DEF Door!TypeOK, DoorTyped, Logins, Calls, Drafts, Servers
    <3> QED BY <3>3, <3>4, <3>5 DEF DoorInv
  <2>4. CASE \E c \in {Door!Call, drop} : calls' = [calls EXCEPT !["logout"] = c]
    <3>1. PICK c \in {Door!Call, drop} : calls' = [calls EXCEPT !["logout"] = c]
      BY <2>4
    <3>2. c \in Calls /\ c.stage = "sent" /\ c.answer = "none" /\ c.cookie = cookie /\ c.new = 0
      BY <1>c, <2>1
    <3>4. /\ calls' \in [Door!Kinds -> Calls] /\ calls'["logout"] = c
          /\ \A k \in Door!Kinds : k # "logout" => calls'[k] = calls[k]
      BY <1>0, <3>1, <3>2, SetCall, DoorKinds DEF DoorTyped
    <3>5. LoginInv' /\ SessionsInv'
      BY <1>0, <2>0, <3>1, <3>2, SendKeeps, DoorKinds DEF DoorTyped
    <3>6. WaitsInv'
      BY <1>0, <2>0, <3>4, DoorKinds DEF WaitsInv
    <3>7. Door!TypeOK'
      BY <1>0, <2>0, <2>2, <3>4, DoorTypes DEF Door!TypeOK, DoorTyped, Logins, Calls, Drafts, Servers
    <3> QED BY <3>5, <3>6, <3>7 DEF DoorInv
  <2> QED BY <2>2, <2>3, <2>4
<1> QED BY <1>1, <1>2, <1>3, <1>4, <1>5

\* What an answer makes of the server.
ServerMoves(kind, answer) ==
  /\ server' \in Servers /\ server'.tokens = server.tokens
  /\ \/ server'.valid = server.valid /\ server'.sessions = server.sessions
     \/ server'.valid = {} /\ server'.sessions = server.sessions
     \/ /\ server'.sessions = server.sessions + 1
        /\ server'.valid = server.valid \cup {server.sessions + 1}
  /\ \/ server'.spent = server.spent
     \/ /\ server'.spent = server.spent \cup {calls["login"].token}
        /\ kind = "login" /\ answer # "fields"

\* An answer keeps the invariant if it is one the server gives.
LEMMA AnsweredKeeps ==
  ASSUME DoorInv, NEW kind \in Door!Kinds, calls[kind].stage = "sent",
         NEW answer \in Door!Answers, NEW new \in 0 .. MaxSessions,
         Door!Answered(kind, answer, new), ServerMoves(kind, answer),
         UNCHANGED <<at, session, login, draft, cookie, pending, held>>,
         kind = "code" => answer \notin {"totp", "tokenRefused"},
         new # 0 => cookie <= new, new <= server'.sessions,
         kind \in {"login", "code"} /\ answer = "ok" => new # 0,
         kind = "me" /\ answer = "ok" => calls[kind].cookie # 0,
         kind = "page" /\ answer = "401" => calls[kind].cookie \notin server.valid
  PROVE  DoorInv'
<1>0. DoorTyped /\ WaitsInv /\ LoginInv /\ SessionsInv
  BY DoorInvTyped
<1> DEFINE c == [calls[kind] EXCEPT !.stage = "answered", !.answer = answer, !.new = new]
<1>1. /\ c \in Calls /\ c.stage = "answered" /\ c.answer = answer /\ c.new = new
      /\ c.cookie = calls[kind].cookie /\ c.token = calls[kind].token
  BY <1>0 DEF Calls, DoorTyped
<1>2. calls' = [calls EXCEPT ![kind] = c]
  BY <1>0 DEF Door!Answered, DoorTyped
<1> HIDE DEF c
<1>3. /\ calls' \in [Door!Kinds -> Calls] /\ calls'[kind] = c
      /\ \A k \in Door!Kinds : k # kind => calls'[k] = calls[k]
  BY <1>0, <1>1, <1>2, SetCall DEF DoorTyped
<1>4. calls[kind] # Door!NoCall
  BY NoCallType
<1>5. Door!TypeOK'
  BY <1>0, <1>3, DoorTypes DEF ServerMoves, Door!TypeOK, DoorTyped, Logins, Calls, Drafts, Servers
<1>6. WaitsInv'
  BY <1>0, <1>1, <1>3, <1>4, DoorKinds DEF WaitsInv
<1>7. LoginInv'
  <2>1. CASE kind = "login"
    <3>1. calls["login"].token \in 1 .. server.tokens /\ login.token \notin server.spent
      BY <1>0, <2>1 DEF LoginInv
    <3>2. server'.spent \subseteq 1 .. server.tokens /\ server'.tokens = server.tokens
      BY <1>0, <3>1 DEF LoginInv, ServerMoves
    <3>3. answer = "fields" => server'.spent = server.spent
      BY DEF ServerMoves
    <3> QED BY <1>0, <1>1, <1>3, <2>1, <3>1, <3>2, <3>3 DEF LoginInv
  <2>2. CASE kind # "login"
    <3>1. server'.spent = server.spent /\ server'.tokens = server.tokens
      BY <2>2 DEF ServerMoves
    <3> QED BY <1>0, <1>3, <2>2, <3>1, DoorKinds DEF LoginInv
  <2> QED BY <2>1, <2>2
<1>8. SessionsInv'
  <2>0. server.sessions <= server'.sessions /\ server'.sessions \in Nat
    BY <1>0 DEF ServerMoves, DoorTyped
  <2>1. /\ server'.valid \subseteq 1 .. server'.sessions
        /\ \A s \in server'.valid : \A t \in 1 .. server'.sessions : s <= t => t \in server'.valid
        /\ \A s \in 0 .. server.sessions : s \in server'.valid => s \in server.valid
    <3>1. /\ server.valid \subseteq 1 .. server.sessions
          /\ \A s \in server.valid : \A t \in 1 .. server.sessions : s <= t => t \in server.valid
      BY <1>0 DEF SessionsInv
    <3>2. CASE server'.valid = server.valid /\ server'.sessions = server.sessions
      BY <3>1, <3>2
    <3>3. CASE server'.valid = {} /\ server'.sessions = server.sessions
      BY <3>3
    <3>4. CASE /\ server'.sessions = server.sessions + 1
               /\ server'.valid = server.valid \cup {server.sessions + 1}
      BY <1>0, <3>1, <3>4 DEF DoorTyped
    <3> QED BY <3>2, <3>3, <3>4 DEF ServerMoves
  <2>2. cookie' <= server'.sessions /\ held' <= server'.sessions
    BY <1>0, <2>0 DEF SessionsInv, DoorTyped
  <2>3. \A k \in Door!Kinds : calls'[k].cookie <= server'.sessions /\ calls'[k].new <= server'.sessions
    BY <1>0, <1>1, <1>3, <2>0 DEF SessionsInv, DoorTyped
  <2>4. \A k \in {"login", "code"} :
       /\ calls'[k].new # 0 => cookie' <= calls'[k].new
       /\ calls'[k].stage = "answered" /\ calls'[k].answer = "ok" => calls'[k].new # 0
    BY <1>0, <1>1, <1>3, DoorKinds DEF SessionsInv
  <2>5. /\ calls'["me"].cookie <= cookie'
        /\ calls'["me"].stage = "answered" /\ calls'["me"].answer = "ok" => calls'["me"].cookie # 0
        /\ calls'["page"] # Door!NoCall => calls'["page"].cookie = cookie'
    BY <1>0, <1>1, <1>3, <1>4, DoorKinds DEF SessionsInv
  <2>6. calls'["page"].stage = "answered" /\ calls'["page"].answer = "401" =>
             calls'["page"].cookie \notin server'.valid
    <3>1. calls["page"].cookie \in 0 .. server.sessions
      BY <1>0, DoorKinds DEF SessionsInv, DoorTyped
    <3> QED BY <1>0, <1>1, <1>3, <2>1, <3>1, DoorKinds DEF SessionsInv
  <2>7. Door!NoStaleExpiry'
    <3>1. held \in 0 .. server.sessions
      BY <1>0 DEF SessionsInv, DoorTyped
    <3> QED BY <1>0, <2>1, <3>1 DEF SessionsInv, Door!NoStaleExpiry
  <2> QED BY <1>0, <2>1, <2>2, <2>3, <2>4, <2>5, <2>6, <2>7 DEF SessionsInv
<1> QED BY <1>5, <1>6, <1>7, <1>8 DEF DoorInv

LEMMA NewSession ==
  ASSUME DoorTyped, SessionsInv, Door!Issue
  PROVE  /\ Door!NextSession \in 0 .. MaxSessions /\ Door!NextSession = server.sessions + 1
         /\ Door!NextSession # 0 /\ cookie <= Door!NextSession
  BY DoorTypes DEF Door!Issue, Door!NextSession, DoorTyped, SessionsInv, Servers

LEMMA ServeKeeps ==
  ASSUME DoorInv, Door!Serve
  PROVE  DoorInv'
<1>0. DoorTyped /\ WaitsInv /\ LoginInv /\ SessionsInv
  BY DoorInvTyped
<1>1. PICK kind \in Door!Kinds :
        /\ calls[kind].stage = "sent"
        /\ CASE kind = "login" -> Door!ServeLogin(calls[kind])
             [] kind = "code" -> Door!ServeCode
             [] kind = "logout" -> Door!ServeLogout(calls[kind])
             [] OTHER -> Door!ServeSession(kind, calls[kind])
  BY DEF Door!Serve
<1>2. UNCHANGED <<at, session, login, draft, cookie, pending, held>>
  BY DEF Door!Serve, Door!client
<1>3. /\ 0 \in 0 .. MaxSessions /\ 0 <= server.sessions /\ 1 <= server.sessions + 1
      /\ server.sessions + 1 <= server.sessions + 1
  BY <1>0, DoorTypes DEF DoorTyped
<1>4. {"fields", "tokenRefused", "rateLimited", "unavailable", "verificationFailed", "401", "totp", "ok",
       "wrongCode", "error"} \subseteq Door!Answers
  BY DEF Door!Answers, Door!Failures
<1>5. CASE kind = "login"
  <2>0. Door!ServeLogin(calls[kind])
    BY <1>1, <1>5
  <2> DEFINE token == calls[kind].token
             spend == [server EXCEPT !.spent = server.spent \cup {token}]
  <2>1. token \in 1 .. MaxTokens
    BY <1>0, <1>1, <1>5, DoorTypes DEF LoginInv, DoorTyped, Servers
  <2>2. /\ spend \in Servers /\ spend.tokens = server.tokens /\ spend.valid = server.valid
        /\ spend.sessions = server.sessions /\ spend.spent = server.spent \cup {calls["login"].token}
    BY <1>0, <1>5, <2>1 DEF Servers, DoorTyped
  <2>3. CASE /\ \E answer \in {"fields", "tokenRefused", "rateLimited"} : Door!Answered("login", answer, 0)
             /\ UNCHANGED server
    <3>1. PICK answer \in {"fields", "tokenRefused", "rateLimited"} : Door!Answered("login", answer, 0)
      BY <2>3
    <3>2. ServerMoves(kind, answer) /\ server'.sessions = server.sessions
      BY <1>0, <2>3 DEF ServerMoves, DoorTyped
    <3> QED BY <1>1, <1>2, <1>3, <1>4, <1>5, <3>1, <3>2, AnsweredKeeps
  <2>4. CASE /\ Door!Answered("login", "unavailable", 0)
             /\ \E spent_ \in {server.spent, server.spent \cup {calls[kind].token}} :
                  server' = [server EXCEPT !.spent = spent_]
    <3>1. server' = server \/ server' = spend
      BY <1>0, <2>4 DEF DoorTyped, Servers
    <3> HIDE DEF spend
    <3>2. ServerMoves(kind, "unavailable") /\ server'.sessions = server.sessions
      BY <1>0, <1>5, <2>2, <3>1 DEF ServerMoves, DoorTyped
    <3> QED BY <1>1, <1>2, <1>3, <1>4, <1>5, <2>4, <3>2, AnsweredKeeps
  <2>5. CASE Door!Answered("login", "verificationFailed", 0) /\ server' = spend
    <3> HIDE DEF spend
    <3>2. ServerMoves(kind, "verificationFailed") /\ server'.sessions = server.sessions
      BY <1>0, <1>5, <2>2, <2>5 DEF ServerMoves, DoorTyped
    <3> QED BY <1>1, <1>2, <1>3, <1>4, <1>5, <2>5, <3>2, AnsweredKeeps
  <2>6. CASE /\ \E answer \in {"rateLimited", "401", "totp"} : Door!Answered("login", answer, 0)
             /\ server' = spend
    <3> HIDE DEF spend
    <3>1. PICK answer \in {"rateLimited", "401", "totp"} : Door!Answered("login", answer, 0)
      BY <2>6
    <3>2. ServerMoves(kind, answer) /\ server'.sessions = server.sessions
      BY <1>0, <1>5, <2>2, <2>6 DEF ServerMoves, DoorTyped
    <3> QED BY <1>1, <1>2, <1>3, <1>4, <1>5, <3>1, <3>2, AnsweredKeeps
  <2>7. CASE /\ Door!Issue /\ Door!Answered("login", "ok", Door!NextSession)
             /\ server' = [server EXCEPT !.spent = server.spent \cup {calls[kind].token},
                             !.sessions = Door!NextSession, !.valid = server.valid \cup {Door!NextSession}]
    <3>1. /\ Door!NextSession \in 0 .. MaxSessions /\ Door!NextSession = server.sessions + 1
          /\ Door!NextSession # 0 /\ cookie <= Door!NextSession
      BY <1>0, <2>7, NewSession
    <3>2. server' = [spend EXCEPT !.sessions = Door!NextSession, !.valid = server.valid \cup {Door!NextSession}]
      BY <2>7
    <3> HIDE DEF spend
    <3>3. Door!NextSession \in 1 .. MaxSessions
      BY <1>0, <3>1 DEF DoorTyped
    <3>4. /\ server' \in Servers /\ server'.tokens = server.tokens
          /\ server'.sessions = server.sessions + 1
          /\ server'.valid = server.valid \cup {server.sessions + 1}
          /\ server'.spent = server.spent \cup {calls["login"].token}
      BY <1>0, <2>2, <3>1, <3>2, <3>3 DEF Servers, DoorTyped
    <3>5. ServerMoves(kind, "ok")
      BY <1>5, <3>4 DEF ServerMoves
    <3>6. Door!NextSession <= server'.sessions
      BY <1>3, <3>1, <3>4
    <3> QED BY <1>1, <1>2, <1>4, <1>5, <2>7, <3>1, <3>5, <3>6, AnsweredKeeps
  <2> QED BY <2>0, <2>3, <2>4, <2>5, <2>6, <2>7 DEF Door!ServeLogin
<1>6. CASE kind = "code"
  <2>0. Door!ServeCode
    BY <1>1, <1>6
  <2>1. CASE /\ \E answer \in {"rateLimited", "fields", "wrongCode", "unavailable", "401"} :
                  Door!Answered("code", answer, 0)
             /\ UNCHANGED server
    <3>1. PICK answer \in {"rateLimited", "fields", "wrongCode", "unavailable", "401"} :
            Door!Answered("code", answer, 0)
      BY <2>1
    <3>2. ServerMoves(kind, answer) /\ server'.sessions = server.sessions
      BY <1>0, <2>1 DEF ServerMoves, DoorTyped
    <3> QED BY <1>1, <1>2, <1>3, <1>4, <1>6, <3>1, <3>2, AnsweredKeeps
  <2>2. CASE /\ Door!Issue /\ Door!Answered("code", "ok", Door!NextSession)
             /\ server' = [server EXCEPT !.sessions = Door!NextSession,
                                         !.valid = server.valid \cup {Door!NextSession}]
    <3>1. /\ Door!NextSession \in 0 .. MaxSessions /\ Door!NextSession = server.sessions + 1
          /\ Door!NextSession # 0 /\ cookie <= Door!NextSession
      BY <1>0, <2>2, NewSession
    <3>3. Door!NextSession \in 1 .. MaxSessions
      BY <1>0, <3>1 DEF DoorTyped
    <3>4. /\ server' \in Servers /\ server'.tokens = server.tokens
          /\ server'.sessions = server.sessions + 1
          /\ server'.valid = server.valid \cup {server.sessions + 1}
          /\ server'.spent = server.spent
      BY <1>0, <2>2, <3>1, <3>3 DEF Servers, DoorTyped
    <3>5. ServerMoves(kind, "ok")
      BY <3>4 DEF ServerMoves
    <3>6. Door!NextSession <= server'.sessions
      BY <1>3, <3>1, <3>4
    <3> QED BY <1>1, <1>2, <1>4, <1>6, <2>2, <3>1, <3>5, <3>6, AnsweredKeeps
  <2> QED BY <2>0, <2>1, <2>2 DEF Door!ServeCode
<1>7. CASE kind = "logout"
  <2>0. Door!ServeLogout(calls[kind])
    BY <1>1, <1>7
  <2>1. server' = server \/ server' = [server EXCEPT !.valid = {}]
    BY <2>0 DEF Door!ServeLogout
  <2>2. ServerMoves(kind, "ok") /\ server'.sessions = server.sessions
    BY <1>0, <2>1 DEF ServerMoves, DoorTyped, Servers
  <2>3. Door!Answered(kind, "ok", 0)
    BY <1>7, <2>0 DEF Door!ServeLogout
  <2> QED BY <1>1, <1>2, <1>3, <1>4, <1>7, <2>2, <2>3, AnsweredKeeps
<1>8. CASE kind \in {"me", "page"}
  <2>0. Door!ServeSession(kind, calls[kind])
    BY <1>1, <1>8
  <2>1. PICK answer \in IF Door!Accepted(calls[kind]) THEN {"ok", "error"} ELSE {"401"} :
          Door!Answered(kind, answer, 0)
    BY <2>0 DEF Door!ServeSession
  <2>2. /\ answer = "401" => calls[kind].cookie \notin server.valid
        /\ answer = "ok" => calls[kind].cookie \in server.valid
        /\ answer \in {"ok", "error", "401"}
    BY <2>1 DEF Door!Accepted
  <2>3. answer = "ok" => calls[kind].cookie # 0
    BY <1>0, <2>2 DEF SessionsInv
  <2>4. ServerMoves(kind, answer) /\ server'.sessions = server.sessions
    BY <1>0, <2>0 DEF ServerMoves, DoorTyped, Door!ServeSession
  <2> QED BY <1>1, <1>2, <1>3, <1>4, <1>8, <2>1, <2>2, <2>3, <2>4, AnsweredKeeps
<1> QED BY <1>5, <1>6, <1>7, <1>8, DoorKinds

LEMMA LapseKeeps ==
  ASSUME DoorInv, Door!Lapse
  PROVE  DoorInv'
<1>0. DoorTyped /\ WaitsInv /\ LoginInv /\ SessionsInv
  BY DoorInvTyped
<1>1. /\ server' = [server EXCEPT !.valid = {}] /\ pending' = FALSE
      /\ UNCHANGED <<at, session, login, draft, held, calls, cookie>>
  BY DEF Door!Lapse, Door!client
<1>2. /\ server' \in Servers /\ server'.valid = {} /\ server'.spent = server.spent
      /\ server'.sessions = server.sessions /\ server'.tokens = server.tokens
  BY <1>0, <1>1 DEF Servers, DoorTyped
<1>3. pending' \in BOOLEAN
  BY <1>1
<1>4. Door!TypeOK'
  BY <1>0, <1>1, <1>2, <1>3, DoorTypes DEF Door!TypeOK, DoorTyped, Logins, Calls, Drafts, Servers
<1>5. WaitsInv'
  BY <1>0, <1>1 DEF WaitsInv
<1>6. LoginInv'
  BY <1>0, <1>1, <1>2 DEF LoginInv
<1>7. SessionsInv'
  BY <1>0, <1>1, <1>2 DEF SessionsInv, Door!NoStaleExpiry
<1> QED BY <1>4, <1>5, <1>6, <1>7 DEF DoorInv

\* Calls end, all but the one that asks whether the session still holds.
Asked(c) ==
  /\ c \in Calls /\ c.stage = "sent" /\ c.answer = "none" /\ c.new = 0
  /\ c.cookie <= cookie' /\ at' = "checking"

\* A step that hears an answer, or leaves a page and what it waits for, keeps the
\* invariant when every call that is still waited for has its page.
LEMMA EndKeeps ==
  ASSUME DoorInv, NEW ks, server' = server,
         calls' \in [Door!Kinds -> Calls],
         \A k \in Door!Kinds : \/ calls'[k] = Door!NoCall
                               \/ (k \notin ks /\ calls'[k] = calls[k])
                               \/ (k = "me" /\ Asked(calls'[k])),
         at' \in Door!Screens, session' \in {"unknown", "signedIn", "signedOut", "expired"},
         login' \in Logins, draft' \in Drafts, pending' \in BOOLEAN,
         cookie' \in 0 .. server.sessions, held' \in 0 .. server.sessions,
         "login" \notin ks /\ calls["login"] # Door!NoCall => at' = "login" /\ login' = login,
         "code" \notin ks /\ calls["code"] # Door!NoCall => at' = "code",
         "me" \notin ks /\ calls["me"] # Door!NoCall => at' = "checking" /\ cookie' = cookie,
         "page" \notin ks /\ calls["page"] # Door!NoCall => at' = "panel" /\ cookie' = cookie,
         login'.token \in {0, login.token},
         login'.token \notin server.spent \/ ("login" \notin ks /\ calls["login"] # Door!NoCall
                                                /\ calls'["login"] = calls["login"]),
         \A k \in {"login", "code"} \ ks : calls[k] # Door!NoCall => cookie' \in {0, cookie},
         at' = "panel" => held' # 0 /\ held' <= cookie',
         session' = "expired" => held' \notin server.valid
  PROVE  DoorInv'
<1>0. DoorTyped /\ WaitsInv /\ LoginInv /\ SessionsInv
  BY DoorInvTyped
<1>1. Door!TypeOK'
  <2>1. cookie' \in 0 .. MaxSessions /\ held' \in 0 .. MaxSessions
    BY <1>0, DoorTypes DEF DoorTyped, Servers
  <2> QED BY <1>0, <2>1, DoorTypes DEF Door!TypeOK, DoorTyped, Logins, Calls, Drafts, Servers
<1>2. WaitsInv'
  BY <1>0, NoCallType, DoorKinds DEF WaitsInv, Asked
<1>3. LoginInv'
  <2>0. server.tokens \in Nat /\ login.token \in Nat /\ server.spent \subseteq 1 .. server.tokens
        /\ login.token <= server.tokens
    BY <1>0 DEF DoorTyped, LoginInv
  <2>1. login'.token <= server'.tokens /\ server'.spent \subseteq 1 .. server'.tokens
    BY <2>0
  <2>2. calls'["login"] = Door!NoCall \/ calls'["login"] = calls["login"]
    BY DoorKinds
  <2>3. calls'["login"].stage = "sent" => calls'["login"].token \in 1 .. server'.tokens
    BY <1>0, <2>2, NoCallType DEF LoginInv
  <2>4. \/ calls'["login"].stage = "answered" /\ calls'["login"].answer # "fields"
        \/ login'.token \notin server'.spent
    BY <1>0, <2>0 DEF LoginInv
  <2> QED BY <2>1, <2>3, <2>4 DEF LoginInv
<1>4. SessionsInv'
  <2>0. server.sessions \in Nat /\ cookie' \in Nat /\ cookie' <= server.sessions
        /\ held' <= server.sessions /\ 0 <= server.sessions /\ 0 <= cookie'
    BY <1>0 DEF DoorTyped
  <2>1. ASSUME NEW k \in Door!Kinds
        PROVE  calls'[k].cookie <= server'.sessions /\ calls'[k].new <= server'.sessions
    <3>1. CASE calls'[k] = Door!NoCall
      BY <2>0, <3>1, NoCallType
    <3>2. CASE calls'[k] = calls[k]
      BY <1>0, <3>2 DEF SessionsInv
    <3>3. CASE Asked(calls'[k])
      <4>1. calls'[k].cookie \in Nat /\ calls'[k].cookie <= cookie' /\ calls'[k].new = 0
        BY <3>3, DoorTypes DEF Asked, Calls
      <4> QED BY <2>0, <4>1
    <3> QED BY <3>1, <3>2, <3>3
  <2>2. ASSUME NEW k \in {"login", "code"}
        PROVE  /\ calls'[k].new # 0 => cookie' <= calls'[k].new
               /\ calls'[k].stage = "answered" /\ calls'[k].answer = "ok" => calls'[k].new # 0
    <3>1. CASE calls'[k] = Door!NoCall
      BY <3>1, NoCallType
    <3>2. CASE calls'[k] # Door!NoCall
      <4>1. calls'[k] = calls[k] /\ k \notin ks /\ k \in Door!Kinds
        BY <3>2, DoorKinds
      <4>2. cookie' \in {0, cookie}
        BY <3>2, <4>1
      <4> QED BY <1>0, <4>1, <4>2 DEF SessionsInv, DoorTyped
    <3> QED BY <3>1, <3>2
  <2>3. /\ calls'["me"].cookie <= cookie'
        /\ calls'["me"].stage = "answered" /\ calls'["me"].answer = "ok" => calls'["me"].cookie # 0
    <3>1. CASE calls'["me"] = Door!NoCall
      BY <2>0, <3>1, NoCallType
    <3>2. CASE Asked(calls'["me"])
      BY <3>2 DEF Asked
    <3>3. CASE "me" \notin ks /\ calls'["me"] = calls["me"] /\ calls["me"] # Door!NoCall
      BY <1>0, <3>3 DEF SessionsInv
    <3> QED BY <3>1, <3>2, <3>3, DoorKinds
  <2>4. /\ calls'["page"] # Door!NoCall => calls'["page"].cookie = cookie'
        /\ calls'["page"].stage = "answered" /\ calls'["page"].answer = "401" =>
             calls'["page"].cookie \notin server'.valid
    <3>1. CASE calls'["page"] = Door!NoCall
      BY <3>1, NoCallType
    <3>2. CASE calls'["page"] # Door!NoCall
      <4>1. calls'["page"] = calls["page"] /\ "page" \notin ks
        BY <3>2, DoorKinds
      <4> QED BY <1>0, <3>2, <4>1 DEF SessionsInv
    <3> QED BY <3>1, <3>2
  <2> QED BY <1>0, <2>0, <2>1, <2>2, <2>3, <2>4 DEF SessionsInv, Door!NoStaleExpiry
<1> QED BY <1>1, <1>2, <1>3, <1>4 DEF DoorInv

\* What is heard: what was answered, or nothing.
Heard(kind, answer) ==
  \/ calls[kind].stage = "answered" /\ answer = calls[kind].answer
  \/ calls[kind].stage # "no" /\ answer = "none"

LEMMA TokenReset ==
  ASSUME NEW f \in Logins
  PROVE  [f EXCEPT !.token = 0] \in Logins /\ [f EXCEPT !.token = 0].token = 0
  BY DoorTypes DEF Logins

LEMMA LoginHears ==
  ASSUME DoorInv, NEW answer, Heard("login", answer), Door!Hear("login", answer)
  PROVE  DoorInv'
<1>0. DoorTyped /\ WaitsInv /\ LoginInv /\ SessionsInv /\ "login" \in Door!Kinds /\ answer \in Door!Answers
  BY DoorInvTyped, DoorKinds DEF Heard, DoorTyped, Calls, Door!Answers
<1>1. calls["login"] # Door!NoCall /\ at = "login" /\ login.status = "submitting"
  BY <1>0, NoCallType DEF Heard, WaitsInv
<1>2. calls["code"] = Door!NoCall /\ calls["me"] = Door!NoCall /\ calls["page"] = Door!NoCall
  BY <1>0, <1>1 DEF WaitsInv
<1> DEFINE ks == {"login"} \cup Door!Aborted
<1>3. Door!LoginLands(answer, calls["login"].new) /\ calls' = Door!Ended(ks)
  BY DEF Door!Hear
<1> HIDE DEF ks
<1>4. /\ calls' \in [Door!Kinds -> Calls]
      /\ \A k \in Door!Kinds : calls'[k] = Door!NoCall \/ (k \notin ks /\ calls'[k] = calls[k])
  BY <1>0, <1>3, EndedCalls DEF DoorTyped
<1>5. "login" \in ks
  BY DEF ks
<1>6. cookie \in 0 .. server.sessions /\ held \in 0 .. server.sessions
  BY <1>0 DEF DoorTyped, SessionsInv
<1>7. CASE answer = "ok"
  <2>1. /\ at' = "panel" /\ session' = "signedIn" /\ held' = calls["login"].new
        /\ login' = Door!Form("idle") /\ cookie' = calls["login"].new /\ UNCHANGED <<draft, pending, server>>
    BY <1>3, <1>7 DEF Door!LoginLands, Door!signIn
  <2>2. calls["login"].new # 0 /\ calls["login"].new \in 0 .. server.sessions
    BY <1>0, <1>7 DEF Heard, SessionsInv, DoorTyped
  <2>3. at' \in Door!Screens /\ login' \in Logins /\ login'.token = 0 /\ 0 \notin server.spent
    BY <1>0, <2>1, FormType, DoorKinds DEF Door!Screens, LoginInv
  <2>4. held' <= cookie'
    BY <2>1, <2>2
  <2> QED BY <1>0, <1>2, <1>4, <1>5, <2>1, <2>2, <2>3, <2>4, EndKeeps DEF DoorTyped
<1>8. CASE answer = "totp"
  <2>1. /\ at' = "code" /\ login' = Door!Form("idle") /\ pending' = TRUE
        /\ UNCHANGED <<session, draft, cookie, server, held>>
    BY <1>3, <1>8 DEF Door!LoginLands
  <2>3. at' \in Door!Screens /\ login' \in Logins /\ login'.token = 0 /\ 0 \notin server.spent
    BY <1>0, <2>1, FormType, DoorKinds DEF Door!Screens, LoginInv
  <2>4. pending' \in BOOLEAN /\ (session' = "expired" => held' \notin server.valid)
    BY <1>0, <2>1 DEF SessionsInv, Door!NoStaleExpiry
  <2> QED BY <1>0, <1>2, <1>4, <1>5, <1>6, <2>1, <2>3, <2>4, EndKeeps DEF DoorTyped
<1>9. CASE answer \notin {"ok", "totp"}
  <2>1. login' = Door!Refused(answer) /\ UNCHANGED <<at, session, draft, cookie, pending, server, held>>
    BY <1>3, <1>9 DEF Door!LoginLands
  <2>2. /\ login' \in Logins
        /\ login'.token = 0 \/ (answer = "fields" /\ login'.token = login.token)
    <3>1. CASE answer = "fields"
      <4>1. login' = [login EXCEPT !.status = "invalid", !.flagged = TRUE, !.typed = FALSE]
        BY <2>1, <3>1 DEF Door!Refused
      <4> QED BY <1>0, <3>1, <4>1, DoorKinds DEF Logins, DoorTyped
    <3>2. CASE answer = "tokenRefused"
      <4> DEFINE g == [login EXCEPT !.status = "invalid"]
      <4>1. login' = [g EXCEPT !.token = 0]
        BY <2>1, <3>2 DEF Door!Refused, Door!reset
      <4>2. g \in Logins
        BY <1>0, DoorKinds DEF Logins, DoorTyped
      <4> HIDE DEF g
      <4> QED BY <4>1, <4>2, TokenReset
    <3>3. CASE answer = "401"
      <4> DEFINE g == [login EXCEPT !.status = "wrongCredentials", !.typed = FALSE]
      <4>1. login' = [g EXCEPT !.token = 0]
        BY <2>1, <3>3 DEF Door!Refused, Door!reset
      <4>2. "wrongCredentials" \in Door!Statuses
        BY DEF Door!Statuses, Door!Failures
      <4>3. g \in Logins
        BY <1>0, <4>2 DEF Logins, DoorTyped
      <4> HIDE DEF g
      <4> QED BY <4>1, <4>3, TokenReset
    <3>4. CASE answer \notin {"fields", "tokenRefused", "401"}
      <4> DEFINE how == IF answer = "none" THEN "error" ELSE answer
      <4>1. how \in Door!Statuses
        BY <1>0, <1>9, <3>4 DEF Door!Statuses, Door!Failures, Door!Answers
      <4> DEFINE g == [login EXCEPT !.status = how]
      <4>2. login' = [g EXCEPT !.token = 0]
        BY <2>1, <3>4 DEF Door!Refused, Door!reset
      <4> HIDE DEF how
      <4>3. g \in Logins
        BY <1>0, <4>1 DEF Logins, DoorTyped
      <4> HIDE DEF g
      <4> QED BY <4>2, <4>3, TokenReset
    <3> QED BY <3>1, <3>2, <3>3, <3>4
  <2>3. login'.token \notin server.spent
    <3>1. 0 \notin server.spent
      BY <1>0 DEF LoginInv
    <3>2. answer = "fields" => login.token \notin server.spent
      BY <1>0 DEF Heard, LoginInv
    <3> QED BY <2>2, <3>1, <3>2
  <2>4. session' = "expired" => held' \notin server.valid
    BY <1>0, <2>1 DEF SessionsInv, Door!NoStaleExpiry
  <2>5. login'.token \in {0, login.token} /\ at' # "panel"
    BY <1>1, <2>1, <2>2
  <2> QED BY <1>0, <1>1, <1>2, <1>4, <1>5, <1>6, <2>1, <2>2, <2>3, <2>4, <2>5, EndKeeps DEF DoorTyped
<1> QED BY <1>7, <1>8, <1>9

LEMMA CodeHears ==
  ASSUME DoorInv, NEW answer, Heard("code", answer), Door!Hear("code", answer)
  PROVE  DoorInv'
<1>0. DoorTyped /\ WaitsInv /\ LoginInv /\ SessionsInv /\ "code" \in Door!Kinds /\ answer \in Door!Answers
  BY DoorInvTyped, DoorKinds DEF Heard, DoorTyped, Calls, Door!Answers
<1>1. calls["code"] # Door!NoCall /\ at = "code" /\ answer \notin {"totp", "tokenRefused"}
  BY <1>0, NoCallType DEF Heard, WaitsInv
<1>2. calls["login"] = Door!NoCall /\ calls["me"] = Door!NoCall /\ calls["page"] = Door!NoCall
  BY <1>0, <1>1 DEF WaitsInv
<1> DEFINE ks == {"code"} \cup Door!Aborted
<1>3. Door!CodeLands(answer, calls["code"].new) /\ calls' = Door!Ended(ks)
  BY DEF Door!Hear
<1> HIDE DEF ks
<1>4. /\ calls' \in [Door!Kinds -> Calls]
      /\ \A k \in Door!Kinds : calls'[k] = Door!NoCall \/ (k \notin ks /\ calls'[k] = calls[k])
  BY <1>0, <1>3, EndedCalls DEF DoorTyped
<1>5. "code" \in ks
  BY DEF ks
<1>6. /\ cookie \in 0 .. server.sessions /\ held \in 0 .. server.sessions /\ 0 \notin server.spent
      /\ session = "expired" => held \notin server.valid
      /\ login.token \notin server.spent
  BY <1>0, <1>2, NoCallType DEF DoorTyped, SessionsInv, LoginInv, Door!NoStaleExpiry
<1>7. CASE answer = "ok"
  <2>1. /\ at' = "panel" /\ session' = "signedIn" /\ held' = calls["code"].new /\ pending' = FALSE
        /\ login' = Door!Form("idle") /\ cookie' = calls["code"].new /\ UNCHANGED <<draft, server>>
    BY <1>3, <1>7 DEF Door!CodeLands, Door!signIn
  <2>2. calls["code"].new # 0 /\ calls["code"].new \in 0 .. server.sessions
    BY <1>0, <1>7 DEF Heard, SessionsInv, DoorTyped
  <2>3. at' \in Door!Screens /\ login' \in Logins /\ login'.token = 0 /\ pending' \in BOOLEAN
    BY <2>1, FormType, DoorKinds DEF Door!Screens
  <2>4. held' <= cookie'
    BY <2>1, <2>2
  <2> QED BY <1>0, <1>2, <1>4, <1>5, <1>6, <2>1, <2>2, <2>3, <2>4, EndKeeps DEF DoorTyped
<1>8. CASE answer = "401"
  <2>1. /\ at' = "login" /\ login' = Door!Form("codeExpired")
        /\ UNCHANGED <<session, draft, cookie, pending, server, held>>
    BY <1>3, <1>8 DEF Door!CodeLands, Door!onRestart
  <2>3. at' \in Door!Screens /\ login' \in Logins /\ login'.token = 0
    BY <2>1, FormType, DoorKinds DEF Door!Screens
  <2> QED BY <1>0, <1>2, <1>4, <1>5, <1>6, <2>1, <2>3, EndKeeps DEF DoorTyped
<1>9. CASE answer \notin {"ok", "401"}
  <2> DEFINE how == CASE answer = "fields" -> "invalid" [] answer = "none" -> "error" [] OTHER -> answer
             flagged == answer \in {"wrongCode", "fields"}
             typed == login.typed /\ answer # "wrongCode"
  <2>1. /\ login' = [login EXCEPT !.status = how, !.typed = typed, !.flagged = flagged]
        /\ UNCHANGED <<at, session, draft, cookie, pending, server, held>>
    BY <1>3, <1>9 DEF Door!CodeLands
  <2>2. how \in Door!Statuses /\ flagged \in BOOLEAN /\ typed \in BOOLEAN
    BY <1>0, <1>1, <1>9 DEF Door!Statuses, Door!Failures, Door!Answers
  <2> HIDE DEF how, flagged, typed
  <2>3. login' \in Logins /\ login'.token = login.token
    BY <1>0, <2>1, <2>2 DEF Logins, DoorTyped
  <2> QED BY <1>0, <1>1, <1>2, <1>4, <1>5, <1>6, <2>1, <2>3, EndKeeps DEF DoorTyped
<1> QED BY <1>7, <1>8, <1>9

LEMMA MeHears ==
  ASSUME DoorInv, NEW answer, Heard("me", answer), Door!Hear("me", answer)
  PROVE  DoorInv'
<1>0. DoorTyped /\ WaitsInv /\ LoginInv /\ SessionsInv /\ "me" \in Door!Kinds
  BY DoorInvTyped, DoorKinds
<1>1. calls["me"] # Door!NoCall /\ at = "checking"
  BY <1>0, NoCallType DEF Heard, WaitsInv
<1>2. calls["login"] = Door!NoCall /\ calls["code"] = Door!NoCall /\ calls["page"] = Door!NoCall
  BY <1>0, <1>1 DEF WaitsInv
<1> DEFINE ks == {"me"} \cup Door!Aborted
<1>3. Door!MeLands(answer, calls["me"].cookie) /\ calls' = Door!Ended(ks)
  BY DEF Door!Hear
<1> HIDE DEF ks
<1>4. /\ calls' \in [Door!Kinds -> Calls]
      /\ \A k \in Door!Kinds : calls'[k] = Door!NoCall \/ (k \notin ks /\ calls'[k] = calls[k])
  BY <1>0, <1>3, EndedCalls DEF DoorTyped
<1>5. "me" \in ks
  BY DEF ks
<1>6. /\ cookie \in 0 .. server.sessions /\ held \in 0 .. server.sessions /\ 0 \notin server.spent
      /\ session = "expired" => held \notin server.valid
      /\ login.token \notin server.spent /\ UNCHANGED <<draft, cookie, pending, server>>
  BY <1>0, <1>2, <1>3, NoCallType DEF DoorTyped, SessionsInv, LoginInv, Door!NoStaleExpiry, Door!MeLands
<1>7. CASE answer = "ok"
  <2>1. at' = "panel" /\ session' = "signedIn" /\ held' = calls["me"].cookie /\ login' = Door!Form("idle")
    BY <1>3, <1>7 DEF Door!MeLands, Door!signIn
  <2>2. calls["me"].cookie # 0 /\ calls["me"].cookie \in 0 .. server.sessions /\ calls["me"].cookie <= cookie
    BY <1>0, <1>7 DEF Heard, SessionsInv, DoorTyped
  <2>3. at' \in Door!Screens /\ login' \in Logins /\ login'.token = 0
    BY <2>1, FormType, DoorKinds DEF Door!Screens
  <2>4. held' <= cookie'
    BY <1>6, <2>1, <2>2
  <2> QED BY <1>0, <1>2, <1>4, <1>5, <1>6, <2>1, <2>2, <2>3, <2>4, EndKeeps DEF DoorTyped
<1>8. CASE answer = "401"
  <2>1. at' = "login" /\ login' = Door!Form("idle") /\ UNCHANGED <<session, held>>
    BY <1>3, <1>8 DEF Door!MeLands, Door!onRestart
  <2>3. at' \in Door!Screens /\ login' \in Logins /\ login'.token = 0
    BY <2>1, FormType, DoorKinds DEF Door!Screens
  <2> QED BY <1>0, <1>2, <1>4, <1>5, <1>6, <2>1, <2>3, EndKeeps DEF DoorTyped
<1>9. CASE answer \notin {"ok", "401"}
  <2>1. at' = "failed" /\ UNCHANGED <<session, login, held>>
    BY <1>3, <1>9 DEF Door!MeLands
  <2>3. at' \in Door!Screens
    BY <2>1 DEF Door!Screens
  <2> QED BY <1>0, <1>2, <1>4, <1>5, <1>6, <2>1, <2>3, EndKeeps DEF DoorTyped
<1> QED BY <1>7, <1>8, <1>9

\* A 401 of the panel: the session it was opened with is no older than the refused one.
LEMMA PageHears ==
  ASSUME DoorInv, NEW answer, Heard("page", answer), Door!Hear("page", answer)
  PROVE  DoorInv'
<1>0. DoorTyped /\ WaitsInv /\ LoginInv /\ SessionsInv /\ "page" \in Door!Kinds
  BY DoorInvTyped, DoorKinds
<1>1. calls["page"] # Door!NoCall /\ at = "panel"
  BY <1>0, NoCallType DEF Heard, WaitsInv
<1>2. calls["login"] = Door!NoCall /\ calls["code"] = Door!NoCall /\ calls["me"] = Door!NoCall
  BY <1>0, <1>1 DEF WaitsInv
<1> DEFINE ks == {"page"} \cup Door!Aborted
<1>3. Door!PageLands(answer) /\ calls' = Door!Ended(ks)
  BY DEF Door!Hear
<1> HIDE DEF ks
<1>4. /\ calls' \in [Door!Kinds -> Calls]
      /\ \A k \in Door!Kinds : calls'[k] = Door!NoCall \/ (k \notin ks /\ calls'[k] = calls[k])
  BY <1>0, <1>3, EndedCalls DEF DoorTyped
<1>5. "page" \in ks
  BY DEF ks
<1>6. /\ cookie \in 0 .. server.sessions /\ held \in 0 .. server.sessions /\ 0 \notin server.spent
      /\ session = "expired" => held \notin server.valid
      /\ login.token \notin server.spent /\ UNCHANGED <<cookie, pending, server, held>>
      /\ held # 0 /\ held <= cookie
  BY <1>0, <1>1, <1>2, <1>3, NoCallType
     DEF DoorTyped, SessionsInv, LoginInv, Door!NoStaleExpiry, Door!PageLands
<1>7. CASE answer = "401"
  <2>1. /\ at' = "login" /\ session' = "expired" /\ login' = Door!Form("idle")
        /\ draft' = [draft EXCEPT !.asked = FALSE]
    BY <1>1, <1>3, <1>7 DEF Door!PageLands, Door!expire, Door!onRestart
  <2>2. cookie \notin server.valid
    BY <1>0, <1>1, <1>7 DEF Heard, SessionsInv
  <2>3. held \notin server.valid
    BY <1>0, <1>6, <2>2 DEF SessionsInv, DoorTyped
  <2>4. at' \in Door!Screens /\ login' \in Logins /\ login'.token = 0 /\ draft' \in Drafts
    BY <1>0, <2>1, FormType, DoorKinds DEF Door!Screens, DoorTyped, Drafts
  <2> QED BY <1>0, <1>2, <1>4, <1>5, <1>6, <2>1, <2>3, <2>4, EndKeeps DEF DoorTyped
<1>8. CASE answer # "401"
  <2>1. UNCHANGED <<at, session, login, draft>>
    BY <1>3, <1>8 DEF Door!PageLands
  <2> QED BY <1>0, <1>2, <1>4, <1>5, <1>6, <2>1, EndKeeps DEF DoorTyped
<1> QED BY <1>7, <1>8

\* A sign-out that worked is followed wherever the owner is by then.
LEMMA LogoutHears ==
  ASSUME DoorInv, NEW answer, Heard("logout", answer), Door!Hear("logout", answer)
  PROVE  DoorInv'
<1>0. DoorTyped /\ WaitsInv /\ LoginInv /\ SessionsInv
  BY DoorInvTyped
<1> DEFINE ks == {"logout"} \cup Door!Aborted
<1>1. Door!LogoutLands(answer, calls["logout"].drop) /\ calls' = Door!Ended(ks)
  BY DEF Door!Hear
<1>2. /\ "login" \notin ks /\ "code" \notin ks
      /\ at = "checking" => "me" \in ks
      /\ at = "panel" /\ at' # "panel" => "page" \in ks
  BY DEF Door!Aborted, Door!Shell
<1> HIDE DEF ks
<1>3. /\ calls' \in [Door!Kinds -> Calls]
      /\ \A k \in Door!Kinds : calls'[k] = Door!NoCall \/ (k \notin ks /\ calls'[k] = calls[k])
      /\ calls'["login"] = calls["login"]
  BY <1>0, <1>1, <1>2, EndedCalls, DoorKinds DEF DoorTyped
<1>4. /\ cookie \in 0 .. server.sessions /\ held \in 0 .. server.sessions /\ 0 \notin server.spent
      /\ session = "expired" => held \notin server.valid
      /\ calls["login"] = Door!NoCall => login.token \notin server.spent
      /\ UNCHANGED <<server, held>>
  BY <1>0, <1>1, NoCallType
     DEF DoorTyped, SessionsInv, LoginInv, Door!NoStaleExpiry, Door!LogoutLands, Door!client
<1>5. CASE answer # "ok"
  <2>1. UNCHANGED <<at, session, login, draft, cookie, pending>>
    BY <1>1, <1>5 DEF Door!LogoutLands, Door!client
  <2>2. at = "panel" => held # 0 /\ held <= cookie
    BY <1>0 DEF SessionsInv
  <2> QED BY <1>0, <1>2, <1>3, <1>4, <2>1, <2>2, EndKeeps DEF DoorTyped, WaitsInv
<1>6. CASE answer = "ok"
  <2> DEFINE kept == draft.kept /\ ~calls["logout"].drop
  <2>1. /\ session' = "signedOut" /\ draft' = [kept |-> kept, asked |-> FALSE]
        /\ cookie' = 0 /\ pending' = FALSE
        /\ IF at \in {"login", "code"} THEN UNCHANGED <<at, login>> ELSE at' = "login" /\ login' = Door!Form("idle")
    BY <1>1, <1>6 DEF Door!LogoutLands, Door!onRestart
  <2>2. draft' \in Drafts /\ pending' \in BOOLEAN /\ cookie' \in 0 .. server.sessions /\ cookie' \in {0, cookie}
    <3>1. kept \in BOOLEAN
      OBVIOUS
    <3> HIDE DEF kept
    <3>2. draft' \in Drafts
      BY <2>1, <3>1 DEF Drafts
    <3>3. pending' \in BOOLEAN
      BY <2>1
    <3>4. 0 \in 0 .. server.sessions
      BY <1>0, <1>4 DEF DoorTyped
    <3> QED BY <2>1, <3>2, <3>3, <3>4
  <2>3. /\ at' \in Door!Screens /\ login' \in Logins /\ at' # "panel"
        /\ login' = login \/ login'.token = 0
    BY <1>0, <2>1, FormType, DoorKinds DEF Door!Screens, DoorTyped
  <2>4. CASE at \in {"login", "code"}
    BY <1>0, <1>2, <1>3, <1>4, <2>1, <2>2, <2>3, <2>4, EndKeeps DEF DoorTyped, WaitsInv
  <2>5. CASE at \notin {"login", "code"}
    <3>1. login'.token = 0 /\ at' = "login"
      BY <2>1, <2>5, FormType, DoorKinds
    <3> QED BY <1>0, <1>2, <1>3, <1>4, <2>1, <2>2, <2>3, <2>5, <3>1, EndKeeps DEF DoorTyped, WaitsInv
  <2> QED BY <2>4, <2>5
<1> QED BY <1>5, <1>6

LEMMA HearKeeps ==
  ASSUME DoorInv, Door!Land \/ Door!NoAnswer
  PROVE  DoorInv'
<1>1. PICK kind \in Door!Kinds : \E answer : Heard(kind, answer) /\ Door!Hear(kind, answer)
  BY DEF Door!Land, Door!NoAnswer, Heard
<1>2. PICK answer : Heard(kind, answer) /\ Door!Hear(kind, answer)
  BY <1>1
<1> QED BY <1>2, LoginHears, CodeHears, MeHears, PageHears, LogoutHears, DoorKinds

\* The cookie of a request whose page is gone: an answer may have set a newer one.
LEMMA KeptCookie ==
  ASSUME DoorTyped, SessionsInv, NEW kind \in {"login", "code"}, NEW c \in Door!Kept(kind)
  PROVE  c \in 0 .. server.sessions /\ cookie <= c
<1>1. kind \in Door!Kinds /\ cookie \in 0 .. server.sessions
  BY DoorKinds DEF SessionsInv, DoorTyped
<1>2. calls[kind].new \in 0 .. server.sessions /\ (calls[kind].new # 0 => cookie <= calls[kind].new)
  BY <1>1 DEF SessionsInv, DoorTyped, Calls
<1> QED BY <1>1, <1>2 DEF Door!Kept

LEMMA GoKeeps ==
  ASSUME DoorInv, Door!StartOver \/ Door!VisitPanel \/ Door!VisitLogin \/ Door!Reload
  PROVE  DoorInv'
<1>0. DoorTyped /\ WaitsInv /\ LoginInv /\ SessionsInv
  BY DoorInvTyped
<1>c. /\ cookie \in 0 .. server.sessions /\ held \in 0 .. server.sessions /\ 0 \notin server.spent
      /\ 0 \in 0 .. server.sessions
      /\ session = "expired" => held \notin server.valid
      /\ calls["login"] = Door!NoCall => login.token \notin server.spent
      /\ server' = server
  BY <1>0, NoCallType DEF DoorTyped, SessionsInv, LoginInv, Door!NoStaleExpiry,
       Door!StartOver, Door!VisitPanel, Door!VisitLogin, Door!Reload
<1>1. CASE Door!StartOver
  <2>1. /\ at = "code" /\ at' = "login" /\ login' = Door!Form("idle") /\ calls' = Door!Ended({"code"})
        /\ cookie' \in Door!Kept("code") /\ UNCHANGED <<session, draft, pending, held>>
    BY <1>1 DEF Door!StartOver, Door!onRestart
  <2>2. cookie' \in 0 .. server.sessions
    BY <1>0, <2>1, KeptCookie
  <2>3. /\ calls' \in [Door!Kinds -> Calls]
        /\ \A k \in Door!Kinds : calls'[k] = Door!NoCall \/ (k \notin {"code"} /\ calls'[k] = calls[k])
    BY <1>0, <2>1, EndedCalls DEF DoorTyped
  <2>4. at' \in Door!Screens /\ login' \in Logins /\ login'.token = 0
    BY <2>1, FormType, DoorKinds DEF Door!Screens
  <2>5. calls["login"] = Door!NoCall /\ calls["me"] = Door!NoCall /\ calls["page"] = Door!NoCall
    BY <1>0, <2>1 DEF WaitsInv
  <2> DEFINE ks == {"code"}
  <2> HIDE DEF ks
  <2>6. /\ \A k \in Door!Kinds : calls'[k] = Door!NoCall \/ (k \notin ks /\ calls'[k] = calls[k])
        /\ "code" \in ks
    BY <2>3 DEF ks
  <2> QED BY <1>0, <1>c, <2>1, <2>2, <2>3, <2>4, <2>5, <2>6, EndKeeps DEF DoorTyped
<1>2. CASE Door!VisitPanel
  <2> DEFINE ks == {"login", "code"}
  <2>1. /\ at \in {"login", "code"} /\ login' = Door!Form("idle")
        /\ cookie' \in Door!Kept("login") \cup Door!Kept("code") /\ UNCHANGED <<session, draft, pending, held>>
    BY <1>2 DEF Door!VisitPanel, Door!onRestart
  <2>2. cookie' \in 0 .. server.sessions /\ cookie <= cookie'
    BY <1>0, <2>1, KeptCookie
  <2>3. /\ Door!Ended(ks) \in [Door!Kinds -> Calls]
        /\ \A k \in Door!Kinds : Door!Ended(ks)[k] = Door!NoCall \/ (k \notin ks /\ Door!Ended(ks)[k] = calls[k])
        /\ "login" \in ks /\ "code" \in ks
    BY <1>0, EndedCalls DEF DoorTyped
  <2>4. login' \in Logins /\ login'.token = 0
    BY <2>1, FormType, DoorKinds
  <2>5. calls["me"] = Door!NoCall /\ calls["page"] = Door!NoCall
    BY <1>0, <2>1 DEF WaitsInv
  <2>6. CASE session = "expired"
    <3>1. at' = "login" /\ calls' = Door!Ended(ks)
      BY <1>2, <2>6 DEF Door!VisitPanel, Door!onRestart
    <3>2. at' \in Door!Screens
      BY <3>1 DEF Door!Screens
    <3> HIDE DEF ks
    <3> QED BY <1>0, <1>c, <2>1, <2>2, <2>3, <2>4, <2>5, <3>1, <3>2, EndKeeps DEF DoorTyped
  <2>7. CASE session # "expired"
    <3>1. at' = "checking" /\ calls' = [Door!Ended(ks) EXCEPT !["me"] = Door!Call]
      BY <1>2, <2>7 DEF Door!VisitPanel
    <3>2. at' \in Door!Screens
      BY <3>1 DEF Door!Screens
    <3>3. Asked(Door!Call) /\ Door!Call \in Calls
      BY <1>0, <2>2, <3>1, CallType DEF Asked, DoorTyped
    <3> HIDE DEF ks
    <3>4. /\ calls' \in [Door!Kinds -> Calls] /\ calls'["me"] = Door!Call
          /\ \A k \in Door!Kinds : k # "me" => calls'[k] = Door!Ended(ks)[k]
      BY <2>3, <3>1, <3>3, DoorKinds
    <3>5. \A k \in Door!Kinds : \/ calls'[k] = Door!NoCall
                                \/ (k \notin ks /\ calls'[k] = calls[k])
                                \/ (k = "me" /\ Asked(calls'[k]))
      BY <2>3, <3>3, <3>4
    <3> QED BY <1>0, <1>c, <2>1, <2>2, <2>3, <2>4, <2>5, <3>1, <3>2, <3>4, <3>5, EndKeeps DEF DoorTyped
  <2> QED BY <2>6, <2>7
<1>3. CASE Door!VisitLogin
  <2> DEFINE ks == IF at = "panel" THEN Door!Shell ELSE {"me"}
  <2>1. /\ at \in {"panel", "checking", "failed"} /\ calls' = Door!Ended(ks)
        /\ draft' = [draft EXCEPT !.asked = FALSE]
        /\ UNCHANGED <<session, cookie, pending, held>>
        /\ IF at = "panel" THEN UNCHANGED <<at, login>> ELSE at' = "login" /\ login' = Door!Form("idle")
    BY <1>3 DEF Door!VisitLogin, Door!onRestart
  <2>2. /\ at = "panel" => "page" \in ks
        /\ at # "panel" => "me" \in ks
    BY DEF Door!Shell
  <2> HIDE DEF ks
  <2>3. /\ calls' \in [Door!Kinds -> Calls]
        /\ \A k \in Door!Kinds : calls'[k] = Door!NoCall \/ (k \notin ks /\ calls'[k] = calls[k])
    BY <1>0, <2>1, EndedCalls DEF DoorTyped
  <2>4. draft' \in Drafts
    BY <1>0, <2>1 DEF Drafts, DoorTyped
  <2>5. calls["login"] = Door!NoCall /\ calls["code"] = Door!NoCall
    BY <1>0, <2>1 DEF WaitsInv
  <2>6. CASE at = "panel"
    <3>1. calls["me"] = Door!NoCall /\ held # 0 /\ held <= cookie /\ at' = at /\ login' = login
      BY <1>0, <2>1, <2>6 DEF WaitsInv, SessionsInv
    <3> QED BY <1>0, <1>c, <2>1, <2>2, <2>3, <2>4, <2>5, <2>6, <3>1, EndKeeps DEF DoorTyped
  <2>7. CASE at # "panel"
    <3>1. calls["page"] = Door!NoCall /\ at' = "login" /\ login' = Door!Form("idle")
      BY <1>0, <2>1, <2>7 DEF WaitsInv
    <3>2. at' \in Door!Screens /\ login' \in Logins /\ login'.token = 0
      BY <3>1, FormType, DoorKinds DEF Door!Screens
    <3> QED BY <1>0, <1>c, <2>1, <2>2, <2>3, <2>4, <2>5, <2>7, <3>1, <3>2, EndKeeps DEF DoorTyped
  <2> QED BY <2>6, <2>7
<1>4. CASE Door!Reload
  <2>1. /\ session' = "unknown" /\ login' = Door!Form("idle") /\ held' = 0
        /\ draft' = [draft EXCEPT !.asked = FALSE]
        /\ at' \in {"login", "checking"} /\ pending' = pending
        /\ cookie' \in Door!Kept("login") \cup Door!Kept("code") \cup {0}
    BY <1>4 DEF Door!Reload
  <2>2. cookie' \in 0 .. server.sessions /\ cookie' \in 0 .. MaxSessions
    BY <1>0, <1>c, <2>1, KeptCookie, DoorTypes DEF DoorTyped, Servers
  <2> DEFINE none == [k \in Door!Kinds |-> Door!NoCall]
             me == [Door!NoCall EXCEPT !.stage = "sent", !.cookie = cookie']
  <2>3. calls' = [none EXCEPT !["me"] = IF at' = "checking" THEN [@ EXCEPT !.stage = "sent", !.cookie = cookie'] ELSE @]
    BY <1>4 DEF Door!Reload
  <2>4. me \in Calls /\ me.stage = "sent" /\ me.answer = "none" /\ me.new = 0 /\ me.cookie = cookie'
    BY <2>2, NoCallType DEF Calls
  <2>5. none \in [Door!Kinds -> Calls] /\ \A k \in Door!Kinds : none[k] = Door!NoCall
    BY NoCallType
  <2>6. calls' = [none EXCEPT !["me"] = IF at' = "checking" THEN me ELSE Door!NoCall]
    BY <2>3, <2>5, DoorKinds
  <2> HIDE DEF none, me
  <2>7. /\ calls' \in [Door!Kinds -> Calls] /\ \A k \in Door!Kinds : k # "me" => calls'[k] = Door!NoCall
        /\ calls'["me"] = Door!NoCall \/ (at' = "checking" /\ calls'["me"] = me)
    BY <2>4, <2>5, <2>6, NoCallType, DoorKinds
  <2>8. Asked(me) \/ at' # "checking"
    BY <2>2, <2>4 DEF Asked
  <2>9. \A k \in Door!Kinds : \/ calls'[k] = Door!NoCall
                              \/ (k \notin Door!Kinds /\ calls'[k] = calls[k])
                              \/ (k = "me" /\ Asked(calls'[k]))
    BY <2>7, <2>8
  <2>10. at' \in Door!Screens /\ at' # "panel"
    BY <2>1 DEF Door!Screens
  <2>11. login' \in Logins /\ login'.token = 0
    BY <2>1, FormType, DoorKinds
  <2>12. draft' \in Drafts
    BY <1>0, <2>1 DEF Drafts, DoorTyped
  <2>13. "login" \in Door!Kinds /\ "code" \in Door!Kinds /\ "me" \in Door!Kinds /\ "page" \in Door!Kinds
    BY DoorKinds
  <2>14. /\ pending' \in BOOLEAN /\ held' \in 0 .. server.sessions
         /\ session' \in {"unknown", "signedIn", "signedOut", "expired"} /\ session' # "expired"
         /\ \A k \in {"login", "code"} \ Door!Kinds : FALSE
    BY <1>0, <1>c, <2>1, <2>13 DEF DoorTyped
  <2> DEFINE ks == Door!Kinds
  <2> HIDE DEF ks
  <2>15. /\ \A k \in Door!Kinds : \/ calls'[k] = Door!NoCall
                                  \/ (k \notin ks /\ calls'[k] = calls[k])
                                  \/ (k = "me" /\ Asked(calls'[k]))
         /\ "login" \in ks /\ "code" \in ks /\ "me" \in ks /\ "page" \in ks
    BY <2>9, <2>13 DEF ks
  <2> QED BY <1>c, <2>2, <2>7, <2>10, <2>11, <2>12, <2>14, <2>15, EndKeeps
<1> QED BY <1>1, <1>2, <1>3, <1>4

LEMMA DoorStep == DoorInv /\ Door!Next => DoorInv'
  BY LoginPage, Sends, ServeKeeps, LapseKeeps, HearKeeps, GoKeeps DEF Door!Next

\* What the invariant promises.
LEMMA DoorKeepsTrue == DoorInv => Door!NoStaleExpiry /\ Door!LoginTokenNotSpent
<1> SUFFICES ASSUME DoorInv, at = "login", login.status # "submitting"
             PROVE  login.token \notin server.spent
  BY DEF DoorInv, SessionsInv, Door!LoginTokenNotSpent
<1>1. calls["login"] = Door!NoCall
  BY DEF DoorInv, WaitsInv
<1> QED BY <1>1, NoCallType DEF DoorInv, LoginInv

-------------------------------------------------------------------------------
(* The security page.                                                        *)

Totps == [active : 0 .. MaxSecrets, pending : 0 .. MaxSecrets, issued : 0 .. MaxSecrets]
Queries ==
  [status : {"loading", "ready", "error"}, on : BOOLEAN, loaded : BOOLEAN,
   at : {"none", "sent", "answered"}, answer : BOOLEAN]
Setups ==
  [secret : 0 .. MaxSecrets, state : {"idle", "starting", "failed"},
   at : {"none", "sent", "answered", "conflict"}, answer : 0 .. MaxSecrets]
Confirms ==
  [status : {"idle", "submitting", "invalid", "rateLimited", "unavailable", "error"},
   at : {"none", "enable", "disable", "answered"},
   answer : Second!Refusals \cup {"none", "ok", "conflict"}]

\* A confirmation that was carried out, and the page does not know it yet.
Carried == confirm.at = "answered" /\ confirm.answer = "ok"

\* While nothing was upset, the page is loaded once and then tells the server's state,
\* but for what it has not been told of its own confirmation; a setup begins and a
\* secret is shown only while it is off, so no conflict is found.
Undisturbed ==
  /\ setup.at # "conflict" /\ (confirm.at = "answered" => confirm.answer # "conflict")
  /\ status.loaded <=> status.at = "none"
  /\ ~status.loaded => setup.at = "none" /\ setup.secret = 0 /\ confirm.at = "none"
  /\ status.at = "answered" => status.answer = (totp.active # 0)
  /\ status.loaded => (status.on <=> (totp.active # 0 <=> ~Carried))
  /\ setup.at # "none" => totp.active = 0 /\ confirm.at = "none" /\ setup.secret = 0 /\ ~status.on
  /\ setup.at = "answered" => totp.pending # 0
  /\ setup.secret # 0 => ~status.on /\ (Carried \/ (totp.active = 0 /\ totp.pending # 0))
  /\ confirm.at # "none" => status.on \/ setup.secret # 0
  /\ confirm.at = "enable" => ~status.on
  /\ confirm.at = "disable" => status.on

SecurityInv ==
  /\ Second!TypeOK /\ Second!NotLockedOut
  /\ status.status = "ready" => status.loaded
  /\ upsets = 0 => Undisturbed

LEMMA SecurityTypes ==
  /\ MaxSecrets \in Nat \ {0} /\ MaxUpsets \in Nat
  /\ Second!TypeOK <=>
       /\ totp \in Totps /\ status \in Queries /\ setup \in Setups /\ confirm \in Confirms
       /\ scanned \subseteq 1 .. MaxSecrets /\ upsets \in 0 .. MaxUpsets
  BY CorrespondenceAssumption
     DEF Second!Bounds, Second!TypeOK, Second!Secrets, Totps, Queries, Setups, Confirms

LEMMA SecurityBlanks ==
  /\ Second!NoForm \in Confirms /\ Second!NoForm.at = "none"
  /\ Second!NoSetup \in Setups /\ Second!NoSetup.at = "none" /\ Second!NoSetup.secret = 0
  BY SecurityTypes DEF Second!NoForm, Second!NoSetup, Confirms, Setups

\* A reload keeps what is shown.
LEMMA Loading ==
  ASSUME NEW s \in Queries
  PROVE  /\ Second!Load(s) \in Queries /\ Second!Load(s).status = "loading" /\ Second!Load(s).at = "sent"
         /\ Second!Load(s).loaded = s.loaded /\ Second!Load(s).on = s.on
  BY DEF Second!Load, Queries

LEMMA SecurityInit == Second!Init => SecurityInv
<1> SUFFICES ASSUME Second!Init PROVE SecurityInv
  OBVIOUS
<1>1. PICK on \in 0 .. 1 : totp = [active |-> on, pending |-> 0, issued |-> on] /\ scanned = 1 .. on
  BY DEF Second!Init
<1> DEFINE fresh == [status |-> "loading", on |-> FALSE, loaded |-> FALSE, at |-> "none", answer |-> FALSE]
<1>2. /\ status = Second!Load(fresh) /\ setup = Second!NoSetup /\ confirm = Second!NoForm /\ upsets = 0
  BY DEF Second!Init
<1>3. fresh \in Queries /\ fresh.loaded = FALSE /\ fresh.on = FALSE
  BY DEF Queries
<1> HIDE DEF fresh
<1>4. /\ status \in Queries /\ status.status = "loading" /\ status.at = "sent"
      /\ status.loaded = FALSE /\ status.on = FALSE
  BY <1>2, <1>3, Loading
<1>5. totp \in Totps /\ scanned \subseteq 1 .. MaxSecrets /\ upsets \in 0 .. MaxUpsets
  BY <1>1, <1>2, SecurityTypes DEF Totps
<1>6. Second!NotLockedOut
  BY <1>1 DEF Second!NotLockedOut
<1>7. Undisturbed
  BY <1>2, <1>4, SecurityBlanks DEF Undisturbed
<1> QED BY <1>2, <1>4, <1>5, <1>6, <1>7, SecurityTypes, SecurityBlanks DEF SecurityInv

\* The page's own steps leave the server's state alone.
LEMMA PageSecure ==
  ASSUME SecurityInv, totp' = totp, scanned \subseteq scanned'
  PROVE  Second!NotLockedOut'
  BY DEF SecurityInv, Second!NotLockedOut

LEMMA SecurityTyped ==
  ASSUME SecurityInv
  PROVE  /\ totp \in Totps /\ status \in Queries /\ setup \in Setups /\ confirm \in Confirms
         /\ scanned \subseteq 1 .. MaxSecrets /\ upsets \in 0 .. MaxUpsets
         /\ Second!NotLockedOut /\ (status.status = "ready" => status.loaded)
         /\ upsets = 0 => Undisturbed
  BY SecurityTypes DEF SecurityInv

\* What was upset stays so.
LEMMA UpsetSteps ==
  ASSUME SecurityInv, Second!Upset
  PROVE  upsets' \in 0 .. MaxUpsets /\ upsets' # 0
  BY SecurityTypes DEF SecurityInv, Second!Upset

LEMMA SecurityParts ==
  ASSUME totp' \in Totps, status' \in Queries, setup' \in Setups, confirm' \in Confirms,
         scanned' \subseteq 1 .. MaxSecrets, upsets' \in 0 .. MaxUpsets,
         Second!NotLockedOut', status'.status = "ready" => status'.loaded,
         upsets' = 0 => Undisturbed'
  PROVE  SecurityInv'
  BY DEF SecurityInv, Second!TypeOK, Totps, Queries, Setups, Confirms, Second!Secrets

LEMMA StatusKeeps ==
  ASSUME SecurityInv,
         Second!GetStatus \/ Second!StatusLands \/ Second!StatusFails \/ Second!retry
  PROVE  SecurityInv'
<1>0. /\ totp \in Totps /\ status \in Queries /\ setup \in Setups /\ confirm \in Confirms
      /\ scanned \subseteq 1 .. MaxSecrets /\ upsets \in 0 .. MaxUpsets
      /\ Second!NotLockedOut /\ (status.status = "ready" => status.loaded)
      /\ upsets = 0 => Undisturbed
  BY SecurityTyped
<1>1. CASE Second!GetStatus
  <2> DEFINE on == totp.active # 0
  <2>1. /\ status.at = "sent" /\ status' = [status EXCEPT !.at = "answered", !.answer = on]
        /\ UNCHANGED <<totp, setup, confirm, scanned, upsets>>
    BY <1>1 DEF Second!GetStatus
  <2>2. on \in BOOLEAN
    OBVIOUS
  <2> HIDE DEF on
  <2>3. /\ status' \in Queries /\ status'.at = "answered" /\ status'.answer = on
        /\ status'.status = status.status /\ status'.loaded = status.loaded /\ status'.on = status.on
    BY <1>0, <2>1, <2>2 DEF Queries
  <2>4. upsets' = 0 => Undisturbed'
    BY <1>0, <2>1, <2>3 DEF Undisturbed, Carried, on
  <2> QED BY <1>0, <2>1, <2>3, <2>4, PageSecure, SecurityParts
<1>2. CASE Second!StatusLands
  <2>1. /\ status.at = "answered"
        /\ status' = [status EXCEPT !.status = "ready", !.on = status.answer, !.loaded = TRUE, !.at = "none"]
        /\ confirm' = Second!NoForm \/ confirm' = confirm
        /\ UNCHANGED <<totp, setup, scanned, upsets>>
    BY <1>2 DEF Second!StatusLands
  <2>3. /\ status' \in Queries /\ status'.at = "none" /\ status'.status = "ready" /\ status'.loaded = TRUE
        /\ status'.on = status.answer
    BY <1>0, <2>1 DEF Queries
  <2>4. confirm' \in Confirms
    BY <1>0, <2>1, SecurityBlanks
  <2>5. upsets' = 0 => Undisturbed'
    <3> SUFFICES ASSUME upsets' = 0 PROVE Undisturbed'
      OBVIOUS
    <3>1. /\ Undisturbed /\ confirm.at = "none" /\ setup.at = "none" /\ setup.secret = 0
          /\ status.answer = (totp.active # 0)
      BY <1>0, <2>1 DEF Undisturbed
    <3>2. confirm'.at = "none"
      BY <2>1, <3>1, SecurityBlanks
    <3> QED BY <2>1, <2>3, <3>1, <3>2 DEF Undisturbed, Carried
  <2> QED BY <1>0, <2>1, <2>3, <2>4, <2>5, PageSecure, SecurityParts
<1>3. CASE Second!StatusFails
  <2>1. /\ Second!Upset /\ status' = [status EXCEPT !.status = "error", !.at = "none"]
        /\ UNCHANGED <<totp, setup, confirm, scanned>>
    BY <1>3 DEF Second!StatusFails
  <2>2. status' \in Queries /\ status'.status = "error"
    BY <1>0, <2>1 DEF Queries
  <2>3. upsets' \in 0 .. MaxUpsets /\ upsets' # 0
    BY <2>1, UpsetSteps
  <2> QED BY <1>0, <2>1, <2>2, <2>3, PageSecure, SecurityParts
<1>4. CASE Second!retry
  <2>1. /\ status.status = "error" /\ ~status.loaded /\ status' = Second!Load(status)
        /\ UNCHANGED <<totp, setup, confirm, scanned, upsets>>
    BY <1>4 DEF Second!retry
  <2>2. /\ status' \in Queries /\ status'.status = "loading" /\ status'.at = "sent"
        /\ status'.loaded = status.loaded /\ status'.on = status.on
    BY <1>0, <2>1, Loading
  <2>3. upsets' = 0 => Undisturbed'
    BY <1>0, <2>1, <2>2 DEF Undisturbed, Carried
  <2> QED BY <1>0, <2>1, <2>2, <2>3, PageSecure, SecurityParts
<1> QED BY <1>1, <1>2, <1>3, <1>4

LEMMA NewSecrets ==
  ASSUME totp \in Totps, Second!NewSecret
  PROVE  /\ totp' \in Totps /\ totp'.active = totp.active
         /\ totp'.pending = totp.issued + 1 /\ totp'.pending # 0
         /\ totp.issued + 1 \in 1 .. MaxSecrets
<1>1. totp.issued + 1 \in 1 .. MaxSecrets /\ totp.issued + 1 \in 0 .. MaxSecrets /\ totp.issued + 1 # 0
  BY SecurityTypes DEF Second!NewSecret, Totps
<1> DEFINE new == totp.issued + 1
<1>2. totp' = [totp EXCEPT !.pending = new, !.issued = new]
  BY DEF Second!NewSecret, Totps
<1>3. new \in 1 .. MaxSecrets /\ new \in 0 .. MaxSecrets /\ new # 0
  BY <1>1
<1> HIDE DEF new
<1>4. totp' \in Totps /\ totp'.active = totp.active /\ totp'.pending = new
  BY <1>2, <1>3 DEF Totps
<1> QED BY <1>1, <1>4 DEF new

\* A code turns it on only with the pending secret, which the code is of.
LEMMA EnabledRight ==
  ASSUME totp \in Totps, NEW code \in scanned, Second!enable(code) = "ok"
  PROVE  /\ Second!Enabled \in Totps /\ Second!Enabled.active = code /\ Second!Enabled.active # 0
         /\ totp.active = 0
<1>1. totp.pending = code /\ totp.pending # 0 /\ totp.active = 0
  BY DEF Second!enable
<1> QED BY <1>1, SecurityTypes DEF Second!Enabled, Totps

LEMMA DisabledRight ==
  ASSUME totp \in Totps
  PROVE  Second!Disabled \in Totps /\ Second!Disabled.active = 0
<1>1. 0 \in 0 .. MaxSecrets
  BY SecurityTypes
<1> QED BY <1>1 DEF Second!Disabled, Totps

LEMMA SetupKeeps ==
  ASSUME SecurityInv,
         Second!StartSetup \/ Second!begin \/ Second!SetupLands \/ Second!SetupFails \/ Second!Scan
  PROVE  SecurityInv'
<1>0. /\ totp \in Totps /\ status \in Queries /\ setup \in Setups /\ confirm \in Confirms
      /\ scanned \subseteq 1 .. MaxSecrets /\ upsets \in 0 .. MaxUpsets
      /\ Second!NotLockedOut /\ (status.status = "ready" => status.loaded)
      /\ upsets = 0 => Undisturbed
  BY SecurityTyped
<1>1. CASE Second!StartSetup
  <2>0. setup.at = "sent" /\ UNCHANGED <<status, confirm, scanned, upsets>>
    BY <1>1 DEF Second!StartSetup
  <2>1. CASE totp.active # 0
    <3>1. setup' = [setup EXCEPT !.at = "conflict"] /\ totp' = totp
      BY <1>1, <2>1 DEF Second!StartSetup
    <3>2. setup' \in Setups
      BY <1>0, <3>1 DEF Setups
    <3>3. upsets # 0
      BY <1>0, <2>0, <2>1 DEF Undisturbed
    <3> QED BY <1>0, <2>0, <3>1, <3>2, <3>3, PageSecure, SecurityParts
  <2>2. CASE totp.active = 0
    <3> DEFINE new == totp.issued + 1
    <3>1. setup' = [setup EXCEPT !.at = "answered", !.answer = new] /\ Second!NewSecret
      BY <1>1, <2>2 DEF Second!StartSetup
    <3>2. /\ totp' \in Totps /\ totp'.active = 0 /\ totp'.pending # 0 /\ new \in 0 .. MaxSecrets
      BY <1>0, <2>2, <3>1, NewSecrets
    <3> HIDE DEF new
    <3>3. setup' \in Setups /\ setup'.at = "answered" /\ setup'.secret = setup.secret
      BY <1>0, <3>1, <3>2 DEF Setups
    <3>4. Second!NotLockedOut'
      BY <3>2 DEF Second!NotLockedOut
    <3>5. upsets' = 0 => Undisturbed'
      BY <1>0, <2>0, <2>2, <3>2, <3>3 DEF Undisturbed, Carried
    <3> QED BY <1>0, <2>0, <3>2, <3>3, <3>4, <3>5, SecurityParts
  <2> QED BY <2>1, <2>2
<1>2. CASE Second!begin
  <2>1. /\ status.loaded /\ ~status.on /\ setup.secret = 0
        /\ setup' = [Second!NoSetup EXCEPT !.state = "starting", !.at = "sent"]
        /\ UNCHANGED <<totp, status, confirm, scanned, upsets>>
    BY <1>2 DEF Second!begin, Second!Ready
  <2>2. setup' \in Setups /\ setup'.at = "sent" /\ setup'.secret = 0
    BY <2>1, SecurityBlanks DEF Setups
  <2>3. upsets' = 0 => Undisturbed'
    <3> SUFFICES ASSUME upsets' = 0 PROVE Undisturbed'
      OBVIOUS
    <3>1. Undisturbed /\ confirm.at = "none"
      BY <1>0, <2>1 DEF Undisturbed
    <3>2. totp.active = 0
      BY <2>1, <3>1 DEF Undisturbed, Carried
    <3> QED BY <2>1, <2>2, <3>1, <3>2 DEF Undisturbed, Carried
  <2> QED BY <1>0, <2>1, <2>2, <2>3, PageSecure, SecurityParts
<1>3. CASE Second!SetupLands
  <2>0. UNCHANGED <<totp, scanned, upsets>>
    BY <1>3 DEF Second!SetupLands
  <2>1. CASE setup.at = "answered" /\ setup' = [Second!NoSetup EXCEPT !.secret = setup.answer] /\ UNCHANGED <<status, confirm>>
    <3>1. setup' \in Setups /\ setup'.at = "none"
      BY <1>0, <2>1, SecurityBlanks DEF Setups
    <3>2. upsets' = 0 => Undisturbed'
      BY <1>0, <2>0, <2>1, <3>1 DEF Undisturbed, Carried
    <3> QED BY <1>0, <2>0, <2>1, <3>1, <3>2, PageSecure, SecurityParts
  <2>2. CASE setup.at = "conflict" /\ Second!conflict
    <3>1. setup' = Second!NoSetup /\ status' = Second!Load(status) /\ confirm' = Second!NoForm
      BY <2>2 DEF Second!conflict
    <3>2. upsets # 0
      BY <1>0, <2>2 DEF Undisturbed
    <3>3. status' \in Queries /\ status'.status = "loading"
      BY <1>0, <3>1, Loading
    <3> QED BY <1>0, <2>0, <3>1, <3>2, <3>3, SecurityBlanks, PageSecure, SecurityParts
  <2> QED BY <1>3, <2>1, <2>2 DEF Second!SetupLands
<1>4. CASE Second!SetupFails
  <2>1. /\ Second!Upset /\ setup' = [Second!NoSetup EXCEPT !.state = "failed"]
        /\ UNCHANGED <<totp, status, confirm, scanned>>
    BY <1>4 DEF Second!SetupFails
  <2>2. setup' \in Setups
    BY <2>1, SecurityBlanks DEF Setups
  <2>3. upsets' \in 0 .. MaxUpsets /\ upsets' # 0
    BY <2>1, UpsetSteps
  <2> QED BY <1>0, <2>1, <2>2, <2>3, PageSecure, SecurityParts
<1>5. CASE Second!Scan
  <2>1. /\ setup.secret # 0 /\ scanned' = scanned \cup {setup.secret}
        /\ UNCHANGED <<totp, status, setup, confirm, upsets>>
    BY <1>5 DEF Second!Scan, Second!Enabling
  <2>2. scanned' \subseteq 1 .. MaxSecrets
    <3>1. setup.secret \in 0 .. MaxSecrets /\ MaxSecrets \in Nat
      BY <1>0, SecurityTypes DEF Setups
    <3>2. setup.secret \in 1 .. MaxSecrets
      BY <2>1, <3>1
    <3> QED BY <1>0, <2>1, <3>2
  <2>3. upsets' = 0 => Undisturbed'
    BY <1>0, <2>1 DEF Undisturbed, Carried
  <2> QED BY <1>0, <2>1, <2>2, <2>3, PageSecure, SecurityParts
<1> QED BY <1>1, <1>2, <1>3, <1>4, <1>5

\* The confirmation: at the page, at the server, and its answer.
LEMMA ConfirmKeeps ==
  ASSUME SecurityInv,
         Second!onSubmit \/ Second!Confirmed \/ Second!ConfirmLands \/ Second!ConfirmFails \/ Second!cancel
  PROVE  SecurityInv'
<1>0. /\ totp \in Totps /\ status \in Queries /\ setup \in Setups /\ confirm \in Confirms
      /\ scanned \subseteq 1 .. MaxSecrets /\ upsets \in 0 .. MaxUpsets
      /\ Second!NotLockedOut /\ (status.status = "ready" => status.loaded)
      /\ upsets = 0 => Undisturbed
  BY SecurityTyped
<1>1. CASE Second!onSubmit
  <2> DEFINE to == IF Second!Disabling THEN "disable" ELSE "enable"
  <2>1. /\ Second!Disabling \/ Second!Enabling
        /\ confirm.at = "none" /\ UNCHANGED <<totp, status, setup, scanned, upsets>>
        /\ \/ confirm' = [Second!NoForm EXCEPT !.status = "invalid"]
           \/ confirm' = [Second!NoForm EXCEPT !.status = "submitting", !.at = to]
    BY <1>1 DEF Second!onSubmit
  <2>2. to \in {"enable", "disable"} /\ (Second!Disabling <=> to = "disable")
    OBVIOUS
  <2> HIDE DEF to
  <2>3. confirm' \in Confirms /\ (confirm'.at = "none" \/ confirm'.at = to)
    BY <2>1, <2>2, SecurityBlanks DEF Confirms
  <2>4. upsets' = 0 => Undisturbed'
    <3> SUFFICES ASSUME upsets' = 0 PROVE Undisturbed'
      OBVIOUS
    <3>1. Undisturbed
      BY <1>0, <2>1
    <3>2. CASE Second!Disabling
      <4>1. status.loaded /\ status.on /\ setup.secret = 0 /\ setup.at = "none"
        BY <3>1, <3>2 DEF Undisturbed, Second!Disabling
      <4> QED BY <2>1, <2>2, <2>3, <3>1, <3>2, <4>1 DEF Undisturbed, Carried
    <3>3. CASE ~Second!Disabling
      <4>1. status.loaded /\ ~status.on /\ setup.secret # 0 /\ setup.at = "none"
        BY <2>1, <3>1, <3>3 DEF Undisturbed, Second!Enabling
      <4> QED BY <2>1, <2>2, <2>3, <3>1, <3>3, <4>1 DEF Undisturbed, Carried
    <3> QED BY <3>2, <3>3
  <2> QED BY <1>0, <2>1, <2>3, <2>4, PageSecure, SecurityParts
<1>2. CASE Second!Confirmed
  <2>0. confirm.at \in {"enable", "disable"} /\ UNCHANGED <<status, setup, scanned, upsets>>
    BY <1>2 DEF Second!Confirmed
  <2> DEFINE Answers(answer) == confirm' = [confirm EXCEPT !.at = "answered", !.answer = answer]
  <2>a. ASSUME NEW answer \in Second!Refusals \cup {"ok", "conflict"}, Answers(answer)
        PROVE  confirm' \in Confirms /\ confirm'.at = "answered" /\ confirm'.answer = answer
    BY <1>0, <2>a DEF Confirms
  <2>1. CASE \E refusal \in Second!Refusals : Answers(refusal) /\ totp' = totp
    <3>1. PICK refusal \in Second!Refusals : Answers(refusal) /\ totp' = totp
      BY <2>1
    <3>2. confirm' \in Confirms /\ confirm'.at = "answered" /\ confirm'.answer = refusal
      BY <2>a, <3>1
    <3>3. refusal \notin {"ok", "conflict"}
      BY DEF Second!Refusals
    <3>4. upsets' = 0 => Undisturbed'
      BY <1>0, <2>0, <3>1, <3>2, <3>3 DEF Undisturbed, Carried
    <3> QED BY <1>0, <2>0, <3>1, <3>2, <3>4, PageSecure, SecurityParts
  <2>2. CASE \E code \in scanned :
               LET answer == IF confirm.at = "enable" THEN Second!enable(code) ELSE Second!disable(code)
               IN /\ Answers(answer)
                  /\ totp' = IF answer # "ok" THEN totp
                             ELSE IF confirm.at = "enable" THEN Second!Enabled ELSE Second!Disabled
    <3> DEFINE Result(code) == IF confirm.at = "enable" THEN Second!enable(code) ELSE Second!disable(code)
    <3>1. PICK code \in scanned :
            /\ Answers(Result(code))
            /\ totp' = IF Result(code) # "ok" THEN totp
                       ELSE IF confirm.at = "enable" THEN Second!Enabled ELSE Second!Disabled
      BY <2>2
    <3>2. Result(code) \in {"ok", "conflict", "codeWrong"} /\ "codeWrong" \in Second!Refusals
      BY DEF Second!enable, Second!disable, Second!Refusals
    <3>3. confirm' \in Confirms /\ confirm'.at = "answered" /\ confirm'.answer = Result(code)
      BY <2>a, <3>1, <3>2
    <3>4. upsets = 0 => Result(code) # "conflict"
      <4>1. CASE confirm.at = "enable"
        BY <1>0, <2>0, <4>1 DEF Undisturbed, Second!enable, Carried
      <4>2. CASE confirm.at = "disable"
        BY <1>0, <2>0, <4>2 DEF Undisturbed, Second!disable, Carried
      <4> QED BY <2>0, <4>1, <4>2
    <3>5. CASE Result(code) # "ok"
      <4>1. totp' = totp
        BY <3>1, <3>5
      <4> HIDE DEF Result
      <4>2. upsets' = 0 => Undisturbed'
        BY <1>0, <2>0, <3>3, <3>4, <3>5, <4>1 DEF Undisturbed, Carried
      <4> QED BY <1>0, <2>0, <3>3, <4>1, <4>2, PageSecure, SecurityParts
    <3>6. CASE Result(code) = "ok" /\ confirm.at = "enable"
      <4>1. totp' = Second!Enabled /\ Second!enable(code) = "ok"
        BY <3>1, <3>6
      <4>2. totp' \in Totps /\ totp'.active = code /\ code # 0
        BY <1>0, <4>1, EnabledRight
      <4> HIDE DEF Result
      <4>3. Second!NotLockedOut'
        BY <2>0, <4>2 DEF Second!NotLockedOut
      <4>4. upsets' = 0 => Undisturbed'
        BY <1>0, <2>0, <3>3, <3>6, <4>2 DEF Undisturbed, Carried
      <4> QED BY <1>0, <2>0, <3>3, <4>2, <4>3, <4>4, SecurityParts
    <3>7. CASE Result(code) = "ok" /\ confirm.at = "disable"
      <4>1. totp' = Second!Disabled
        BY <3>1, <3>7
      <4>2. totp' \in Totps /\ totp'.active = 0
        BY <1>0, <4>1, DisabledRight
      <4> HIDE DEF Result
      <4>3. Second!NotLockedOut'
        BY <4>2 DEF Second!NotLockedOut
      <4>4. upsets' = 0 => Undisturbed'
        BY <1>0, <2>0, <3>3, <3>7, <4>2 DEF Undisturbed, Carried
      <4> QED BY <1>0, <2>0, <3>3, <4>2, <4>3, <4>4, SecurityParts
    <3> QED BY <2>0, <3>5, <3>6, <3>7
  <2> QED BY <1>2, <2>1, <2>2 DEF Second!Confirmed
<1>3. CASE Second!ConfirmLands
  <2>0. confirm.at = "answered" /\ UNCHANGED <<totp, scanned, upsets>>
    BY <1>3 DEF Second!ConfirmLands
  <2>1. CASE confirm.answer = "ok"
    <3> DEFINE on == ~status.on
    <3>1. status' = [status EXCEPT !.on = on] /\ setup' = Second!NoSetup /\ confirm' = Second!NoForm
      BY <1>0, <1>3, <2>1 DEF Second!ConfirmLands, Queries
    <3>2. on \in BOOLEAN
      OBVIOUS
    <3> HIDE DEF on
    <3>3. /\ status' \in Queries /\ status'.on = on /\ status'.status = status.status
          /\ status'.loaded = status.loaded /\ status'.at = status.at /\ status'.answer = status.answer
      BY <1>0, <3>1, <3>2 DEF Queries
    <3>4. upsets' = 0 => Undisturbed'
      BY <1>0, <2>0, <2>1, <3>1, <3>3, SecurityBlanks DEF Undisturbed, Carried, on
    <3> QED BY <1>0, <2>0, <3>1, <3>3, <3>4, SecurityBlanks, PageSecure, SecurityParts
  <2>2. CASE confirm.answer = "conflict"
    <3>1. setup' = Second!NoSetup /\ status' = Second!Load(status) /\ confirm' = Second!NoForm
      BY <1>3, <2>2 DEF Second!ConfirmLands, Second!conflict
    <3>2. upsets # 0
      BY <1>0, <2>0, <2>2 DEF Undisturbed
    <3>3. status' \in Queries /\ status'.status = "loading"
      BY <1>0, <3>1, Loading
    <3> QED BY <1>0, <2>0, <3>1, <3>2, <3>3, SecurityBlanks, PageSecure, SecurityParts
  <2>3. CASE confirm.answer \notin {"ok", "conflict"}
    <3> DEFINE says == IF confirm.answer \in {"rateLimited", "unavailable"} THEN confirm.answer ELSE "invalid"
    <3>1. confirm' = [Second!NoForm EXCEPT !.status = says] /\ UNCHANGED <<status, setup>>
      BY <1>3, <2>3 DEF Second!ConfirmLands
    <3>2. says \in {"rateLimited", "unavailable", "invalid"}
      OBVIOUS
    <3> HIDE DEF says
    <3>3. confirm' \in Confirms /\ confirm'.at = "none"
      BY <3>1, <3>2, SecurityBlanks DEF Confirms
    <3>4. upsets' = 0 => Undisturbed'
      BY <1>0, <2>0, <2>3, <3>1, <3>3 DEF Undisturbed, Carried
    <3> QED BY <1>0, <2>0, <3>1, <3>3, <3>4, PageSecure, SecurityParts
  <2> QED BY <2>1, <2>2, <2>3
<1>4. CASE Second!ConfirmFails
  <2>1. /\ Second!Upset /\ confirm' = [Second!NoForm EXCEPT !.status = "error"]
        /\ UNCHANGED <<totp, status, setup, scanned>>
    BY <1>4 DEF Second!ConfirmFails
  <2>2. confirm' \in Confirms
    BY <2>1, SecurityBlanks DEF Confirms
  <2>3. upsets' \in 0 .. MaxUpsets /\ upsets' # 0
    BY <2>1, UpsetSteps
  <2> QED BY <1>0, <2>1, <2>2, <2>3, PageSecure, SecurityParts
<1>5. CASE Second!cancel
  <2>1. /\ status.loaded /\ ~status.on /\ setup.secret # 0
        /\ setup' = Second!NoSetup /\ confirm' = Second!NoForm /\ UNCHANGED <<status, scanned>>
    BY <1>5 DEF Second!cancel, Second!Enabling
  <2>2. CASE confirm.at = "none"
    <3>1. UNCHANGED <<totp, upsets>>
      BY <1>5, <2>2 DEF Second!cancel
    <3>2. upsets' = 0 => Undisturbed'
      BY <1>0, <2>1, <2>2, <3>1, SecurityBlanks DEF Undisturbed, Carried
    <3> QED BY <1>0, <2>1, <3>1, <3>2, SecurityBlanks, PageSecure, SecurityParts
  <2>3. CASE confirm.at # "none"
    <3>1. /\ Second!Upset
          /\ totp' \in {totp} \cup {Second!Enabled : code \in {c \in scanned : confirm.at = "enable" /\ Second!enable(c) = "ok"}}
      BY <1>5, <2>3 DEF Second!cancel
    <3>2. upsets' \in 0 .. MaxUpsets /\ upsets' # 0
      BY <3>1, UpsetSteps
    <3>3. totp' \in Totps /\ Second!NotLockedOut'
      <4>1. CASE totp' = totp
        BY <1>0, <2>1, <4>1, PageSecure
      <4>2. CASE \E code \in scanned : Second!enable(code) = "ok" /\ totp' = Second!Enabled
        <5>1. PICK code \in scanned : Second!enable(code) = "ok" /\ totp' = Second!Enabled
          BY <4>2
        <5>2. totp' \in Totps /\ totp'.active = code
          BY <1>0, <5>1, EnabledRight
        <5> QED BY <2>1, <5>2 DEF Second!NotLockedOut
      <4> QED BY <3>1, <4>1, <4>2
    <3> QED BY <1>0, <2>1, <3>2, <3>3, SecurityBlanks, SecurityParts
  <2> QED BY <2>2, <2>3
<1> QED BY <1>1, <1>2, <1>3, <1>4, <1>5

LEMMA OtherTabsKeep ==
  ASSUME SecurityInv, Second!Outside
  PROVE  SecurityInv'
<1>0. /\ totp \in Totps /\ status \in Queries /\ setup \in Setups /\ confirm \in Confirms
      /\ scanned \subseteq 1 .. MaxSecrets /\ upsets \in 0 .. MaxUpsets
      /\ Second!NotLockedOut /\ (status.status = "ready" => status.loaded)
  BY SecurityTyped
<1>1. Second!Upset /\ UNCHANGED <<status, setup, confirm>>
  BY DEF Second!Outside
<1>2. upsets' \in 0 .. MaxUpsets /\ upsets' # 0
  BY <1>1, UpsetSteps
<1>3. totp' \in Totps /\ scanned' \subseteq 1 .. MaxSecrets /\ Second!NotLockedOut'
  <2>1. CASE /\ totp.active = 0 /\ Second!NewSecret
             /\ scanned' \in {scanned, scanned \cup {totp.issued + 1}}
    BY <1>0, <2>1, NewSecrets DEF Second!NotLockedOut
  <2>2. CASE (\E code \in scanned : Second!enable(code) = "ok") /\ totp' = Second!Enabled /\ UNCHANGED scanned
    BY <1>0, <2>2, EnabledRight DEF Second!NotLockedOut
  <2>3. CASE totp' = Second!Disabled /\ UNCHANGED scanned
    BY <1>0, <2>3, DisabledRight DEF Second!NotLockedOut
  <2> QED BY <2>1, <2>2, <2>3 DEF Second!Outside
<1> QED BY <1>0, <1>1, <1>2, <1>3, SecurityParts

LEMMA SecurityStep == SecurityInv /\ Second!Next => SecurityInv'
  BY StatusKeeps, SetupKeeps, ConfirmKeeps, OtherTabsKeep DEF Second!Next

LEMMA SecurityKeepsTrue == SecurityInv => Second!NotLockedOut /\ Second!StatusSettles
<1> SUFFICES ASSUME SecurityInv PROVE Second!NotLockedOut /\ Second!StatusSettles
  OBVIOUS
<1>1. status.on \in BOOLEAN /\ (status.status = "ready" => status.loaded) /\ (upsets = 0 => Undisturbed)
  BY SecurityTyped DEF Queries
<1> QED BY <1>1, SecurityTyped DEF Undisturbed, Carried, Second!StatusSettles

LEMMA SecurityStands == SecurityInv /\ UNCHANGED security => SecurityInv'
  BY DEF security, SecurityInv, Second!TypeOK, Second!NotLockedOut, Undisturbed, Carried

-------------------------------------------------------------------------------
(* The question that a deletion asks.                                        *)

\* Either the dialog is shown, or an event tells of its closing, or nothing is asked;
\* only while the event is on its way may the focus be lost.
QuestionTruth ==
  /\ modal = TRUE => events = 0 /\ question # "none"
  /\ modal = FALSE /\ question # "none" => events = 1
  /\ focus = "nowhere" => events = 1

QuestionInv == Question!TypeOK /\ QuestionTruth

LEMMA QuestionInit == Question!Init => QuestionInv
<1> SUFFICES ASSUME Question!Init PROVE QuestionInv
  OBVIOUS
<1>1. modal \in BOOLEAN /\ opener \in BOOLEAN
  BY DEF Question!Init
<1>2. QuestionTruth
  BY DEF Question!Init, QuestionTruth
<1>3. question = "none" /\ events \in 0 .. 1 /\ focus \in Question!Focuses
  BY DEF Question!Init, Question!Focuses
<1> QED BY <1>1, <1>2, <1>3 DEF QuestionInv, Question!TypeOK

LEMMA QuestionStep == QuestionInv /\ Question!Next => QuestionInv'
<1> SUFFICES ASSUME QuestionInv, Question!Next PROVE QuestionInv'
  OBVIOUS
<1>0. /\ question \in {"none", "open", "busy", "failed"} /\ modal \in {TRUE, FALSE}
      /\ events \in {0, 1} /\ opener \in {TRUE, FALSE}
      /\ focus \in {"opener", "cancel", "inside", "fallback", "nowhere"}
      /\ QuestionTruth
  <2>1. modal \in {TRUE, FALSE} /\ opener \in {TRUE, FALSE} /\ QuestionTruth
    BY Zenon DEF QuestionInv, Question!TypeOK
  <2>2. events \in {0, 1}
    BY DEF QuestionInv, Question!TypeOK
  <2> QED BY <2>1, <2>2 DEF QuestionInv, Question!TypeOK, Question!Focuses
<1> DEFINE Moves(q, m, e, o, f) ==
      question' = q /\ modal' = m /\ events' = e /\ opener' = o /\ focus' = f
<1>1. \/ Moves("open", TRUE, 0, opener, "cancel")
      \/ Moves("none", FALSE, 0, TRUE, "opener") /\ modal = FALSE
      \/ Moves("none", FALSE, 1, opener, Question!Returned(opener))
      \/ Moves(question, FALSE, 1, opener, Question!Returned(opener))
      \/ Moves("busy", modal, events, opener, "inside") /\ modal = TRUE
      \/ Moves("none", FALSE, 1, FALSE, "nowhere")
      \/ Moves("none", FALSE, events, FALSE, focus) /\ modal = FALSE
      \/ Moves("failed", modal, events, opener, focus) /\ question = "busy"
      \/ Moves("busy", TRUE, 0, opener, "cancel")
      \/ \E f \in {"opener", "fallback"} : Moves("none", FALSE, 0, opener, f)
  <2>1. CASE Question!open
    BY <1>0, <2>1 DEF Question!open
  <2>2. CASE Question!Row
    BY <1>0, <2>2 DEF Question!Row, QuestionTruth
  <2>3. CASE Question!onCancel
    <3>1. modal = TRUE /\ events = 0
      BY <1>0, <2>3 DEF Question!onCancel, QuestionTruth
    <3> QED BY <2>3, <3>1 DEF Question!onCancel, Question!Closes
  <2>4. CASE Question!Escape
    <3>1. modal = TRUE /\ events = 0
      BY <1>0, <2>4 DEF Question!Escape, QuestionTruth
    <3> QED BY <2>4, <3>1 DEF Question!Escape
  <2>5. CASE Question!confirm
    BY <1>0, <2>5 DEF Question!confirm
  <2>6. CASE Question!Done
    <3>1. CASE modal = TRUE
      <4>1. events = 0
        BY <1>0, <3>1 DEF QuestionTruth
      <4> QED BY <2>6, <3>1, <4>1 DEF Question!Done, Question!Closes, Question!Returned
    <3>2. CASE modal = FALSE
      BY <2>6, <3>2 DEF Question!Done, Question!Closes
    <3> QED BY <1>0, <3>1, <3>2
  <2>7. CASE Question!Failed
    BY <2>7 DEF Question!Failed
  <2>8. CASE Question!onClose
    <3>1. events = 1 /\ modal = FALSE /\ events' = 0
      BY <1>0, <2>8 DEF Question!onClose, QuestionTruth
    <3> QED BY <2>8, <3>1 DEF Question!onClose
  <2> QED BY <2>1, <2>2, <2>3, <2>4, <2>5, <2>6, <2>7, <2>8 DEF Question!Next
<1>2. Question!Returned(opener) \in {"opener", "nowhere"}
  BY DEF Question!Returned
<1>3. /\ question' \in {"none", "open", "busy", "failed"} /\ modal' \in {TRUE, FALSE}
      /\ events' \in {0, 1} /\ opener' \in {TRUE, FALSE}
      /\ focus' \in {"opener", "cancel", "inside", "fallback", "nowhere"}
  BY <1>0, <1>1, <1>2
<1>4. QuestionTruth'
  BY <1>0, <1>1, <1>2 DEF QuestionTruth
<1>5. modal' \in BOOLEAN /\ opener' \in BOOLEAN
  BY <1>3, Zenon
<1>6. events' \in 0 .. 1
  BY <1>3
<1> QED BY <1>3, <1>4, <1>5, <1>6 DEF QuestionInv, Question!TypeOK, Question!Focuses

LEMMA QuestionKeepsTrue == QuestionInv => Question!DialogSettles
  BY DEF QuestionInv, QuestionTruth, Question!TypeOK, Question!DialogSettles

LEMMA QuestionStands == QuestionInv /\ UNCHANGED asking => QuestionInv'
  BY DEF asking, QuestionInv, QuestionTruth, Question!TypeOK

-------------------------------------------------------------------------------
(* The CV.                                                                   *)

Gets ==
  [at : {"none", "meta", "body", "read", "served", "missing"}, id : 0 .. MaxFiles,
   late : BOOLEAN, own : BOOLEAN]
Loadings == [at : {"none", "sent", "answered"}, cv : 0 .. MaxFiles]
Shows == [status : {"loading", "ready", "error"}, cv : 0 .. MaxFiles, loading : Loadings]
Sendings ==
  [at : {"none", "sent", "stored", "answered", "refused"}, id : 0 .. MaxFiles, live : BOOLEAN]
Removals == [asked : BOOLEAN, at : {"none", "sent", "answered"}]

FilesTyped ==
  /\ cv \in 0 .. MaxFiles /\ ids \in 0 .. MaxFiles
  /\ bodies \in Seq(1 .. MaxFiles) /\ Len(bodies) <= Capacity
  /\ get \in Gets /\ shown \in Shows /\ uploads \in [File!Uploads -> Sendings]
  /\ dialog \in Removals /\ faults \in 0 .. MaxFaults /\ crossed \in BOOLEAN

\* A file that was gone when the download began stays gone, as no id is given out
\* twice; such a download gets no further than the metadata.
GoneInv ==
  /\ cv <= ids
  /\ get.at # "none" => get.id \in 1 .. ids
  /\ get.late => get.id # cv /\ get.at \notin {"none", "body", "read", "served"}

\* While nothing failed or crossed: the page is loaded once; one upload or the removal
\* is on its way; and what it shows is the CV, but for what it has not been told yet.
Smooth ==
  /\ shown.status # "error" /\ (shown.status = "ready" <=> shown.loading.at = "none")
  /\ shown.loading.at = "answered" => shown.loading.cv = cv
  /\ shown.status = "loading" => ~dialog.asked /\ dialog.at = "none" /\ \A u \in File!Uploads : uploads[u].at = "none"
  /\ dialog.at # "none" => dialog.asked /\ \A u \in File!Uploads : uploads[u].at = "none"
  /\ \A u \in File!Uploads : uploads[u].at # "none" => uploads[u].live
  /\ \A u, v \in File!Uploads : uploads[u].at # "none" /\ uploads[v].at # "none" => u = v
  /\ \A u \in File!Uploads : uploads[u].at \in {"stored", "answered"} => uploads[u].id = cv
  /\ shown.status = "ready" /\ dialog.at # "answered"
     /\ (\A u \in File!Uploads : uploads[u].at \notin {"stored", "answered"}) => shown.cv = cv
  /\ dialog.at = "answered" => cv = 0

FilesInv == FilesTyped /\ GoneInv /\ (faults = 0 /\ ~crossed => Smooth)

LEMMA FilesBounds ==
  /\ MaxFiles \in Nat \ {0} /\ Capacity \in Nat /\ MaxFaults \in Nat
  /\ File!TypeOK <=> FilesTyped
  BY CorrespondenceAssumption
     DEF File!Bounds, File!TypeOK, File!Files, FilesTyped, Gets, Loadings, Shows, Sendings, Removals

LEMMA FilesBlanks ==
  /\ File!NoGet \in Gets /\ File!NoGet.at = "none" /\ File!NoGet.late = FALSE
  /\ File!NoUpload \in Sendings /\ File!NoUpload.at = "none"
  /\ File!NoDialog \in Removals /\ File!NoDialog.at = "none" /\ File!NoDialog.asked = FALSE
  /\ File!Opened \in Shows /\ File!Opened.status = "loading" /\ File!Opened.loading.at = "sent"
  /\ File!Loaded \in Loadings /\ File!Loaded.at = "none"
<1>1. [at |-> "sent", cv |-> 0] \in Loadings
  BY FilesBounds DEF Loadings
<1> QED BY <1>1, FilesBounds DEF File!NoGet, File!NoUpload, File!NoDialog, File!Opened, File!Loaded,
       Gets, Sendings, Removals, Shows, Loadings

LEMMA FilesInit == File!Init => FilesInv
<1> SUFFICES ASSUME File!Init PROVE FilesInv
  OBVIOUS
<1>0. /\ cv \in 0 .. 1 /\ ids = cv /\ bodies = <<>> /\ get = File!NoGet /\ shown = File!Opened
      /\ uploads = [u \in File!Uploads |-> File!NoUpload] /\ dialog = File!NoDialog
      /\ faults = 0 /\ crossed = FALSE
  BY DEF File!Init
<1>1. /\ cv \in 0 .. MaxFiles /\ ids \in 0 .. MaxFiles /\ cv <= ids
      /\ faults \in 0 .. MaxFaults /\ Len(bodies) <= Capacity
      /\ bodies \in Seq(1 .. MaxFiles)
  BY <1>0, FilesBounds
<1>2. crossed \in BOOLEAN /\ uploads \in [File!Uploads -> Sendings] /\ \A u \in File!Uploads : uploads[u].at = "none"
  BY <1>0, FilesBlanks
<1>3. Smooth
  BY <1>0, <1>2, FilesBlanks DEF Smooth
<1> QED BY <1>0, <1>1, <1>2, <1>3, FilesBlanks DEF FilesInv, FilesTyped, GoneInv

\* A body is discarded with its place.
LEMMA Discards ==
  ASSUME FilesTyped, NEW id
  PROVE  /\ File!Discarded(id) \in Seq(1 .. MaxFiles) /\ Len(File!Discarded(id)) \in Nat
         /\ Len(File!Discarded(id)) <= Len(bodies)
         /\ File!Places(id) # {} => Len(File!Discarded(id)) + 1 = Len(bodies)
<1>0. bodies \in Seq(1 .. MaxFiles) /\ Len(bodies) \in Nat /\ DOMAIN bodies = 1 .. Len(bodies)
  BY DEF FilesTyped
<1>1. CASE File!Places(id) = {}
  BY <1>0, <1>1 DEF File!Discarded
<1>2. CASE File!Places(id) # {}
  <2> DEFINE place == CHOOSE n \in File!Places(id) : TRUE
             left == [n \in 1 .. Len(bodies) - 1 |-> bodies[IF n < place THEN n ELSE n + 1]]
  <2>1. place \in 1 .. Len(bodies)
    BY <1>0, <1>2 DEF File!Places
  <2>2. File!Discarded(id) = left
    BY <1>2 DEF File!Discarded
  <2> HIDE DEF place
  <2>3. Len(bodies) - 1 \in Nat
    BY <1>0, <2>1
  <2>4. ASSUME NEW n \in 1 .. Len(bodies) - 1
        PROVE  bodies[IF n < place THEN n ELSE n + 1] \in 1 .. MaxFiles
    <3>1. \A m \in 1 .. Len(bodies) : bodies[m] \in 1 .. MaxFiles
      BY <1>0, ElementOfSeq
    <3>2. n \in 1 .. Len(bodies) /\ n + 1 \in 1 .. Len(bodies)
      BY <1>0
    <3> QED BY <3>1, <3>2
  <2>5. left \in Seq(1 .. MaxFiles) /\ Len(left) = Len(bodies) - 1
    BY <2>3, <2>4
  <2> QED BY <1>0, <2>2, <2>3, <2>5
<1> QED BY <1>1, <1>2

\* A download leaves the page and what is stored alone.
LEMMA DownloadKeeps ==
  ASSUME FilesInv, get' \in Gets, bodies' \in Seq(1 .. MaxFiles), Len(bodies') <= Capacity,
         UNCHANGED <<cv, ids, shown, uploads, dialog, faults, crossed>>,
         get'.at # "none" => get'.id \in 1 .. ids,
         get'.late => get'.id # cv /\ get'.at \notin {"none", "body", "read", "served"}
  PROVE  FilesInv'
<1>1. FilesTyped' /\ GoneInv'
  BY DEF FilesInv, FilesTyped, GoneInv
<1>2. Smooth => Smooth'
  BY DEF Smooth
<1> QED BY <1>1, <1>2 DEF FilesInv

LEMMA Downloads ==
  ASSUME FilesInv, File!Ask \/ File!GetMeta \/ File!GetBody \/ File!PutBody \/ File!Answer
  PROVE  FilesInv'
<1>0. /\ cv \in 0 .. MaxFiles /\ ids \in 0 .. MaxFiles /\ cv <= ids /\ get \in Gets
      /\ bodies \in Seq(1 .. MaxFiles) /\ Len(bodies) \in Nat /\ Len(bodies) <= Capacity
      /\ FilesTyped
      /\ get.at # "none" => get.id \in 1 .. ids
      /\ get.late => get.id # cv /\ get.at \notin {"none", "body", "read", "served"}
      /\ MaxFiles \in Nat /\ Capacity \in Nat
  BY FilesBounds DEF FilesInv, FilesTyped, GoneInv
<1>u. UNCHANGED <<cv, ids, shown, uploads, dialog, faults, crossed>>
  BY DEF File!Ask, File!GetMeta, File!GetBody, File!PutBody, File!Answer, File!database, File!panel
<1>1. CASE File!Ask
  <2>1. PICK id \in 1 .. ids, own \in BOOLEAN :
          get' = [at |-> "meta", id |-> id, late |-> id # cv, own |-> own] /\ bodies' = bodies
    BY <1>1 DEF File!Ask
  <2> DEFINE late == id # cv
  <2>2. late \in BOOLEAN /\ id \in 0 .. MaxFiles /\ (late => id # cv)
    BY <1>0
  <2>3. get' = [at |-> "meta", id |-> id, late |-> late, own |-> own]
    BY <2>1
  <2> HIDE DEF late
  <2>4. get' \in Gets /\ get'.id = id /\ get'.at = "meta" /\ get'.late = late
    BY <2>1, <2>2, <2>3 DEF Gets
  <2> QED BY <1>0, <1>u, <2>1, <2>2, <2>4, DownloadKeeps
<1>2. CASE File!GetMeta
  <2>1. CASE get.id # cv
    <3>1. get.at = "meta" /\ get' = [get EXCEPT !.at = "missing"] /\ bodies' = File!Discarded(get.id)
      BY <1>2, <2>1 DEF File!GetMeta
    <3>2. get' \in Gets /\ get'.at = "missing" /\ get'.id = get.id /\ get'.late = get.late
      BY <1>0, <3>1 DEF Gets
    <3>3. bodies' \in Seq(1 .. MaxFiles) /\ Len(bodies') <= Capacity
      BY <1>0, <3>1, Discards
    <3> QED BY <1>0, <1>u, <2>1, <3>1, <3>2, <3>3, DownloadKeeps
  <2>2. CASE get.id = cv
    <3> DEFINE to == IF get.own THEN "served" ELSE "body"
    <3>1. get.at = "meta" /\ get' = [get EXCEPT !.at = to] /\ bodies' = bodies
      BY <1>2, <2>2 DEF File!GetMeta
    <3>2. to \in {"served", "body"}
      OBVIOUS
    <3> HIDE DEF to
    <3>3. get' \in Gets /\ get'.id = get.id /\ get'.late = get.late
      BY <1>0, <3>1, <3>2 DEF Gets
    <3> QED BY <1>0, <1>u, <2>2, <3>1, <3>3, DownloadKeeps
  <2> QED BY <2>1, <2>2
<1>3. CASE File!GetBody
  <2>0. get.at = "body" /\ ~get.late /\ get.id \in 1 .. MaxFiles
    BY <1>0, <1>3 DEF File!GetBody
  <2> DEFINE to == IF File!Cached THEN "served" ELSE IF get.id = cv THEN "read" ELSE "missing"
  <2>1. get' = [get EXCEPT !.at = to]
    BY <1>3 DEF File!GetBody
  <2>2. to \in {"served", "read", "missing"}
    OBVIOUS
  <2> HIDE DEF to
  <2>3. get' \in Gets /\ get'.id = get.id /\ get'.late = get.late
    BY <1>0, <2>1, <2>2 DEF Gets
  <2>4. bodies' \in Seq(1 .. MaxFiles) /\ Len(bodies') <= Capacity
    <3>1. CASE File!Cached
      <4>1. bodies' = Append(File!Discarded(get.id), get.id)
        BY <1>3, <3>1 DEF File!GetBody
      <4>2. File!Discarded(get.id) \in Seq(1 .. MaxFiles) /\ Len(File!Discarded(get.id)) + 1 = Len(bodies)
        BY <1>0, <3>1, Discards DEF File!Cached
      <4> QED BY <1>0, <2>0, <4>1, <4>2
    <3>2. CASE ~File!Cached
      BY <1>0, <1>3, <3>2 DEF File!GetBody
    <3> QED BY <3>1, <3>2
  <2> QED BY <1>0, <1>u, <2>0, <2>3, <2>4, DownloadKeeps
<1>4. CASE File!PutBody
  <2>1. get.at = "read" /\ get' = [get EXCEPT !.at = "served"] /\ bodies' = File!Put(get.id)
    BY <1>4 DEF File!PutBody
  <2>2. get' \in Gets /\ get'.id = get.id /\ get'.late = get.late
    BY <1>0, <2>1 DEF Gets
  <2>3. ~get.late /\ get.id \in 1 .. MaxFiles
    BY <1>0, <2>1
  <2> DEFINE others == File!Discarded(get.id)
             all == Append(others, get.id)
  <2>4. others \in Seq(1 .. MaxFiles) /\ Len(others) \in Nat /\ Len(others) <= Capacity
    BY <1>0, Discards
  <2>5. bodies' = IF Len(all) > Capacity THEN Tail(all) ELSE all
    BY <2>1 DEF File!Put
  <2> HIDE DEF others
  <2>6. all \in Seq(1 .. MaxFiles) /\ Len(all) = Len(others) + 1 /\ all # <<>> /\ Len(all) \in Nat
    BY <2>3, <2>4
  <2> HIDE DEF all
  <2>7. Tail(all) \in Seq(1 .. MaxFiles) /\ Len(Tail(all)) = Len(all) - 1
    BY <2>6
  <2>8. bodies' \in Seq(1 .. MaxFiles) /\ Len(bodies') <= Capacity
    <3>1. CASE Len(all) > Capacity
      <4>1. bodies' = Tail(all) /\ Len(all) - 1 <= Capacity
        BY <1>0, <2>4, <2>5, <2>6, <3>1
      <4> QED BY <2>7, <4>1
    <3>2. CASE ~(Len(all) > Capacity)
      <4>1. bodies' = all /\ Len(all) <= Capacity
        BY <1>0, <2>5, <2>6, <3>2
      <4> QED BY <2>6, <4>1
    <3> QED BY <3>1, <3>2
  <2> QED BY <1>0, <1>u, <2>1, <2>2, <2>3, <2>8, DownloadKeeps
<1>5. CASE File!Answer
  <2>1. get' = File!NoGet /\ bodies' = bodies
    BY <1>5 DEF File!Answer
  <2> QED BY <1>0, <1>u, <2>1, FilesBlanks, DownloadKeeps
<1> QED BY <1>1, <1>2, <1>3, <1>4, <1>5

\* The server's and the page's steps leave the download alone; an id is new.
LEMMA FilesParts ==
  ASSUME FilesInv, UNCHANGED <<get, bodies>>,
         \/ cv' \in {cv, 0} /\ ids' = ids
         \/ cv' = ids + 1 /\ ids' = ids + 1 /\ ids < MaxFiles,
         shown' \in Shows, uploads' \in [File!Uploads -> Sendings], dialog' \in Removals,
         faults' \in 0 .. MaxFaults, crossed' \in BOOLEAN,
         faults' = 0 /\ ~crossed' => Smooth'
  PROVE  FilesInv'
<1>0. FilesTyped /\ GoneInv /\ MaxFiles \in Nat /\ get \in Gets
  BY FilesBounds DEF FilesInv, FilesTyped
<1>1. cv' \in 0 .. MaxFiles /\ ids' \in 0 .. MaxFiles /\ cv' <= ids' /\ ids <= ids'
  BY <1>0 DEF FilesTyped, GoneInv
<1>2. FilesTyped'
  BY <1>0, <1>1 DEF FilesTyped
<1>3. get.at # "none" => get.id \in 1 .. ids' /\ (get.id # cv => get.id # cv')
  BY <1>0, <1>1 DEF FilesTyped, GoneInv
<1>4. GoneInv'
  BY <1>0, <1>1, <1>3 DEF GoneInv
<1> QED BY <1>2, <1>4 DEF FilesInv

LEMMA SetUpload ==
  ASSUME uploads \in [File!Uploads -> Sendings], NEW u \in File!Uploads, NEW r \in Sendings,
         uploads' = [uploads EXCEPT ![u] = r]
  PROVE  /\ uploads' \in [File!Uploads -> Sendings] /\ uploads'[u] = r
         /\ \A v \in File!Uploads : v # u => uploads'[v] = uploads[v]
  OBVIOUS

LEMMA FilesFacts ==
  ASSUME FilesInv
  PROVE  /\ cv \in 0 .. MaxFiles /\ ids \in 0 .. MaxFiles /\ shown \in Shows
         /\ uploads \in [File!Uploads -> Sendings] /\ dialog \in Removals
         /\ faults \in 0 .. MaxFaults /\ crossed \in BOOLEAN
         /\ faults = 0 /\ ~crossed => Smooth
  BY DEF FilesInv, FilesTyped

LEMMA FaultSteps ==
  ASSUME FilesInv, File!Fault
  PROVE  faults' \in 0 .. MaxFaults /\ faults' # 0
  BY FilesBounds DEF FilesInv, FilesTyped, File!Fault

LEMMA StoreKeeps ==
  ASSUME FilesInv, NEW u \in File!Uploads, File!Store(u)
  PROVE  FilesInv'
<1>0. /\ cv \in 0 .. MaxFiles /\ ids \in 0 .. MaxFiles /\ shown \in Shows
      /\ uploads \in [File!Uploads -> Sendings] /\ dialog \in Removals
      /\ faults \in 0 .. MaxFaults /\ crossed \in BOOLEAN
      /\ faults = 0 /\ ~crossed => Smooth
  BY FilesFacts
<1>1. uploads[u].at = "sent" /\ UNCHANGED <<bodies, get, shown, dialog, faults, crossed>>
  BY DEF File!Store
<1>2. CASE uploads' = [uploads EXCEPT ![u].at = "refused"] /\ UNCHANGED File!database
  <2> DEFINE r == [uploads[u] EXCEPT !.at = "refused"]
  <2>1. /\ r \in Sendings /\ r.at = "refused" /\ r.live = uploads[u].live /\ r.id = uploads[u].id
        /\ uploads' = [uploads EXCEPT ![u] = r]
    BY <1>0, <1>2 DEF Sendings
  <2> HIDE DEF r
  <2>2. /\ uploads' \in [File!Uploads -> Sendings] /\ uploads'[u] = r
        /\ \A v \in File!Uploads : v # u => uploads'[v] = uploads[v]
    BY <1>0, <2>1, SetUpload
  <2>3. cv' = cv /\ ids' = ids
    BY <1>2 DEF File!database
  <2>4. Smooth => Smooth'
    BY <1>1, <2>1, <2>2, <2>3 DEF Smooth
  <2> QED BY <1>0, <1>1, <2>2, <2>3, <2>4, FilesParts
<1>3. CASE File!Replace /\ uploads' = [uploads EXCEPT ![u].at = "stored", ![u].id = ids + 1]
  <2>1. cv' = ids + 1 /\ ids' = ids + 1 /\ ids < MaxFiles /\ ids + 1 \in 0 .. MaxFiles
    BY <1>0, <1>3, FilesBounds DEF File!Replace
  <2> DEFINE new == ids + 1
             q == [uploads EXCEPT ![u].at = "stored"]
             s == [uploads[u] EXCEPT !.at = "stored"]
             r == [s EXCEPT !.id = new]
  <2>2. s \in Sendings /\ s.at = "stored" /\ s.live = uploads[u].live
    BY <1>0 DEF Sendings
  <2>3. q \in [File!Uploads -> Sendings] /\ q[u] = s /\ \A v \in File!Uploads : v # u => q[v] = uploads[v]
    BY <1>0, <2>2
  <2>4. uploads' = [q EXCEPT ![u].id = new]
    BY <1>3
  <2>5. new \in 0 .. MaxFiles
    BY <2>1
  <2> HIDE DEF q, s, new
  <2>6. r \in Sendings /\ r.at = "stored" /\ r.live = uploads[u].live /\ r.id = new
    BY <2>2, <2>5 DEF Sendings
  <2>7. /\ uploads' \in [File!Uploads -> Sendings] /\ uploads'[u] = r
        /\ \A v \in File!Uploads : v # u => uploads'[v] = uploads[v]
    BY <2>3, <2>4, <2>6
  <2>8. cv' = new
    BY <2>1 DEF new
  <2> HIDE DEF r
  <2>9. Smooth => Smooth'
    <3> SUFFICES ASSUME Smooth PROVE Smooth'
      OBVIOUS
    <3>1. shown.status = "ready" /\ shown.loading.at = "none" /\ dialog.at = "none"
      BY <1>0, <1>1 DEF Smooth, Shows
    <3>2. \A v \in File!Uploads : v # u => uploads[v].at = "none"
      BY <1>1 DEF Smooth
    <3>3. uploads[u].live
      BY <1>1 DEF Smooth
    <3> QED BY <1>1, <2>6, <2>7, <2>8, <3>1, <3>2, <3>3 DEF Smooth
  <2> QED BY <1>0, <1>1, <2>1, <2>7, <2>9, FilesParts
<1> QED BY <1>2, <1>3 DEF File!Store

LEMMA ServerKeeps ==
  ASSUME FilesInv,
         (\E u \in File!Uploads : File!Refresh(u)) \/ File!DeleteCv \/ File!ReadCv \/ File!Outside
  PROVE  FilesInv'
<1>0. /\ cv \in 0 .. MaxFiles /\ ids \in 0 .. MaxFiles /\ shown \in Shows
      /\ uploads \in [File!Uploads -> Sendings] /\ dialog \in Removals
      /\ faults \in 0 .. MaxFaults /\ crossed \in BOOLEAN
      /\ faults = 0 /\ ~crossed => Smooth
  BY FilesFacts
<1>1. CASE \E u \in File!Uploads : File!Refresh(u)
  <2>1. PICK u \in File!Uploads : File!Refresh(u)
    BY <1>1
  <2> DEFINE to == IF cv = uploads[u].id THEN "answered" ELSE "refused"
             r == [uploads[u] EXCEPT !.at = to]
  <2>2. /\ uploads[u].at = "stored" /\ uploads' = [uploads EXCEPT ![u].at = to]
        /\ UNCHANGED <<cv, ids, bodies, get, shown, dialog, faults, crossed>>
    BY <2>1 DEF File!Refresh, File!database
  <2>3. to \in {"answered", "refused"} /\ (cv = uploads[u].id => to = "answered")
    OBVIOUS
  <2> HIDE DEF to
  <2>4. /\ r \in Sendings /\ r.at = to /\ r.live = uploads[u].live /\ r.id = uploads[u].id
        /\ uploads' = [uploads EXCEPT ![u] = r]
    BY <1>0, <2>2, <2>3 DEF Sendings
  <2> HIDE DEF r
  <2>5. /\ uploads' \in [File!Uploads -> Sendings] /\ uploads'[u] = r
        /\ \A v \in File!Uploads : v # u => uploads'[v] = uploads[v]
    BY <1>0, <2>4, SetUpload
  <2>6. Smooth => Smooth'
    <3> SUFFICES ASSUME Smooth PROVE Smooth'
      OBVIOUS
    <3>1. to = "answered"
      BY <2>2, <2>3 DEF Smooth
    <3> QED BY <2>2, <2>4, <2>5, <3>1 DEF Smooth
  <2> QED BY <1>0, <2>2, <2>5, <2>6, FilesParts
<1>2. CASE File!DeleteCv
  <2>1. /\ dialog.at = "sent" /\ dialog' = [dialog EXCEPT !.at = "answered"] /\ cv' = 0
        /\ UNCHANGED <<ids, bodies, get, shown, uploads, faults, crossed>>
    BY <1>2 DEF File!DeleteCv
  <2>2. dialog' \in Removals /\ dialog'.at = "answered" /\ dialog'.asked = dialog.asked
    BY <1>0, <2>1 DEF Removals
  <2>3. Smooth => Smooth'
    <3> SUFFICES ASSUME Smooth PROVE Smooth'
      OBVIOUS
    <3>1. shown.status = "ready" /\ shown.loading.at = "none"
      BY <1>0, <2>1 DEF Smooth, Shows
    <3> QED BY <2>1, <2>2, <3>1 DEF Smooth
  <2> QED BY <1>0, <2>1, <2>2, <2>3, FilesParts
<1>3. CASE File!ReadCv
  <2> DEFINE read == [at |-> "answered", cv |-> cv]
  <2>1. /\ shown.loading.at = "sent" /\ shown' = [shown EXCEPT !.loading = read]
        /\ UNCHANGED <<cv, ids, bodies, get, uploads, dialog, faults, crossed>>
    BY <1>3 DEF File!ReadCv, File!database
  <2>2. read \in Loadings /\ read.at = "answered" /\ read.cv = cv
    BY <1>0 DEF Loadings
  <2> HIDE DEF read
  <2>3. shown' \in Shows /\ shown'.loading = read /\ shown'.status = shown.status /\ shown'.cv = shown.cv
    BY <1>0, <2>1, <2>2 DEF Shows
  <2>4. Smooth => Smooth'
    BY <2>1, <2>2, <2>3 DEF Smooth
  <2> QED BY <1>0, <2>1, <2>3, <2>4, FilesParts
<1>4. CASE File!Outside
  <2>1. /\ File!Fault /\ UNCHANGED <<bodies, get, shown, uploads, dialog, crossed>>
        /\ (cv' = ids + 1 /\ ids' = ids + 1 /\ ids < MaxFiles) \/ (cv' = 0 /\ ids' = ids)
    BY <1>4 DEF File!Outside, File!Replace
  <2>2. faults' \in 0 .. MaxFaults /\ faults' # 0
    BY <2>1, FaultSteps
  <2> QED BY <1>0, <2>1, <2>2, FilesParts
<1> QED BY <1>1, <1>2, <1>3, <1>4

\* The page's query.
LEMMA CvPageKeeps ==
  ASSUME FilesInv, File!CvLands \/ File!CvFails \/ File!retry \/ File!Leave
  PROVE  FilesInv'
<1>0. /\ cv \in 0 .. MaxFiles /\ ids \in 0 .. MaxFiles /\ shown \in Shows
      /\ uploads \in [File!Uploads -> Sendings] /\ dialog \in Removals
      /\ faults \in 0 .. MaxFaults /\ crossed \in BOOLEAN
      /\ faults = 0 /\ ~crossed => Smooth
  BY FilesFacts
<1>1. CASE File!CvLands
  <2>1. /\ shown.loading.at = "answered"
        /\ shown' = [status |-> "ready", cv |-> shown.loading.cv, loading |-> File!Loaded]
        /\ UNCHANGED <<cv, ids, bodies, get, uploads, dialog, faults, crossed>>
    BY <1>1 DEF File!CvLands, File!database
  <2>2. shown.loading.cv \in 0 .. MaxFiles
    BY <1>0 DEF Shows, Loadings
  <2>3. shown' \in Shows /\ shown'.loading.at = "none" /\ shown'.status = "ready" /\ shown'.cv = shown.loading.cv
    BY <2>1, <2>2, FilesBlanks DEF Shows
  <2>4. Smooth => Smooth'
    BY <2>1, <2>3 DEF Smooth
  <2> QED BY <1>0, <2>1, <2>3, <2>4, FilesParts
<1>2. CASE File!CvFails
  <2>1. /\ File!Fault /\ shown' = [shown EXCEPT !.status = "error", !.loading = File!Loaded]
        /\ UNCHANGED <<cv, ids, bodies, get, uploads, dialog, crossed>>
    BY <1>2 DEF File!CvFails, File!database
  <2>2. shown' \in Shows
    BY <1>0, <2>1, FilesBlanks DEF Shows
  <2>3. faults' \in 0 .. MaxFaults /\ faults' # 0
    BY <2>1, FaultSteps
  <2> QED BY <1>0, <2>1, <2>2, <2>3, FilesParts
<1>3. CASE File!retry
  <2>1. /\ shown.status = "error" /\ shown' = File!Opened
        /\ UNCHANGED <<cv, ids, bodies, get, uploads, dialog, faults, crossed>>
    BY <1>3 DEF File!retry, File!database
  <2>2. ~Smooth
    BY <2>1 DEF Smooth
  <2> QED BY <1>0, <2>1, <2>2, FilesBlanks, FilesParts
<1>4. CASE File!Leave
  <2>1. /\ File!Fault /\ shown' = File!Opened
        /\ uploads' = [u \in File!Uploads |-> [uploads[u] EXCEPT !.live = FALSE]]
        /\ UNCHANGED <<cv, ids, bodies, get, dialog, crossed>>
    BY <1>4 DEF File!Leave, File!database
  <2>2. uploads' \in [File!Uploads -> Sendings]
    BY <1>0, <2>1 DEF Sendings
  <2>3. faults' \in 0 .. MaxFaults /\ faults' # 0
    BY <2>1, FaultSteps
  <2> QED BY <1>0, <2>1, <2>2, <2>3, FilesBlanks, FilesParts
<1> QED BY <1>1, <1>2, <1>3, <1>4

LEMMA UploadKeeps ==
  ASSUME FilesInv,
         File!onChange \/ \E u \in File!Uploads : File!UploadLands(u) \/ File!UploadFails(u)
  PROVE  FilesInv'
<1>0. /\ cv \in 0 .. MaxFiles /\ ids \in 0 .. MaxFiles /\ shown \in Shows
      /\ uploads \in [File!Uploads -> Sendings] /\ dialog \in Removals
      /\ faults \in 0 .. MaxFaults /\ crossed \in BOOLEAN
      /\ faults = 0 /\ ~crossed => Smooth
  BY FilesFacts
<1>1. CASE File!onChange
  <2> DEFINE r == [File!NoUpload EXCEPT !.at = "sent", !.live = TRUE]
  <2>1. PICK u \in File!Uploads : uploads[u].at = "none" /\ uploads' = [uploads EXCEPT ![u] = r]
    BY <1>1 DEF File!onChange
  <2>2. /\ shown.status = "ready" /\ ~dialog.asked /\ File!Live = {}
        /\ UNCHANGED <<cv, ids, bodies, get, shown, dialog, faults, crossed>>
    BY <1>1 DEF File!onChange, File!database
  <2>3. r \in Sendings /\ r.at = "sent" /\ r.live
    BY FilesBlanks DEF Sendings
  <2> HIDE DEF r
  <2>4. /\ uploads' \in [File!Uploads -> Sendings] /\ uploads'[u] = r
        /\ \A v \in File!Uploads : v # u => uploads'[v] = uploads[v]
    BY <1>0, <2>1, <2>3, SetUpload
  <2>5. Smooth => Smooth'
    <3> SUFFICES ASSUME Smooth PROVE Smooth'
      OBVIOUS
    <3>1. \A v \in File!Uploads : uploads[v].at = "none"
      BY <2>2 DEF Smooth, File!Live
    <3>2. dialog.at = "none"
      BY <2>2 DEF Smooth
    <3>3. shown.cv = cv
      BY <2>2, <3>1, <3>2 DEF Smooth
    <3> QED BY <2>2, <2>3, <2>4, <3>1, <3>2, <3>3 DEF Smooth
  <2> QED BY <1>0, <2>2, <2>4, <2>5, FilesParts
<1>2. ASSUME NEW u \in File!Uploads, File!UploadLands(u)
      PROVE  FilesInv'
  <2>1. /\ uploads[u].at \in {"answered", "refused"} /\ uploads' = [uploads EXCEPT ![u] = File!NoUpload]
        /\ shown' = IF uploads[u].live /\ uploads[u].at = "answered" THEN [shown EXCEPT !.cv = uploads[u].id] ELSE shown
        /\ UNCHANGED <<cv, ids, bodies, get, dialog, faults, crossed>>
    BY <1>2 DEF File!UploadLands, File!database
  <2>2. /\ uploads' \in [File!Uploads -> Sendings] /\ uploads'[u].at = "none"
        /\ \A v \in File!Uploads : v # u => uploads'[v] = uploads[v]
    BY <1>0, <2>1, FilesBlanks, SetUpload
  <2> DEFINE id == uploads[u].id
  <2>3. id \in 0 .. MaxFiles
    BY <1>0 DEF Sendings
  <2>4. shown' = shown \/ shown' = [shown EXCEPT !.cv = id]
    BY <2>1
  <2>5. uploads[u].live /\ uploads[u].at = "answered" => shown' = [shown EXCEPT !.cv = id]
    BY <2>1
  <2>6. uploads[u].at = "answered" /\ Smooth => id = cv
    BY DEF Smooth
  <2>a. uploads[u].at = "refused" => shown' = shown
    BY <2>1
  <2> HIDE DEF id
  <2>7. /\ shown' \in Shows /\ shown'.status = shown.status /\ shown'.loading = shown.loading
        /\ uploads[u].live /\ uploads[u].at = "answered" => shown'.cv = id
    BY <1>0, <2>3, <2>4, <2>5 DEF Shows
  <2>8. Smooth => Smooth'
    <3> SUFFICES ASSUME Smooth PROVE Smooth'
      OBVIOUS
    <3>1. \A v \in File!Uploads : uploads'[v].at = "none"
      BY <2>1, <2>2 DEF Smooth
    <3>2. shown.status = "ready" /\ shown.loading.at = "none" /\ dialog.at = "none" /\ uploads[u].live
      BY <1>0, <2>1 DEF Smooth, Shows
    <3>3. uploads[u].at = "refused" => shown.cv = cv
      <4> SUFFICES ASSUME uploads[u].at = "refused" PROVE shown.cv = cv
        OBVIOUS
      <4>1. \A v \in File!Uploads : uploads[v].at \notin {"stored", "answered"}
        BY DEF Smooth
      <4> QED BY <3>2, <4>1 DEF Smooth
    <3>4. shown'.cv = cv
      BY <2>1, <2>6, <2>7, <2>a, <3>2, <3>3
    <3> QED BY <2>1, <2>7, <3>1, <3>2, <3>4 DEF Smooth
  <2> QED BY <1>0, <2>1, <2>2, <2>7, <2>8, FilesParts
<1>3. ASSUME NEW u \in File!Uploads, File!UploadFails(u)
      PROVE  FilesInv'
  <2>1. /\ File!Fault /\ uploads' = [uploads EXCEPT ![u] = File!NoUpload]
        /\ UNCHANGED <<cv, ids, bodies, get, shown, dialog, crossed>>
    BY <1>3 DEF File!UploadFails, File!database
  <2>2. uploads' \in [File!Uploads -> Sendings]
    BY <1>0, <2>1, FilesBlanks, SetUpload
  <2>3. faults' \in 0 .. MaxFaults /\ faults' # 0
    BY <2>1, FaultSteps
  <2> QED BY <1>0, <2>1, <2>2, <2>3, FilesParts
<1> QED BY <1>1, <1>2, <1>3

LEMMA RemovalKeeps ==
  ASSUME FilesInv,
         File!openRemoval \/ File!confirm \/ File!RemovalLands \/ File!RemovalFails
  PROVE  FilesInv'
<1>0. /\ cv \in 0 .. MaxFiles /\ ids \in 0 .. MaxFiles /\ shown \in Shows
      /\ uploads \in [File!Uploads -> Sendings] /\ dialog \in Removals
      /\ faults \in 0 .. MaxFaults /\ crossed \in BOOLEAN
      /\ faults = 0 /\ ~crossed => Smooth
  BY FilesFacts
<1>1. CASE File!openRemoval
  <2>1. /\ shown.status = "ready" /\ ~dialog.asked /\ dialog' = [File!NoDialog EXCEPT !.asked = TRUE]
        /\ UNCHANGED <<cv, ids, bodies, get, shown, uploads, faults, crossed>>
    BY <1>1 DEF File!openRemoval, File!database
  <2>2. dialog' \in Removals /\ dialog'.at = "none" /\ dialog'.asked
    BY <2>1, FilesBlanks DEF Removals
  <2>3. Smooth => Smooth'
    BY <2>1, <2>2 DEF Smooth
  <2> QED BY <1>0, <2>1, <2>2, <2>3, FilesParts
<1>2. CASE File!confirm
  <2>0. /\ dialog.asked /\ dialog.at = "none" /\ UNCHANGED <<cv, ids, bodies, get, shown, uploads, faults>>
        /\ dialog' \in {File!NoDialog, [dialog EXCEPT !.at = "sent"]}
        /\ crossed' = (crossed \/ (dialog'.asked /\ File!Live # {}))
    BY <1>2 DEF File!confirm, File!database
  <2>1. crossed' \in BOOLEAN /\ (~crossed' => ~crossed)
    BY <2>0
  <2>2. CASE dialog' = File!NoDialog
    <3>1. Smooth => Smooth'
      BY <2>0, <2>2, FilesBlanks DEF Smooth
    <3> QED BY <1>0, <2>0, <2>1, <2>2, <3>1, FilesBlanks, FilesParts
  <2>3. CASE dialog' = [dialog EXCEPT !.at = "sent"]
    <3>1. dialog' \in Removals /\ dialog'.at = "sent" /\ dialog'.asked
      BY <1>0, <2>0, <2>3 DEF Removals
    <3>2. ~crossed' => File!Live = {}
      BY <2>0, <3>1
    <3>3. Smooth /\ ~crossed' => Smooth'
      <4> SUFFICES ASSUME Smooth, ~crossed' PROVE Smooth'
        OBVIOUS
      <4>1. \A u \in File!Uploads : uploads[u].at = "none"
        BY <3>2 DEF Smooth, File!Live
      <4>2. shown.status = "ready" /\ shown.loading.at = "none"
        BY <1>0, <2>0 DEF Smooth, Shows
      <4> QED BY <2>0, <3>1, <4>1, <4>2 DEF Smooth
    <3> QED BY <1>0, <2>0, <2>1, <3>1, <3>3, FilesParts
  <2> QED BY <2>0, <2>2, <2>3
<1>3. CASE File!RemovalLands
  <2>1. /\ dialog.at = "answered" /\ dialog' = File!NoDialog /\ shown' = [shown EXCEPT !.cv = 0]
        /\ UNCHANGED <<cv, ids, bodies, get, uploads, faults, crossed>>
    BY <1>3 DEF File!RemovalLands, File!database
  <2>2. /\ shown' \in Shows /\ shown'.cv = 0 /\ shown'.status = shown.status
        /\ shown'.loading = shown.loading
    BY <1>0, <2>1, FilesBounds DEF Shows
  <2>3. Smooth => Smooth'
    BY <2>1, <2>2, FilesBlanks DEF Smooth
  <2> QED BY <1>0, <2>1, <2>2, <2>3, FilesBlanks, FilesParts
<1>4. CASE File!RemovalFails
  <2>1. /\ File!Fault /\ dialog' = [dialog EXCEPT !.at = "none"]
        /\ UNCHANGED <<cv, ids, bodies, get, shown, uploads, crossed>>
    BY <1>4 DEF File!RemovalFails, File!database
  <2>2. dialog' \in Removals
    BY <1>0, <2>1 DEF Removals
  <2>3. faults' \in 0 .. MaxFaults /\ faults' # 0
    BY <2>1, FaultSteps
  <2> QED BY <1>0, <2>1, <2>2, <2>3, FilesParts
<1> QED BY <1>1, <1>2, <1>3, <1>4

LEMMA FilesStep == FilesInv /\ File!Next => FilesInv'
  BY Downloads, StoreKeeps, ServerKeeps, CvPageKeeps, UploadKeeps, RemovalKeeps DEF File!Next

LEMMA FilesKeepTrue == FilesInv => File!TypeOK /\ File!RemovedGone /\ File!CvSettles
<1> SUFFICES ASSUME FilesInv PROVE File!TypeOK /\ File!RemovedGone /\ File!CvSettles
  OBVIOUS
<1>1. File!TypeOK /\ File!RemovedGone
  BY FilesBounds DEF FilesInv, GoneInv, File!RemovedGone
<1>2. File!CvSettles
  BY DEF FilesInv, Smooth, File!CvSettles
<1> QED BY <1>1, <1>2

LEMMA FilesStand == FilesInv /\ UNCHANGED files => FilesInv'
  BY DEF files, FilesInv, FilesTyped, GoneInv, Smooth

-------------------------------------------------------------------------------
(* What a sign-in must pass.                                                 *)

Events == [age : Nat, by : Addresses]
Tried == [at : {"asking", "checking", "code", "waiting", "woken"}, kind : Gate!Kinds, by : Addresses]

\* What waits for a slot or has one checks a password.
Waiters == {t \in Gate!Waiters : t.kind # "code"}
Counts(count) ==
  /\ count \in [Gate!Going -> Nat]
  /\ \A t \in Gate!Going : t.at = "checking" /\ t.kind = "code" => count[t] = 0

\* A log is oldest first, so what a window no longer counts is at its front.
Aged(log) == \A i, j \in DOMAIN log : i < j => log[i].age >= log[j].age

\* What a log has of an address is in another, of the same age.
Within(a, log, base) ==
  \E f \in [Gate!By(log, a) -> DOMAIN base] :
    /\ \A i, j \in Gate!By(log, a) : f[i] = f[j] => i = j
    /\ \A n \in Gate!By(log, a) : base[f[n]].age = log[n].age

LogsInv ==
  /\ recent \in [Gate!Keys -> Seq(Events)]
  /\ \A k \in Gate!Keys : Aged(recent[k]) /\ Len(recent[k]) <= Gate!Limit(k)

\* All that counts against the email, or has come to the check, counts against the
\* address it came from, and leaves that log no earlier.
GuessInv ==
  /\ guessed \in [Addresses -> Seq(Events)]
  /\ \A a \in Addresses :
       /\ Aged(guessed[a]) /\ \A n \in DOMAIN guessed[a] : guessed[a][n].by = a
       /\ Within(a, recent[<<"email">>], recent[<<"email-ip", a>>])
       /\ Within(a, guessed[a], recent[<<"email-ip", a>>])

TriesInv ==
  /\ Counts(tries) /\ queue \in Seq(Waiters)
  /\ free \in Nat /\ second \in BOOLEAN /\ halfway \in BOOLEAN

SlotsInv == IsFiniteSet(Gate!Checks(tries)) /\ Gate!SlotsKept

AttemptsInv == LogsInv /\ GuessInv /\ TriesInv /\ SlotsInv

LEMMA Numbers == Gate!AttemptBounds
  BY CorrespondenceAssumption

LEMMA Counted == \A S : Gate!Cardinality(S) = Cardinality(S)
  BY DEF Gate!Cardinality, Cardinality

LEMMA Limits ==
  /\ {Window, Day, EmailIpLimit, Slots} \subseteq Nat \ {0} /\ Home \in Addresses
  /\ \A k \in Gate!Keys : Gate!Limit(k) \in Nat \ {0}
<1>1. {Window, Day, IpLimit, EmailIpLimit, EmailLimit, CodeLimit, DayLimit, ReauthLimit, Slots} \subseteq Nat \ {0}
  BY Numbers DEF Gate!AttemptBounds
<1>2. \A k \in Gate!Keys : k[1] \in {"ip", "email-ip", "email", "code", "day", "reauth"}
  BY DEF Gate!Keys
<1>3. \A k \in Gate!Keys : Gate!Limit(k) \in Nat \ {0}
  BY <1>1, <1>2 DEF Gate!Limit
<1> QED BY <1>1, <1>3, Numbers DEF Gate!AttemptBounds

LEMMA KeysKnown ==
  /\ {<<"email">>, <<"code">>, <<"day">>, <<"reauth">>} \subseteq Gate!Keys
  /\ \A a \in Addresses : <<"ip", a>> \in Gate!Keys /\ <<"email-ip", a>> \in Gate!Keys
  BY DEF Gate!Keys

-------------------------------------------------------------------------------
(* Logs.                                                                     *)

LEMMA AgesKnown ==
  ASSUME NEW log \in Seq(Events)
  PROVE  \A n \in DOMAIN log : log[n] \in Events /\ log[n].age \in Nat
<1> TAKE n \in DOMAIN log
<1>1. log[n] \in Events
  BY ElementOfSeq
<1> QED BY <1>1 DEF Events

\* A new event is the youngest.
LEMMA LogGrows ==
  ASSUME NEW log \in Seq(Events), Aged(log), NEW a \in Addresses
  PROVE  Append(log, Gate!Event(a)) \in Seq(Events) /\ Aged(Append(log, Gate!Event(a)))
<1> DEFINE e == Gate!Event(a)
<1>1. e \in Events /\ e.age = 0
  BY DEF Gate!Event, Events
<1> HIDE DEF e
<1>2. \A i \in DOMAIN log : log[i].age \in Nat
  BY AgesKnown
<1>3. Append(log, e) \in Seq(Events)
  BY <1>1
<1>4. Aged(Append(log, e))
  BY <1>1, <1>2 DEF Aged
<1> QED BY <1>3, <1>4 DEF e

LEMMA NoLog == <<>> \in Seq(Events) /\ Aged(<<>>) /\ Len(<<>>) = 0
  BY DEF Aged

LEMMA NothingWithin ==
  ASSUME NEW a, NEW base
  PROVE  Within(a, <<>>, base)
<1>1. Gate!By(<<>>, a) = {}
  BY DEF Gate!By
<1> DEFINE f == [n \in {} |-> 0]
<1>2. f \in [Gate!By(<<>>, a) -> DOMAIN base]
  BY <1>1
<1> HIDE DEF f
<1> QED BY <1>1, <1>2 DEF Within

LEMMA Least ==
  ASSUME NEW S \in SUBSET Nat, S # {}
  PROVE  \E m \in S : \A n \in S : m <= n
<1>1. PICK m \in S : \A n \in S : ~ (<<n, m>> \in OpToRel(<, Nat))
  BY NatLessThanWellFounded, WFMin
<1>2. ASSUME NEW n \in S PROVE m <= n
  <2>1. n \in Nat /\ m \in Nat
    BY <1>1
  <2> SUFFICES ASSUME n < m PROVE FALSE
    BY <2>1
  <2>2. <<n, m>> \in Nat \X Nat /\ <<n, m>>[1] = n /\ <<n, m>>[2] = m
    BY <2>1
  <2>3. <<n, m>> \in OpToRel(<, Nat)
    BY <2>2 DEF OpToRel
  <2> QED BY <1>1, <2>3
<1> QED BY <1>1, <1>2

LEMMA Greatest ==
  ASSUME NEW b \in Nat, NEW S \in SUBSET (0 .. b), S # {}
  PROVE  \E m \in S : \A n \in S : n <= m
<1> DEFINE T == {b - n : n \in S}
<1>1. T \in SUBSET Nat /\ T # {}
  <2>1. \A n \in S : b - n \in Nat
    OBVIOUS
  <2>2. PICK n \in S : TRUE
    OBVIOUS
  <2>3. b - n \in T
    BY <2>2
  <2> QED BY <2>1, <2>3
<1>2. PICK m \in T : \A n \in T : m <= n
  BY <1>1, Least
<1>3. PICK s \in S : m = b - s
  BY <1>2
<1>4. ASSUME NEW n \in S PROVE n <= s
  <2>1. b - n \in T /\ n \in Nat /\ s \in Nat
    BY <1>3
  <2>2. m <= b - n
    BY <1>2, <2>1
  <2> QED BY <1>3, <2>1, <2>2
<1> QED BY <1>4

\* What is old is at the front.
LEMMA Expiry ==
  ASSUME NEW log \in Seq(Events), Aged(log), NEW window \in Nat
  PROVE  /\ Gate!expired(log, window) \in 0 .. Len(log)
         /\ \A n \in DOMAIN log : n <= Gate!expired(log, window) <=> log[n].age + 1 >= window
<1> DEFINE old(n) == log[n].age + 1 >= window
           young == {n \in DOMAIN log : ~old(n)}
<1>0. Len(log) \in Nat /\ DOMAIN log = 1 .. Len(log) /\ \A n \in DOMAIN log : log[n].age \in Nat
  BY AgesKnown
<1>1. \E c \in 0 .. Len(log) : \A n \in DOMAIN log : n <= c <=> old(n)
  <2>1. CASE young = {}
    <3>1. \A n \in DOMAIN log : n <= Len(log) /\ old(n)
      BY <1>0, <2>1
    <3>2. Len(log) \in 0 .. Len(log)
      BY <1>0
    <3> QED BY <1>0, <3>1, <3>2
  <2>2. CASE young # {}
    <3>1. young \in SUBSET Nat
      BY <1>0
    <3>2. PICK m \in young : \A n \in young : m <= n
      BY <2>2, <3>1, Least
    <3>3. \A n \in DOMAIN log : n < m <=> old(n)
      BY <1>0, <3>2, SMTT(30) DEF Aged
    <3>4. m - 1 \in 0 .. Len(log) /\ \A n \in DOMAIN log : n <= m - 1 <=> old(n)
      BY <1>0, <3>2, <3>3
    <3> QED BY <3>4
  <2> QED BY <2>1, <2>2
<1> QED BY <1>1 DEF Gate!expired

\* Time leaves a log of what is younger than its window, in its order.
LEMMA LogAges ==
  ASSUME NEW log \in Seq(Events), Aged(log), NEW window \in Nat
  PROVE  LET gone == Gate!expired(log, window)
             rest == Gate!older(log, window)
         IN /\ gone \in 0 .. Len(log) /\ rest \in Seq(Events) /\ Aged(rest)
            /\ Len(rest) = Len(log) - gone
            /\ \A n \in 1 .. Len(log) - gone :
                 rest[n].age = log[n + gone].age + 1 /\ rest[n].by = log[n + gone].by
<1> DEFINE gone == Gate!expired(log, window)
           rest == Gate!older(log, window)
<1>1. gone \in 0 .. Len(log)
  BY Expiry
<1> HIDE DEF gone
<1>2. rest = [n \in 1 .. Len(log) - gone |-> [log[n + gone] EXCEPT !.age = @ + 1]]
  BY DEF Gate!older, gone
<1>0. Len(log) \in Nat /\ DOMAIN log = 1 .. Len(log) /\ \A n \in DOMAIN log : log[n] \in Events
  OBVIOUS
<1>3. \A n \in 1 .. Len(log) - gone : n + gone \in DOMAIN log /\ log[n + gone] \in Events
  BY <1>0, <1>1
<1>4. ASSUME NEW n \in 1 .. Len(log) - gone
      PROVE  rest[n] \in Events /\ rest[n].age = log[n + gone].age + 1 /\ rest[n].by = log[n + gone].by
  <2>1. log[n + gone] \in Events
    BY <1>3
  <2>2. rest[n] = [log[n + gone] EXCEPT !.age = @ + 1]
    BY <1>2
  <2> HIDE DEF rest
  <2> QED BY <2>1, <2>2 DEF Events
<1> HIDE DEF rest
<1>5. Len(log) - gone \in Nat
  BY <1>0, <1>1
<1>6. rest \in Seq(Events) /\ Len(rest) = Len(log) - gone
  BY <1>2, <1>4, <1>5
<1>7. Aged(rest)
  <2> SUFFICES ASSUME NEW i \in DOMAIN rest, NEW j \in DOMAIN rest, i < j PROVE rest[i].age >= rest[j].age
    BY DEF Aged
  <2>1. i \in 1 .. Len(log) - gone /\ j \in 1 .. Len(log) - gone
    BY <1>2
  <2>2. log[i + gone].age >= log[j + gone].age
    BY <1>0, <1>1, <1>3, <2>1 DEF Aged
  <2>3. log[i + gone].age \in Nat /\ log[j + gone].age \in Nat
    BY <1>3, <2>1 DEF Events
  <2> QED BY <1>4, <2>1, <2>2, <2>3, SMTT(30)
<1> QED BY <1>1, <1>4, <1>6, <1>7 DEF gone, rest

\* Two logs with one window lose the same: what was of an age still is.
LEMMA WithinAges ==
  ASSUME NEW log \in Seq(Events), Aged(log), NEW base \in Seq(Events), Aged(base),
         NEW a, Within(a, log, base), NEW window \in Nat
  PROVE  Within(a, Gate!older(log, window), Gate!older(base, window))
<1> DEFINE x == Gate!expired(log, window)
           y == Gate!expired(base, window)
           log2 == Gate!older(log, window)
           base2 == Gate!older(base, window)
<1>1. /\ x \in 0 .. Len(log) /\ \A n \in DOMAIN log : n <= x <=> log[n].age + 1 >= window
      /\ y \in 0 .. Len(base) /\ \A n \in DOMAIN base : n <= y <=> base[n].age + 1 >= window
  BY Expiry
<1>2. /\ log2 \in Seq(Events) /\ Len(log2) = Len(log) - x
      /\ \A n \in 1 .. Len(log) - x : log2[n].age = log[n + x].age + 1 /\ log2[n].by = log[n + x].by
  BY LogAges
<1>3. /\ base2 \in Seq(Events) /\ Len(base2) = Len(base) - y
      /\ \A n \in 1 .. Len(base) - y : base2[n].age = base[n + y].age + 1
  BY LogAges
<1> HIDE DEF x, y, log2, base2
<1>4. PICK f \in [Gate!By(log, a) -> DOMAIN base] :
        /\ \A i, j \in Gate!By(log, a) : f[i] = f[j] => i = j
        /\ \A n \in Gate!By(log, a) : base[f[n]].age = log[n].age
  BY DEF Within
<1>0. /\ Len(log) \in Nat /\ DOMAIN log = 1 .. Len(log) /\ Len(base) \in Nat /\ DOMAIN base = 1 .. Len(base)
      /\ DOMAIN log2 = 1 .. Len(log) - x /\ DOMAIN base2 = 1 .. Len(base) - y
  BY <1>2, <1>3
<1>5. ASSUME NEW n \in Gate!By(log2, a)
      PROVE  /\ n \in 1 .. Len(log) - x /\ n + x \in Gate!By(log, a)
             /\ f[n + x] \in y + 1 .. Len(base) /\ f[n + x] - y \in DOMAIN base2
             /\ base2[f[n + x] - y].age = log2[n].age
  <2>1. n \in 1 .. Len(log) - x /\ log2[n].by = a
    BY <1>0 DEF Gate!By
  <2>2. n + x \in 1 .. Len(log) /\ ~(n + x <= x)
    BY <1>0, <1>1, <2>1
  <2>3. n + x \in Gate!By(log, a)
    BY <1>0, <1>2, <2>1, <2>2 DEF Gate!By
  <2>4. f[n + x] \in 1 .. Len(base) /\ base[f[n + x]].age = log[n + x].age
    BY <1>0, <1>4, <2>3
  <2>5. ~(f[n + x] <= y)
    BY <1>0, <1>1, <2>2, <2>4
  <2>6. f[n + x] - y \in 1 .. Len(base) - y /\ (f[n + x] - y) + y = f[n + x]
    BY <1>0, <1>1, <2>4, <2>5
  <2>7. base2[f[n + x] - y].age = base[f[n + x]].age + 1
    BY <1>3, <2>6
  <2> QED BY <1>0, <1>1, <1>2, <2>1, <2>3, <2>4, <2>5, <2>6, <2>7
<1> DEFINE g == [n \in Gate!By(log2, a) |-> f[n + x] - y]
<1>6. g \in [Gate!By(log2, a) -> DOMAIN base2]
  BY <1>5
<1>7. \A i, j \in Gate!By(log2, a) : g[i] = g[j] => i = j
  BY <1>0, <1>1, <1>4, <1>5, SMTT(30)
<1>8. \A n \in Gate!By(log2, a) : base2[g[n]].age = log2[n].age
  BY <1>5
<1> HIDE DEF g
<1>9. Within(a, log2, base2)
  BY <1>6, <1>7, <1>8 DEF Within
<1> QED BY <1>9 DEF log2, base2

\* An attempt that counts on both adds an event of the same age to each.
LEMMA WithinGrows ==
  ASSUME NEW log \in Seq(Events), NEW base \in Seq(Events), NEW a, Within(a, log, base), NEW b
  PROVE  /\ Within(a, log, Append(base, Gate!Event(b)))
         /\ a # b => Within(a, Append(log, Gate!Event(b)), base)
         /\ Within(a, Append(log, Gate!Event(b)), Append(base, Gate!Event(b)))
<1> DEFINE e == Gate!Event(b)
           log2 == Append(log, e)
           base2 == Append(base, e)
<1>1. e.by = b /\ e.age = 0
  BY DEF Gate!Event
<1> HIDE DEF e
<1>2. /\ Len(log) \in Nat /\ DOMAIN log = 1 .. Len(log) /\ Len(base) \in Nat /\ DOMAIN base = 1 .. Len(base)
      /\ DOMAIN log2 = 1 .. Len(log) + 1 /\ DOMAIN base2 = 1 .. Len(base) + 1
      /\ \A n \in DOMAIN log : log2[n] = log[n]
      /\ \A n \in DOMAIN base : base2[n] = base[n]
      /\ log2[Len(log) + 1] = e /\ base2[Len(base) + 1] = e
  OBVIOUS
<1> HIDE DEF log2, base2
<1>3. PICK f \in [Gate!By(log, a) -> DOMAIN base] :
        /\ \A i, j \in Gate!By(log, a) : f[i] = f[j] => i = j
        /\ \A n \in Gate!By(log, a) : base[f[n]].age = log[n].age
  BY DEF Within
<1>4. Within(a, log, base2)
  <2>1. f \in [Gate!By(log, a) -> DOMAIN base2]
    BY <1>2, <1>3
  <2>2. \A n \in Gate!By(log, a) : base2[f[n]].age = log[n].age
    BY <1>2, <1>3
  <2> QED BY <1>3, <2>1, <2>2 DEF Within
<1>5. ASSUME a # b PROVE Gate!By(log2, a) = Gate!By(log, a) /\ Within(a, log2, base)
  <2>1. Gate!By(log2, a) = Gate!By(log, a)
    BY <1>1, <1>2, <1>5 DEF Gate!By
  <2>2. \A n \in Gate!By(log, a) : log2[n].age = log[n].age
    BY <1>2 DEF Gate!By
  <2> QED BY <1>3, <2>1, <2>2 DEF Within
<1>6. CASE a # b
  <2>1. \A n \in Gate!By(log, a) : log2[n].age = log[n].age
    BY <1>2 DEF Gate!By
  <2>2. Within(a, log2, base2)
    BY <1>4, <1>5, <1>6, <2>1 DEF Within
  <2> QED BY <1>4, <1>5, <1>6, <2>2 DEF log2, base2, e
<1>7. CASE a = b
  <2> DEFINE g == [n \in Gate!By(log2, a) |-> IF n = Len(log) + 1 THEN Len(base) + 1 ELSE f[n]]
  <2>1. \A n \in Gate!By(log2, a) : n = Len(log) + 1 \/ (n \in Gate!By(log, a) /\ n # Len(log) + 1)
    BY <1>2 DEF Gate!By
  <2>2. \A n \in Gate!By(log, a) : f[n] \in 1 .. Len(base) /\ f[n] # Len(base) + 1
    BY <1>2, <1>3
  <2>3. g \in [Gate!By(log2, a) -> DOMAIN base2]
    BY <1>2, <2>1, <2>2
  <2>4. \A i, j \in Gate!By(log2, a) : g[i] = g[j] => i = j
    BY <1>3, <2>1, <2>2
  <2>5. \A n \in Gate!By(log2, a) : base2[g[n]].age = log2[n].age
    <3> TAKE n \in Gate!By(log2, a)
    <3>1. CASE n = Len(log) + 1
      BY <1>2, <3>1
    <3>2. CASE n \in Gate!By(log, a) /\ n # Len(log) + 1
      <4>1. log2[n] = log[n] /\ base2[f[n]] = base[f[n]]
        BY <1>2, <1>3, <3>2 DEF Gate!By
      <4> QED BY <1>3, <3>2, <4>1
    <3> QED BY <2>1, <3>1, <3>2
  <2> HIDE DEF g
  <2>6. Within(a, log2, base2)
    BY <2>3, <2>4, <2>5 DEF Within
  <2> QED BY <1>4, <1>7, <2>6 DEF log2, base2, e
<1> QED BY <1>6, <1>7

\* So there is no more of the address than its own log has.
LEMMA WithinBounds ==
  ASSUME NEW log \in Seq(Events), NEW base \in Seq(Events), NEW a, Within(a, log, base)
  PROVE  IsFiniteSet(Gate!By(log, a)) /\ Cardinality(Gate!By(log, a)) <= Len(base)
<1>1. PICK f \in [Gate!By(log, a) -> DOMAIN base] : \A i, j \in Gate!By(log, a) : f[i] = f[j] => i = j
  BY DEF Within
<1>2. Len(base) \in Nat /\ DOMAIN base = 1 .. Len(base)
  OBVIOUS
<1>3. IsFiniteSet(1 .. Len(base)) /\ Cardinality(1 .. Len(base)) = Len(base)
  <2>1. 1 \in Int /\ Len(base) \in Int
    BY <1>2
  <2>2. /\ IsFiniteSet(1 .. Len(base))
        /\ Cardinality(1 .. Len(base)) = IF 1 > Len(base) THEN 0 ELSE Len(base) - 1 + 1
    BY <2>1, FS_Interval
  <2> QED BY <1>2, <2>2
<1>4. f \in Injection(Gate!By(log, a), 1 .. Len(base))
  BY <1>1, <1>2 DEF Injection, IsInjective
<1> QED BY <1>3, <1>4, FS_Injection

-------------------------------------------------------------------------------
(* What each step does to the logs.                                          *)

LEMMA KeysDiffer ==
  /\ \A k \in Gate!Keys : k[1] \notin {"email", "email-ip"} =>
       k # <<"email">> /\ \A a \in Addresses : k # <<"email-ip", a>>
  /\ \A a \in Addresses : /\ <<"email-ip", a>> # <<"email">>
                          /\ \A b \in Addresses : <<"email-ip", a>> = <<"email-ip", b>> => a = b
<1>1. \A a \in Addresses : <<"email-ip", a>>[1] = "email-ip" /\ <<"email-ip", a>>[2] = a
  OBVIOUS
<1>2. <<"email">>[1] = "email"
  OBVIOUS
<1> QED BY <1>1, <1>2

\* Counting on a key that has room.
LEMMA RecordedLogs ==
  ASSUME NEW log \in [Gate!Keys -> Seq(Events)],
         \A k \in Gate!Keys : Aged(log[k]) /\ Len(log[k]) <= Gate!Limit(k),
         NEW key \in Gate!Keys, Gate!Allows(log, key), NEW a \in Addresses
  PROVE  LET new == Gate!Recorded(log, key, a)
         IN /\ new \in [Gate!Keys -> Seq(Events)]
            /\ \A k \in Gate!Keys : Aged(new[k]) /\ Len(new[k]) <= Gate!Limit(k)
            /\ new[key] = Append(log[key], Gate!Event(a))
            /\ \A k \in Gate!Keys : k # key => new[k] = log[k]
<1> DEFINE new == Gate!Recorded(log, key, a)
           longer == Append(log[key], Gate!Event(a))
<1>1. log[key] \in Seq(Events) /\ Aged(log[key]) /\ Len(log[key]) < Gate!Limit(key)
  BY DEF Gate!Allows
<1>2. longer \in Seq(Events) /\ Aged(longer)
  BY <1>1, LogGrows
<1>3. Len(longer) <= Gate!Limit(key)
  <2>1. Len(longer) = Len(log[key]) + 1 /\ Len(log[key]) \in Nat
    BY <1>1
  <2> QED BY <1>1, <2>1, Limits
<1> HIDE DEF longer
<1>4. new = [log EXCEPT ![key] = longer]
  BY DEF Gate!Recorded, longer
<1> HIDE DEF new
<1>5. new \in [Gate!Keys -> Seq(Events)]
  BY <1>2, <1>4
<1>6. new[key] = longer /\ \A k \in Gate!Keys : k # key => new[k] = log[k]
  BY <1>4
<1>7. \A k \in Gate!Keys : Aged(new[k]) /\ Len(new[k]) <= Gate!Limit(k)
  BY <1>2, <1>3, <1>6
<1> QED BY <1>5, <1>6, <1>7 DEF new, longer

\* Keys that no email is counted on.
LEMMA ElsewhereKeeps ==
  ASSUME LogsInv, GuessInv, UNCHANGED guessed, NEW a \in Addresses,
         NEW key \in Gate!Keys, key[1] \notin {"email", "email-ip"}, Gate!Allows(recent, key),
         recent' = Gate!Recorded(recent, key, a)
  PROVE  LogsInv' /\ GuessInv'
<1>1. /\ recent' \in [Gate!Keys -> Seq(Events)]
      /\ \A k \in Gate!Keys : Aged(recent'[k]) /\ Len(recent'[k]) <= Gate!Limit(k)
      /\ \A k \in Gate!Keys : k # key => recent'[k] = recent[k]
  BY RecordedLogs DEF LogsInv
<1>2. LogsInv'
  BY <1>1 DEF LogsInv
<1>3. recent'[<<"email">>] = recent[<<"email">>]
  BY <1>1, KeysKnown, KeysDiffer
<1>4. \A b \in Addresses : recent'[<<"email-ip", b>>] = recent[<<"email-ip", b>>]
  BY <1>1, KeysKnown, KeysDiffer
<1>5. GuessInv'
  BY <1>3, <1>4 DEF GuessInv
<1> QED BY <1>2, <1>5

\* Two keys in turn: the second only if the first has room.
LEMMA CodeKeeps ==
  ASSUME LogsInv, GuessInv, UNCHANGED guessed, NEW a \in Addresses,
         recent' = Gate!hits(Gate!totp_limit_keys, a).log
  PROVE  LogsInv' /\ GuessInv'
<1> DEFINE x == <<"code">>
           y == <<"day">>
           one == Gate!Recorded(recent, x, a)
<1>1. x \in Gate!Keys /\ y \in Gate!Keys /\ x # y /\ x[1] = "code" /\ y[1] = "day"
  <2>1. x[1] = "code" /\ y[1] = "day"
    OBVIOUS
  <2> QED BY <2>1, KeysKnown
<1>2. Gate!totp_limit_keys[1] = x /\ Gate!totp_limit_keys[2] = y
  BY DEF Gate!totp_limit_keys
<1> HIDE DEF x, y
<1>3. CASE ~Gate!Allows(recent, x)
  <2>1. recent' = recent
    BY <1>2, <1>3 DEF Gate!hits
  <2> QED BY <2>1 DEF LogsInv, GuessInv
<1>4. CASE Gate!Allows(recent, x) /\ ~Gate!Allows(recent, y)
  <2>1. recent' = one
    BY <1>2, <1>4 DEF Gate!hits
  <2>2. x[1] \notin {"email", "email-ip"}
    BY <1>1
  <2> QED BY <1>1, <1>4, <2>1, <2>2, ElsewhereKeeps
<1>5. CASE Gate!Allows(recent, x) /\ Gate!Allows(recent, y)
  <2>1. recent' = Gate!Recorded(one, y, a)
    BY <1>2, <1>5 DEF Gate!hits
  <2>2. /\ one \in [Gate!Keys -> Seq(Events)]
        /\ \A k \in Gate!Keys : Aged(one[k]) /\ Len(one[k]) <= Gate!Limit(k)
        /\ \A k \in Gate!Keys : k # x => one[k] = recent[k]
    BY <1>1, <1>5, RecordedLogs DEF LogsInv
  <2> HIDE DEF one
  <2>3. Gate!Allows(one, y)
    BY <1>1, <1>5, <2>2 DEF Gate!Allows
  <2>4. /\ recent' \in [Gate!Keys -> Seq(Events)]
        /\ \A k \in Gate!Keys : Aged(recent'[k]) /\ Len(recent'[k]) <= Gate!Limit(k)
        /\ \A k \in Gate!Keys : k # y => recent'[k] = one[k]
    BY <1>1, <2>1, <2>2, <2>3, RecordedLogs
  <2>5. LogsInv'
    BY <2>4 DEF LogsInv
  <2>6. \A k \in Gate!Keys : k[1] \in {"email", "email-ip"} => recent'[k] = recent[k]
    BY <1>1, <2>2, <2>4
  <2>7. /\ recent'[<<"email">>] = recent[<<"email">>]
        /\ \A b \in Addresses : recent'[<<"email-ip", b>>] = recent[<<"email-ip", b>>]
    BY <2>6, KeysKnown
  <2>8. GuessInv'
    BY <2>7 DEF GuessInv
  <2> QED BY <2>5, <2>8
<1> QED BY <1>3, <1>4, <1>5

\* A login counts on its address's key, and on the email's with it or not at all.
LEMMA LoginKeeps ==
  ASSUME LogsInv, GuessInv, NEW a \in Addresses,
         LET counted == Gate!hits(Gate!email_limit_keys(a), a)
         IN /\ recent' = counted.log
            /\ IF counted.ok THEN guessed' = [guessed EXCEPT ![a] = Append(@, Gate!Event(a))] ELSE UNCHANGED guessed
  PROVE  LogsInv' /\ GuessInv'
<1> DEFINE x == <<"email-ip", a>>
           y == <<"email">>
           one == Gate!Recorded(recent, x, a)
<1>1. x \in Gate!Keys /\ y \in Gate!Keys /\ x # y
  BY KeysKnown, KeysDiffer
<1>2. Gate!email_limit_keys(a)[1] = x /\ Gate!email_limit_keys(a)[2] = y
  BY DEF Gate!email_limit_keys
<1>3. \A b \in Addresses : b # a => <<"email-ip", b>> # x
  BY KeysDiffer
<1>4. \A b \in Addresses : <<"email-ip", b>> \in Gate!Keys /\ <<"email-ip", b>> # y
  BY KeysKnown, KeysDiffer
<1>5. \A b \in Addresses :
        /\ recent[y] \in Seq(Events) /\ recent[<<"email-ip", b>>] \in Seq(Events) /\ guessed[b] \in Seq(Events)
        /\ Within(b, recent[y], recent[<<"email-ip", b>>]) /\ Within(b, guessed[b], recent[<<"email-ip", b>>])
  BY <1>1, <1>4 DEF LogsInv, GuessInv
<1>6. x = <<"email-ip", a>> /\ y = <<"email">>
  OBVIOUS
<1> HIDE DEF x, y
<1>7. CASE ~Gate!Allows(recent, x)
  <2>1. recent' = recent /\ guessed' = guessed
    BY <1>2, <1>7 DEF Gate!hits
  <2> QED BY <2>1 DEF LogsInv, GuessInv
<1>8. ASSUME Gate!Allows(recent, x)
      PROVE  /\ one \in [Gate!Keys -> Seq(Events)]
             /\ \A k \in Gate!Keys : Aged(one[k]) /\ Len(one[k]) <= Gate!Limit(k)
             /\ one[x] = Append(recent[x], Gate!Event(a))
             /\ \A k \in Gate!Keys : k # x => one[k] = recent[k]
  BY <1>1, <1>8, RecordedLogs DEF LogsInv
<1>9. CASE Gate!Allows(recent, x) /\ ~Gate!Allows(recent, y)
  <2>1. recent' = one /\ guessed' = guessed
    BY <1>2, <1>9 DEF Gate!hits
  <2> HIDE DEF one
  <2>2. LogsInv'
    BY <1>8, <1>9, <2>1 DEF LogsInv
  <2>3. ASSUME NEW b \in Addresses
        PROVE  Within(b, recent'[y], recent'[<<"email-ip", b>>]) /\ Within(b, guessed'[b], recent'[<<"email-ip", b>>])
    <3>1. recent'[y] = recent[y]
      BY <1>1, <1>8, <1>9, <2>1
    <3>2. CASE b = a
      <4>1. recent'[<<"email-ip", b>>] = Append(recent[<<"email-ip", b>>], Gate!Event(a))
        BY <1>6, <1>8, <1>9, <2>1, <3>2
      <4> QED BY <1>5, <2>1, <3>1, <4>1, WithinGrows
    <3>3. CASE b # a
      <4>1. recent'[<<"email-ip", b>>] = recent[<<"email-ip", b>>]
        BY <1>3, <1>4, <1>8, <1>9, <2>1, <3>3
      <4> QED BY <1>5, <2>1, <3>1, <4>1
    <3> QED BY <3>2, <3>3
  <2>4. GuessInv'
    BY <1>6, <2>1, <2>3 DEF GuessInv
  <2> QED BY <2>2, <2>4
<1>10. CASE Gate!Allows(recent, x) /\ Gate!Allows(recent, y)
  <2>1. recent' = Gate!Recorded(one, y, a) /\ guessed' = [guessed EXCEPT ![a] = Append(@, Gate!Event(a))]
    BY <1>2, <1>10 DEF Gate!hits
  <2> HIDE DEF one
  <2>2. Gate!Allows(one, y)
    BY <1>1, <1>8, <1>10 DEF Gate!Allows
  <2>3. /\ recent' \in [Gate!Keys -> Seq(Events)]
        /\ \A k \in Gate!Keys : Aged(recent'[k]) /\ Len(recent'[k]) <= Gate!Limit(k)
        /\ recent'[y] = Append(one[y], Gate!Event(a))
        /\ \A k \in Gate!Keys : k # y => recent'[k] = one[k]
    BY <1>1, <1>8, <1>10, <2>1, <2>2, RecordedLogs
  <2>4. LogsInv'
    BY <2>3 DEF LogsInv
  <2>5. recent'[y] = Append(recent[y], Gate!Event(a)) /\ recent'[x] = Append(recent[x], Gate!Event(a))
    BY <1>1, <1>8, <1>10, <2>3
  <2>6. \A b \in Addresses : b # a => recent'[<<"email-ip", b>>] = recent[<<"email-ip", b>>]
    BY <1>3, <1>4, <1>8, <1>10, <2>3
  <2>7. Append(guessed[a], Gate!Event(a)) \in Seq(Events) /\ Aged(Append(guessed[a], Gate!Event(a)))
    BY <1>5, LogGrows DEF GuessInv
  <2>8. \A n \in DOMAIN Append(guessed[a], Gate!Event(a)) : Append(guessed[a], Gate!Event(a))[n].by = a
    <3>1. Gate!Event(a).by = a /\ \A n \in DOMAIN guessed[a] : guessed[a][n].by = a
      BY DEF GuessInv, Gate!Event
    <3>2. guessed[a] \in Seq(Events)
      BY <1>5
    <3> QED BY <3>1, <3>2
  <2> DEFINE more == Append(guessed[a], Gate!Event(a))
  <2> HIDE DEF more
  <2>9. guessed' = [guessed EXCEPT ![a] = more]
    BY <2>1 DEF more
  <2>10. guessed' \in [Addresses -> Seq(Events)] /\ guessed'[a] = more /\ \A b \in Addresses : b # a => guessed'[b] = guessed[b]
    BY <2>7, <2>9 DEF GuessInv, more
  <2>11. \A b \in Addresses : Aged(guessed'[b]) /\ \A n \in DOMAIN guessed'[b] : guessed'[b][n].by = b
    BY <2>7, <2>8, <2>10 DEF GuessInv, more
  <2>12. ASSUME NEW b \in Addresses
         PROVE  Within(b, recent'[y], recent'[<<"email-ip", b>>]) /\ Within(b, guessed'[b], recent'[<<"email-ip", b>>])
    <3>1. CASE b = a
      <4>1. recent'[<<"email-ip", b>>] = Append(recent[<<"email-ip", b>>], Gate!Event(a))
        BY <1>6, <2>5, <3>1
      <4>2. guessed'[b] = Append(guessed[b], Gate!Event(a))
        BY <2>10, <3>1 DEF more
      <4> QED BY <1>5, <2>5, <4>1, <4>2, WithinGrows
    <3>2. CASE b # a
      <4> QED BY <1>5, <2>5, <2>6, <2>10, <3>2, WithinGrows
    <3> QED BY <3>1, <3>2
  <2>13. GuessInv'
    BY <1>6, <2>10, <2>11, <2>12 DEF GuessInv
  <2> QED BY <2>4, <2>13
<1> QED BY <1>7, <1>9, <1>10

\* Clearing keys empties them and leaves the others.
LEMMA ClearedLogs ==
  ASSUME LogsInv, NEW keys
  PROVE  LET new == Gate!Cleared(recent, keys)
         IN /\ new \in [Gate!Keys -> Seq(Events)]
            /\ \A k \in Gate!Keys : Aged(new[k]) /\ Len(new[k]) <= Gate!Limit(k)
            /\ \A k \in Gate!Keys : (\E j \in DOMAIN keys : keys[j] = k) => new[k] = <<>>
            /\ \A k \in Gate!Keys : (\A j \in DOMAIN keys : keys[j] # k) => new[k] = recent[k]
<1> DEFINE new == Gate!Cleared(recent, keys)
<1>1. new = [k \in Gate!Keys |-> IF \E j \in DOMAIN keys : keys[j] = k THEN <<>> ELSE recent[k]]
  BY DEF Gate!Cleared
<1>2. \A k \in Gate!Keys : recent[k] \in Seq(Events)
  BY DEF LogsInv
<1> HIDE DEF new
<1>3. new \in [Gate!Keys -> Seq(Events)]
  BY <1>1, <1>2, NoLog
<1>4. ASSUME NEW k \in Gate!Keys
      PROVE  /\ Aged(new[k]) /\ Len(new[k]) <= Gate!Limit(k)
             /\ (\E j \in DOMAIN keys : keys[j] = k) => new[k] = <<>>
             /\ (\A j \in DOMAIN keys : keys[j] # k) => new[k] = recent[k]
  <2>1. CASE \E j \in DOMAIN keys : keys[j] = k
    <3>1. new[k] = <<>>
      BY <1>1, <2>1
    <3>2. Gate!Limit(k) \in Nat
      BY Limits
    <3> QED BY <2>1, <3>1, <3>2, NoLog
  <2>2. CASE ~\E j \in DOMAIN keys : keys[j] = k
    <3>1. new[k] = recent[k]
      BY <1>1, <2>2
    <3> QED BY <2>2, <3>1 DEF LogsInv
  <2> QED BY <2>1, <2>2
<1> QED BY <1>3, <1>4 DEF new

\* A success: nothing counts against the email, and no guess of this address does.
LEMMA SuccessKeeps ==
  ASSUME LogsInv, GuessInv, NEW a \in Addresses, NEW keys \in {<<>>, Gate!totp_limit_keys},
         Gate!SignedIn(a, keys)
  PROVE  LogsInv' /\ GuessInv'
<1> DEFINE all == keys \o Gate!email_limit_keys(a)
           y == <<"email">>
<1>2. /\ \E j \in DOMAIN all : all[j] = <<"email">>
      /\ \A j \in DOMAIN all : all[j] \in {<<"code">>, <<"day">>, <<"email-ip", a>>, <<"email">>}
  <2> DEFINE K == {<<"code">>, <<"day">>, <<"email-ip", a>>, <<"email">>}
             pair == <<<<"email-ip", a>>, <<"email">>>>
  <2>1. keys \in Seq(K)
    <3> DEFINE codes == <<<<"code">>, <<"day">>>>
    <3>1. codes \in Seq(K) /\ <<>> \in Seq(K)
      OBVIOUS
    <3> HIDE DEF K
    <3> QED BY <3>1 DEF Gate!totp_limit_keys
  <2>2. pair \in Seq(K) /\ Len(pair) = 2 /\ pair[2] = <<"email">>
    OBVIOUS
  <2>3. all = keys \o pair
    BY DEF Gate!email_limit_keys
  <2> HIDE DEF K, pair, all
  <2>4. all \in Seq(K)
    BY <2>1, <2>2, <2>3
  <2>5. Len(keys) \in Nat /\ Len(all) = Len(keys) + 2 /\ all[Len(keys) + 2] = pair[2]
    <3>0. Len(keys) \in Nat
      BY <2>1
    <3>1. Len(all) = Len(keys) + Len(pair)
      BY <2>1, <2>2, <2>3, ConcatProperties
    <3>2. \A n \in 1 .. Len(keys) + Len(pair) : all[n] = IF n <= Len(keys) THEN keys[n] ELSE pair[n - Len(keys)]
      BY <2>1, <2>2, <2>3, ConcatProperties
    <3>3. Len(keys) + 2 \in 1 .. Len(keys) + Len(pair) /\ ~(Len(keys) + 2 <= Len(keys)) /\ (Len(keys) + 2) - Len(keys) = 2
      BY <2>2, <3>0, <3>1
    <3> QED BY <2>2, <3>0, <3>1, <3>2, <3>3
  <2>6. Len(keys) + 2 \in DOMAIN all
    BY <2>4, <2>5
  <2>7. \A j \in DOMAIN all : all[j] \in K
    BY <2>4, ElementOfSeq
  <2> QED BY <2>2, <2>5, <2>6, <2>7 DEF K
<1>3. recent' = Gate!Cleared(recent, all) /\ guessed' = [guessed EXCEPT ![a] = <<>>]
  BY DEF Gate!SignedIn
<1> HIDE DEF all
<1>4. /\ recent' \in [Gate!Keys -> Seq(Events)]
      /\ \A k \in Gate!Keys : Aged(recent'[k]) /\ Len(recent'[k]) <= Gate!Limit(k)
      /\ \A k \in Gate!Keys : (\E j \in DOMAIN all : all[j] = k) => recent'[k] = <<>>
      /\ \A k \in Gate!Keys : (\A j \in DOMAIN all : all[j] # k) => recent'[k] = recent[k]
  BY <1>3, ClearedLogs
<1>5. LogsInv'
  BY <1>4 DEF LogsInv
<1>6. recent'[y] = <<>>
  BY <1>2, <1>4, KeysKnown
<1>7. ASSUME NEW b \in Addresses, b # a
      PROVE  recent'[<<"email-ip", b>>] = recent[<<"email-ip", b>>]
  <2>1. <<"email-ip", b>> # <<"email-ip", a>> /\ <<"email-ip", b>> # <<"email">>
    BY <1>7, KeysDiffer
  <2>2. <<"email-ip", b>> # <<"code">> /\ <<"email-ip", b>> # <<"day">>
    OBVIOUS
  <2>3. \A j \in DOMAIN all : all[j] # <<"email-ip", b>>
    BY <1>2, <2>1, <2>2
  <2> QED BY <1>4, <2>3, KeysKnown
<1>8. guessed' \in [Addresses -> Seq(Events)] /\ guessed'[a] = <<>> /\ \A b \in Addresses : b # a => guessed'[b] = guessed[b]
  BY <1>3 DEF GuessInv
<1>9. ASSUME NEW b \in Addresses
      PROVE  Aged(guessed'[b]) /\ \A n \in DOMAIN guessed'[b] : guessed'[b][n].by = b
  <2>1. CASE b = a
    <3>1. guessed'[b] = <<>> /\ DOMAIN <<>> = {}
      BY <1>8, <2>1
    <3> QED BY <3>1, NoLog
  <2>2. CASE b # a
    BY <1>8, <2>2 DEF GuessInv
  <2> QED BY <2>1, <2>2
<1>10. \A b \in Addresses : Within(b, recent'[y], recent'[<<"email-ip", b>>])
  BY <1>6, NothingWithin
<1>11. \A b \in Addresses : Within(b, guessed'[b], recent'[<<"email-ip", b>>])
  BY <1>7, <1>8, NothingWithin, ZenonT(30) DEF GuessInv
<1>12. GuessInv'
  BY <1>8, <1>9, <1>10, <1>11 DEF GuessInv
<1> QED BY <1>5, <1>12

LEMMA ReauthKeeps ==
  ASSUME LogsInv, GuessInv, recent' = Gate!Cleared(recent, <<<<"reauth">>>>), UNCHANGED guessed
  PROVE  LogsInv' /\ GuessInv'
<1> DEFINE all == <<<<"reauth">>>>
<1>1. \A j \in DOMAIN all : all[j] = <<"reauth">>
  OBVIOUS
<1> HIDE DEF all
<1>2. /\ recent' \in [Gate!Keys -> Seq(Events)]
      /\ \A k \in Gate!Keys : Aged(recent'[k]) /\ Len(recent'[k]) <= Gate!Limit(k)
      /\ \A k \in Gate!Keys : (\A j \in DOMAIN all : all[j] # k) => recent'[k] = recent[k]
  BY ClearedLogs DEF all
<1>3. LogsInv'
  BY <1>2 DEF LogsInv
<1>4. <<"reauth">> # <<"email">> /\ \A b \in Addresses : <<"reauth">> # <<"email-ip", b>>
  OBVIOUS
<1>5. /\ recent'[<<"email">>] = recent[<<"email">>]
      /\ \A b \in Addresses : recent'[<<"email-ip", b>>] = recent[<<"email-ip", b>>]
  BY <1>1, <1>2, <1>4, KeysKnown
<1>6. GuessInv'
  BY <1>5 DEF GuessInv
<1> QED BY <1>3, <1>6

LEMMA TickKeeps == LogsInv /\ GuessInv /\ Gate!Tick => LogsInv' /\ GuessInv'
<1> SUFFICES ASSUME LogsInv, GuessInv, Gate!Tick PROVE LogsInv' /\ GuessInv'
  OBVIOUS
<1> DEFINE window(k) == IF k = <<"day">> THEN Day ELSE Window
           y == <<"email">>
<1>1. \A k : window(k) \in Nat /\ Window \in Nat
  BY Limits
<1>2. recent' = [k \in Gate!Keys |-> Gate!older(recent[k], window(k))]
  BY DEF Gate!Tick
<1>3. guessed' = [a \in Addresses |-> Gate!older(guessed[a], Window)]
  BY DEF Gate!Tick
<1>4. y \in Gate!Keys /\ window(y) = Window
  BY KeysKnown
<1>5. \A a \in Addresses : <<"email-ip", a>> \in Gate!Keys /\ window(<<"email-ip", a>>) = Window
  BY KeysKnown
<1>12. y = <<"email">>
  OBVIOUS
<1> HIDE DEF window, y
<1>6. ASSUME NEW k \in Gate!Keys
      PROVE  Gate!older(recent[k], window(k)) \in Seq(Events) /\ Aged(recent'[k]) /\ Len(recent'[k]) <= Gate!Limit(k)
  <2>1. recent[k] \in Seq(Events) /\ Aged(recent[k]) /\ Len(recent[k]) <= Gate!Limit(k) /\ Len(recent[k]) \in Nat
    BY DEF LogsInv
  <2>2. recent'[k] = Gate!older(recent[k], window(k))
    BY <1>2
  <2>3. /\ Gate!expired(recent[k], window(k)) \in 0 .. Len(recent[k])
        /\ recent'[k] \in Seq(Events) /\ Aged(recent'[k])
        /\ Len(recent'[k]) = Len(recent[k]) - Gate!expired(recent[k], window(k))
    <3> DEFINE w == window(k)
    <3>1. w \in Nat /\ recent'[k] = Gate!older(recent[k], w)
      BY <1>1, <2>2
    <3> HIDE DEF w
    <3>2. /\ Gate!expired(recent[k], w) \in 0 .. Len(recent[k])
          /\ recent'[k] \in Seq(Events) /\ Aged(recent'[k])
          /\ Len(recent'[k]) = Len(recent[k]) - Gate!expired(recent[k], w)
      BY <2>1, <3>1, LogAges
    <3> QED BY <3>2 DEF w
  <2> QED BY <2>1, <2>2, <2>3, Limits
<1>7. LogsInv'
  BY <1>2, <1>6 DEF LogsInv
<1>8. ASSUME NEW a \in Addresses
      PROVE  /\ Gate!older(guessed[a], Window) \in Seq(Events) /\ Aged(guessed'[a])
             /\ \A n \in DOMAIN guessed'[a] : guessed'[a][n].by = a
  <2>1. guessed[a] \in Seq(Events) /\ Aged(guessed[a]) /\ \A n \in DOMAIN guessed[a] : guessed[a][n].by = a
    BY DEF GuessInv
  <2>2. guessed'[a] = Gate!older(guessed[a], Window)
    BY <1>3
  <2> DEFINE gone == Gate!expired(guessed[a], Window)
  <2>3. /\ gone \in 0 .. Len(guessed[a])
        /\ guessed'[a] \in Seq(Events) /\ Aged(guessed'[a])
        /\ Len(guessed'[a]) = Len(guessed[a]) - gone
        /\ \A n \in 1 .. Len(guessed[a]) - gone : guessed'[a][n].by = guessed[a][n + gone].by
    BY <1>1, <2>1, <2>2, LogAges
  <2> HIDE DEF gone
  <2>4. \A n \in 1 .. Len(guessed[a]) - gone : n + gone \in DOMAIN guessed[a]
    BY <2>1, <2>3
  <2>5. DOMAIN guessed'[a] = 1 .. Len(guessed[a]) - gone
    BY <2>3
  <2> QED BY <2>1, <2>2, <2>3, <2>4, <2>5
<1>9. ASSUME NEW a \in Addresses
      PROVE  Within(a, recent'[y], recent'[<<"email-ip", a>>]) /\ Within(a, guessed'[a], recent'[<<"email-ip", a>>])
  <2>1. /\ recent'[y] = Gate!older(recent[y], Window)
        /\ recent'[<<"email-ip", a>>] = Gate!older(recent[<<"email-ip", a>>], Window)
        /\ guessed'[a] = Gate!older(guessed[a], Window)
    BY <1>2, <1>3, <1>4, <1>5
  <2>2. /\ recent[y] \in Seq(Events) /\ Aged(recent[y]) /\ guessed[a] \in Seq(Events) /\ Aged(guessed[a])
        /\ recent[<<"email-ip", a>>] \in Seq(Events) /\ Aged(recent[<<"email-ip", a>>])
        /\ Within(a, recent[y], recent[<<"email-ip", a>>]) /\ Within(a, guessed[a], recent[<<"email-ip", a>>])
    BY <1>4, <1>5, <1>12 DEF LogsInv, GuessInv
  <2> QED BY <1>1, <2>1, <2>2, WithinAges
<1>10. guessed' \in [Addresses -> Seq(Events)]
  BY <1>3, <1>8
<1>11. GuessInv'
  BY <1>8, <1>9, <1>10, <1>12 DEF GuessInv
<1> QED BY <1>7, <1>11

-------------------------------------------------------------------------------
(* Slots.                                                                    *)

LEMMA ChecksKnown ==
  ASSUME NEW count
  PROVE  \A c : c \in Gate!Checks(count) <=>
           \E t \in Gate!Going : t.at = "checking" /\ \E n \in 1 .. count[t] : c = <<t, n>>
  BY DEF Gate!Checks, Gate!Each

\* One more attempt, and one less.
LEMMA ChecksGrow ==
  ASSUME NEW count, Counts(count), IsFiniteSet(Gate!Checks(count)),
         NEW x \in Gate!Going, ~(x.at = "checking" /\ x.kind = "code")
  PROVE  LET more == Gate!Joined(count, x)
         IN /\ Counts(more) /\ IsFiniteSet(Gate!Checks(more))
            /\ Cardinality(Gate!Checks(more)) = Cardinality(Gate!Checks(count)) + IF x.at = "checking" THEN 1 ELSE 0
<1> DEFINE more == Gate!Joined(count, x)
           last == count[x] + 1
<1>1. count \in [Gate!Going -> Nat] /\ last \in Nat \ {0} /\ count[x] \in Nat
  BY DEF Counts
<1>2. \A n \in 1 .. last : n = last \/ n \in 1 .. count[x]
  BY <1>1
<1>3. \A n \in 1 .. count[x] : n \in 1 .. last /\ n # last
  BY <1>1
<1>4. more \in [Gate!Going -> Nat] /\ more[x] = last /\ \A t \in Gate!Going : t # x => more[t] = count[t]
  BY <1>1 DEF Gate!Joined
<1>5. last \in 1 .. last
  BY <1>1
<1> HIDE DEF more, last
<1>6. Counts(more)
  BY <1>4 DEF Counts
<1>7. CASE x.at = "checking"
  <2>1. ASSUME NEW c
        PROVE  c \in Gate!Checks(more) <=> c \in Gate!Checks(count) \cup {<<x, last>>}
    <3>1. ASSUME c \in Gate!Checks(more) PROVE c \in Gate!Checks(count) \cup {<<x, last>>}
      <4>1. PICK t \in Gate!Going : t.at = "checking" /\ \E n \in 1 .. more[t] : c = <<t, n>>
        BY <3>1, ChecksKnown
      <4>2. CASE t = x
        BY <1>2, <1>4, <4>1, <4>2, ChecksKnown
      <4>3. CASE t # x
        BY <1>4, <4>1, <4>3, ChecksKnown
      <4> QED BY <4>2, <4>3
    <3>2. ASSUME c \in Gate!Checks(count) PROVE c \in Gate!Checks(more)
      <4>1. PICK t \in Gate!Going : t.at = "checking" /\ \E n \in 1 .. count[t] : c = <<t, n>>
        BY <3>2, ChecksKnown
      <4>2. CASE t = x
        BY <1>3, <1>4, <4>1, <4>2, ChecksKnown
      <4>3. CASE t # x
        BY <1>4, <4>1, <4>3, ChecksKnown
      <4> QED BY <4>2, <4>3
    <3>3. <<x, last>> \in Gate!Checks(more)
      BY <1>4, <1>5, <1>7, ChecksKnown
    <3> QED BY <3>1, <3>2, <3>3
  <2>2. Gate!Checks(more) = Gate!Checks(count) \cup {<<x, last>>}
    BY <2>1
  <2>3. <<x, last>> \notin Gate!Checks(count)
    BY <1>3, ChecksKnown
  <2>4. IsFiniteSet(Gate!Checks(more)) /\ Cardinality(Gate!Checks(more)) = Cardinality(Gate!Checks(count)) + 1
    BY <2>2, <2>3, FS_AddElement
  <2> QED BY <1>6, <1>7, <2>4 DEF more
<1>8. CASE x.at # "checking"
  <2>1. \A t \in Gate!Going : t.at = "checking" => more[t] = count[t]
    BY <1>4, <1>8
  <2>2. \A c : c \in Gate!Checks(more) <=> c \in Gate!Checks(count)
    BY <2>1, ChecksKnown
  <2>3. Gate!Checks(more) = Gate!Checks(count)
    BY <2>2
  <2>4. Cardinality(Gate!Checks(count)) \in Nat
    BY FS_CardinalityType
  <2>5. Cardinality(Gate!Checks(more)) = Cardinality(Gate!Checks(count)) + 0
    BY <2>3, <2>4
  <2> QED BY <1>6, <1>8, <2>3, <2>5 DEF more
<1> QED BY <1>7, <1>8

LEMMA ChecksShrink ==
  ASSUME NEW count, Counts(count), IsFiniteSet(Gate!Checks(count)), NEW x \in Gate!Going, count[x] > 0
  PROVE  LET less == [count EXCEPT ![x] = @ - 1]
         IN /\ Counts(less) /\ IsFiniteSet(Gate!Checks(less))
            /\ Cardinality(Gate!Checks(count)) = Cardinality(Gate!Checks(less)) + IF x.at = "checking" THEN 1 ELSE 0
<1> DEFINE less == [count EXCEPT ![x] = @ - 1]
<1>1. count \in [Gate!Going -> Nat] /\ less \in [Gate!Going -> Nat] /\ less[x] = count[x] - 1
  BY DEF Counts
<1>2. \A t \in Gate!Going : t # x => less[t] = count[t]
  BY <1>1
<1> HIDE DEF less
<1>3. ~(x.at = "checking" /\ x.kind = "code")
  BY <1>1 DEF Counts
<1>4. Counts(less)
  BY <1>1, <1>2, <1>3 DEF Counts
<1> DEFINE back == Gate!Joined(less, x)
<1>5. back = count
  <2>1. back \in [Gate!Going -> Nat] /\ back[x] = count[x] /\ \A t \in Gate!Going : t # x => back[t] = count[t]
    BY <1>1, <1>2 DEF Gate!Joined
  <2> HIDE DEF back
  <2>2. \A t \in Gate!Going : back[t] = count[t]
    BY <2>1
  <2> QED BY <1>1, <2>1, <2>2
<1>6. IsFiniteSet(Gate!Checks(less))
  <2>1. \A t \in Gate!Going : \A n \in 1 .. less[t] : n \in 1 .. count[t]
    <3>1. \A n \in 1 .. less[x] : n \in 1 .. count[x]
      BY <1>1
    <3> QED BY <1>2, <3>1
  <2>2. Gate!Checks(less) \subseteq Gate!Checks(count)
    BY <2>1, ChecksKnown
  <2> QED BY <2>2, FS_Subset
<1>7. Cardinality(Gate!Checks(back)) = Cardinality(Gate!Checks(less)) + IF x.at = "checking" THEN 1 ELSE 0
  BY <1>3, <1>4, <1>6, ChecksGrow
<1> QED BY <1>4, <1>5, <1>6, <1>7 DEF less

LEMMA PlacedFinite ==
  ASSUME NEW q \in Seq(Waiters), NEW place
  PROVE  IsFiniteSet(Gate!Placed(q, place)) /\ Cardinality(Gate!Placed(q, place)) \in Nat
<1>1. Len(q) \in Nat /\ DOMAIN q = 1 .. Len(q)
  OBVIOUS
<1>2. IsFiniteSet(1 .. Len(q))
  BY <1>1, FS_Interval
<1>3. Gate!Placed(q, place) \in SUBSET (1 .. Len(q))
  BY <1>1 DEF Gate!Placed
<1>4. IsFiniteSet(Gate!Placed(q, place))
  BY <1>2, <1>3, FS_Subset
<1> QED BY <1>4, FS_CardinalityType

\* One leaves the queue: the others keep their order.
LEMMA LeavesQueue ==
  ASSUME NEW q \in Seq(Waiters), NEW n \in DOMAIN q
  PROVE  LET rest == Gate!without(q, n)
         IN /\ rest \in Seq(Waiters)
            /\ Cardinality(Gate!Placed(q, "woken")) =
                 Cardinality(Gate!Placed(rest, "woken")) + IF q[n].at = "woken" THEN 1 ELSE 0
<1> DEFINE rest == Gate!without(q, n)
           place(m) == IF m < n THEN m ELSE m + 1
<1>1. Len(q) \in Nat /\ DOMAIN q = 1 .. Len(q) /\ n \in 1 .. Len(q) /\ \A m \in 1 .. Len(q) : q[m] \in Waiters
  BY ElementOfSeq
<1>2. rest = [m \in 1 .. Len(q) - 1 |-> IF m < n THEN q[m] ELSE q[m + 1]]
  BY DEF Gate!without
<1> HIDE DEF rest
<1>3. Len(q) - 1 \in Nat /\ \A m \in 1 .. Len(q) - 1 : m \in 1 .. Len(q) /\ m + 1 \in 1 .. Len(q)
  BY <1>1
<1>4. \A m \in 1 .. Len(q) - 1 : (IF m < n THEN q[m] ELSE q[m + 1]) \in Waiters
  BY <1>1, <1>3
<1>5. rest \in Seq(Waiters)
  BY <1>2, <1>3, <1>4
<1>8. DOMAIN rest = 1 .. Len(q) - 1
  BY <1>2
<1>9. ASSUME NEW m \in 1 .. Len(q) - 1
      PROVE  place(m) \in 1 .. Len(q) /\ place(m) # n /\ rest[m] = q[place(m)]
  BY <1>1, <1>2
<1> DEFINE A == Gate!Placed(rest, "woken")
           B == Gate!Placed(q, "woken") \ {n}
           g == [m \in A |-> place(m)]
<1>10. \A m \in A : m \in 1 .. Len(q) - 1 /\ place(m) \in B
  BY <1>1, <1>8, <1>9 DEF Gate!Placed
<1>11. \A i, j \in A : g[i] = g[j] => i = j
  BY <1>1, <1>10
<1>12. ASSUME NEW k \in B PROVE \E m \in A : g[m] = k
  <2>1. k \in 1 .. Len(q) /\ k # n /\ q[k].at = "woken"
    BY <1>1 DEF Gate!Placed
  <2> DEFINE m == IF k < n THEN k ELSE k - 1
  <2>2. m \in 1 .. Len(q) - 1 /\ place(m) = k
    BY <1>1, <2>1
  <2>3. m \in A
    BY <1>8, <1>9, <2>1, <2>2 DEF Gate!Placed
  <2> QED BY <2>2, <2>3
<1>13. g \in Bijection(A, B)
  <2>1. g \in [A -> B]
    BY <1>10
  <2> HIDE DEF A, B, g
  <2> QED BY <1>11, <1>12, <2>1 DEF Bijection, Injection, IsInjective, Surjection
<1>14. IsFiniteSet(A) /\ Cardinality(A) \in Nat /\ IsFiniteSet(Gate!Placed(q, "woken")) /\ Cardinality(Gate!Placed(q, "woken")) \in Nat
  BY <1>5, PlacedFinite
<1>15. Cardinality(B) = Cardinality(A)
  <2> HIDE DEF A, B, g
  <2>1. ExistsBijection(A, B)
    BY <1>13 DEF ExistsBijection
  <2> QED BY <1>14, <2>1, FS_Bijection
<1>16. n \in Gate!Placed(q, "woken") <=> q[n].at = "woken"
  BY DEF Gate!Placed
<1>17. Cardinality(B) = IF n \in Gate!Placed(q, "woken") THEN Cardinality(Gate!Placed(q, "woken")) - 1
                        ELSE Cardinality(Gate!Placed(q, "woken"))
  BY <1>14, FS_RemoveElement
<1>18. Cardinality(Gate!Placed(q, "woken")) = Cardinality(A) + IF q[n].at = "woken" THEN 1 ELSE 0
  <2> HIDE DEF A, B
  <2> QED BY <1>14, <1>15, <1>16, <1>17
<1> QED BY <1>5, <1>18 DEF rest

\* The first that wait are called, as many as there may be.
LEMMA WakesUp ==
  ASSUME NEW q \in Seq(Waiters), NEW value \in Nat, NEW most \in Nat, most <= value, most = 0 => value = 0,
         Gate!wakeUp(value, most, q)
  PROVE  /\ queue' \in Seq(Waiters) /\ free' \in Nat
         /\ free' + Cardinality(Gate!Placed(queue', "woken")) = value + Cardinality(Gate!Placed(q, "woken"))
         /\ free' > 0 /\ Gate!Placed(queue', "waiting") # {} => Gate!Placed(queue', "woken") # {}
<1> DEFINE C == Gate!called(q, most)
           W == Gate!Placed(q, "waiting")
           R == Gate!Placed(q, "woken")
<1>1. Len(q) \in Nat /\ DOMAIN q = 1 .. Len(q) /\ \A m \in 1 .. Len(q) : q[m] \in Waiters
  BY ElementOfSeq
<1>2. queue' = [n \in DOMAIN q |-> IF n \in C THEN Gate!At("woken", q[n]) ELSE q[n]] /\ free' = value - Cardinality(C)
  BY Counted DEF Gate!wakeUp
<1>3. W = Gate!waiting(q, Len(q)) /\ C \subseteq W /\ W \subseteq 1 .. Len(q)
  BY <1>1 DEF Gate!called, Gate!waiting, Gate!Placed
<1>4. IsFiniteSet(W) /\ IsFiniteSet(R) /\ Cardinality(R) \in Nat
  BY PlacedFinite
<1>5. IsFiniteSet(C) /\ Cardinality(C) \in Nat
  BY <1>3, <1>4, FS_Subset, FS_CardinalityType
<1>6. \A n \in C : Cardinality(Gate!waiting(q, n)) <= most
  BY Counted DEF Gate!called
<1>7. \A n \in W : Cardinality(Gate!waiting(q, n)) <= most => n \in C
  BY <1>3, Counted DEF Gate!called
<1>8. \A m, n \in W : m <= n => m \in Gate!waiting(q, n)
  BY <1>1 DEF Gate!Placed, Gate!waiting
<1>9. \A n \in W : \A m \in Gate!waiting(q, n) : m \in W /\ m <= n
  BY <1>1 DEF Gate!Placed, Gate!waiting
<1>10. W \cap R = {}
  BY DEF Gate!Placed
<1>11. \A n \in 1 .. Len(q) : n \in W <=> q[n].at = "waiting"
  BY <1>1 DEF Gate!Placed
<1>12. \A n \in 1 .. Len(q) : n \in R <=> q[n].at = "woken"
  BY <1>1 DEF Gate!Placed
<1>13. W \subseteq 1 .. Len(q) /\ R \subseteq 1 .. Len(q)
  BY <1>1 DEF Gate!Placed
<1> HIDE DEF C, W, R
<1>14. Cardinality(C) <= most
  <2>1. CASE C = {}
    BY <2>1, FS_EmptySet
  <2>2. CASE C # {}
    <3>1. C \in SUBSET (0 .. Len(q))
      BY <1>1, <1>3
    <3>2. PICK m \in C : \A n \in C : n <= m
      BY <1>1, <2>2, <3>1, Greatest
    <3>3. C \subseteq Gate!waiting(q, m)
      BY <1>3, <1>8, <3>2
    <3>4. IsFiniteSet(Gate!waiting(q, m))
      <4>1. Gate!waiting(q, m) \subseteq W
        BY <1>3, <1>9
      <4> QED BY <1>4, <4>1, FS_Subset
    <3>5. Cardinality(C) <= Cardinality(Gate!waiting(q, m)) /\ Cardinality(Gate!waiting(q, m)) \in Nat
      BY <3>3, <3>4, FS_Subset, FS_CardinalityType
    <3> QED BY <1>5, <1>6, <3>2, <3>5
  <2> QED BY <2>1, <2>2
<1>15. ASSUME W # {}, most # 0 PROVE C # {}
  <2>1. W \in SUBSET Nat
    BY <1>13
  <2>2. PICK m \in W : \A n \in W : m <= n
    BY <1>15, <2>1, Least
  <2>3. m \in Nat /\ \A n \in Gate!waiting(q, m) : n \in Nat /\ n <= m /\ m <= n
    BY <1>9, <2>1, <2>2
  <2>4. m \in Gate!waiting(q, m)
    BY <1>8, <2>2, <2>3
  <2>5. Gate!waiting(q, m) = {m}
    BY <2>3, <2>4
  <2>6. Cardinality(Gate!waiting(q, m)) = 1
    BY <2>5, FS_Singleton
  <2>7. m \in C
    BY <1>7, <1>15, <2>2, <2>6
  <2> QED BY <2>7
<1>16. free' \in Nat
  BY <1>2, <1>5, <1>14
<1>17. ASSUME NEW n \in 1 .. Len(q)
       PROVE  queue'[n] \in Waiters /\ queue'[n].at = IF n \in C THEN "woken" ELSE q[n].at
  <2>1. q[n] \in Waiters /\ queue'[n] = IF n \in C THEN Gate!At("woken", q[n]) ELSE q[n]
    BY <1>1, <1>2
  <2>2. CASE n \in C
    <3>1. queue'[n] = [q[n] EXCEPT !.at = "woken"]
      BY <2>1, <2>2 DEF Gate!At
    <3> QED BY <2>1, <2>2, <3>1 DEF Waiters, Gate!Waiters
  <2>3. CASE n \notin C
    BY <2>1, <2>3
  <2> QED BY <2>2, <2>3
<1>18. queue' \in Seq(Waiters) /\ DOMAIN queue' = 1 .. Len(q)
  BY <1>1, <1>2, <1>17
<1>19. \A n : n \in Gate!Placed(queue', "woken") <=> n \in R \cup C
  BY <1>3, <1>12, <1>13, <1>17, <1>18 DEF Gate!Placed
<1>20. Gate!Placed(queue', "woken") = R \cup C
  BY <1>19
<1>21. R \cap C = {}
  BY <1>3, <1>10
<1>22. Cardinality(R \cup C) = Cardinality(R) + Cardinality(C)
  <2>1. Cardinality(R \cup C) = Cardinality(R) + Cardinality(C) - Cardinality(R \cap C)
    BY <1>4, <1>5, FS_Union
  <2>2. Cardinality(R \cap C) = 0
    BY <1>21, FS_EmptySet
  <2> QED BY <1>4, <1>5, <2>1, <2>2
<1>23. free' + Cardinality(Gate!Placed(queue', "woken")) = value + Cardinality(R)
  <2>1. Cardinality(Gate!Placed(queue', "woken")) = Cardinality(R) + Cardinality(C)
    BY <1>20, <1>22
  <2>2. free' = value - Cardinality(C)
    BY <1>2
  <2> QED BY <1>4, <1>5, <2>1, <2>2
<1>24. ASSUME free' > 0, Gate!Placed(queue', "waiting") # {} PROVE Gate!Placed(queue', "woken") # {}
  <2>1. W # {}
    BY <1>11, <1>17, <1>18, <1>24 DEF Gate!Placed
  <2>2. most # 0
    BY <1>2, <1>5, <1>24
  <2> QED BY <1>15, <1>20, <2>1, <2>2
<1> QED BY <1>16, <1>18, <1>23, <1>24 DEF R

-------------------------------------------------------------------------------
(* The steps.                                                                *)

LEMMA AttemptsInit == Gate!Init => AttemptsInv
<1> SUFFICES ASSUME Gate!Init PROVE AttemptsInv
  OBVIOUS
<1>1. recent = [k \in Gate!Keys |-> <<>>] /\ guessed = [a \in Addresses |-> <<>>]
  BY DEF Gate!Init
<1>2. /\ recent \in [Gate!Keys -> Seq(Events)] /\ \A k \in Gate!Keys : recent[k] = <<>>
      /\ guessed \in [Addresses -> Seq(Events)] /\ \A a \in Addresses : guessed[a] = <<>>
  BY <1>1, NoLog
<1>3. LogsInv
  BY <1>2, NoLog, Limits DEF LogsInv
<1>4. DOMAIN <<>> = {}
  OBVIOUS
<1>5. GuessInv
  <2>1. \A a \in Addresses : Aged(guessed[a]) /\ \A n \in DOMAIN guessed[a] : guessed[a][n].by = a
    BY <1>2, <1>4, NoLog
  <2>2. \A a \in Addresses : Within(a, recent[<<"email">>], recent[<<"email-ip", a>>])
    BY <1>2, KeysKnown, NothingWithin
  <2>3. \A a \in Addresses : Within(a, guessed[a], recent[<<"email-ip", a>>])
    BY <1>2, NothingWithin
  <2> QED BY <1>2, <2>1, <2>2, <2>3 DEF GuessInv
<1>6. /\ tries = [t \in Gate!Going |-> 0] /\ free = Slots /\ queue = <<>>
      /\ halfway = FALSE /\ second \in BOOLEAN
  BY DEF Gate!Init
<1>10. Counts(tries) /\ \A t \in Gate!Going : tries[t] = 0
  BY <1>6 DEF Counts
<1>7. TriesInv
  <2>1. free \in Nat /\ queue \in Seq(Waiters)
    BY <1>6, Limits
  <2>2. halfway \in BOOLEAN
    BY <1>6, Zenon
  <2> QED BY <1>6, <1>10, <2>1, <2>2, Zenon DEF TriesInv
<1>8. Gate!Checks(tries) = {} /\ Gate!Placed(queue, "woken") = {} /\ Gate!Placed(queue, "waiting") = {}
  <2>1. \A c : c \notin Gate!Checks(tries)
    BY <1>10, ChecksKnown
  <2> QED BY <1>4, <1>6, <2>1 DEF Gate!Placed
<1>9. SlotsInv
  <2>1. Cardinality({}) = 0 /\ IsFiniteSet({})
    BY FS_EmptySet
  <2>2. Slots + 0 + 0 = Slots
    BY Limits
  <2>3. Gate!SlotsKept
    BY <1>6, <1>8, <2>1, <2>2, Counted DEF Gate!SlotsKept
  <2> QED BY <1>8, <2>1, <2>3 DEF SlotsInv
<1> QED BY <1>3, <1>5, <1>7, <1>9 DEF AttemptsInv

\* What a step of the attempts needs to keep.
Kept(bag, value, q) ==
  /\ Counts(bag) /\ q \in Seq(Waiters) /\ value \in Nat
  /\ IsFiniteSet(Gate!Checks(bag))
  /\ value + Cardinality(Gate!Checks(bag)) + Cardinality(Gate!Placed(q, "woken")) = Slots
  /\ value > 0 /\ Gate!Placed(q, "waiting") # {} => Gate!Placed(q, "woken") # {}

LEMMA KeptIs ==
  /\ TriesInv /\ SlotsInv => Kept(tries, free, queue) /\ second \in BOOLEAN /\ halfway \in BOOLEAN
  /\ Kept(tries', free', queue') /\ second' \in BOOLEAN /\ halfway' \in BOOLEAN => TriesInv' /\ SlotsInv'
<1>1. TriesInv /\ SlotsInv => Kept(tries, free, queue) /\ second \in BOOLEAN /\ halfway \in BOOLEAN
  BY Counted, Zenon DEF TriesInv, SlotsInv, Kept, Gate!SlotsKept
<1>2. Kept(tries', free', queue') => Gate!SlotsKept'
  BY Counted DEF Kept, Gate!SlotsKept
<1>3. Kept(tries', free', queue') /\ second' \in BOOLEAN /\ halfway' \in BOOLEAN => TriesInv' /\ SlotsInv'
  BY <1>2, Zenon DEF TriesInv, SlotsInv, Kept
<1> QED BY <1>1, <1>3

LEMMA AtKnown ==
  ASSUME NEW t \in Tried, NEW place \in {"asking", "checking", "code", "waiting", "woken"}
  PROVE  /\ Gate!At(place, t).at = place /\ Gate!At(place, t).kind = t.kind /\ Gate!At(place, t).by = t.by
         /\ place \notin {"waiting", "woken"} => Gate!At(place, t) \in Gate!Going
         /\ place \in {"waiting", "woken"} => Gate!At(place, t) \in Gate!Waiters
  BY DEF Gate!At, Tried, Gate!Going, Gate!Waiters

LEMMA TriedKnown ==
  /\ Gate!Going \subseteq Tried /\ Gate!Waiters \subseteq Tried /\ Waiters \subseteq Gate!Waiters
  /\ \A t \in Gate!UnderWay : t \in Gate!Going /\ tries[t] > 0
  BY DEF Gate!Going, Gate!Waiters, Tried, Waiters, Gate!UnderWay

\* An attempt takes a slot, or its place in the queue.
LEMMA AcquireKeeps ==
  ASSUME Kept(tries, free, queue), NEW others, Kept(others, free, queue), NEW t \in Tried, t.kind # "code",
         Gate!acquire(t, others)
  PROVE  Kept(tries', free', queue')
<1>1. CASE free > 0 /\ queue = <<>>
  <2> DEFINE u == Gate!At("checking", t)
  <2>1. tries' = Gate!Joined(others, u) /\ free' = free - 1 /\ queue' = queue
    BY <1>1 DEF Gate!acquire
  <2>2. u \in Gate!Going /\ u.at = "checking" /\ u.kind # "code"
    BY AtKnown
  <2> HIDE DEF u
  <2>3. Counts(others) /\ IsFiniteSet(Gate!Checks(others))
    BY DEF Kept
  <2>4. /\ Counts(tries') /\ IsFiniteSet(Gate!Checks(tries'))
        /\ Cardinality(Gate!Checks(tries')) = Cardinality(Gate!Checks(others)) + 1
    BY <2>1, <2>2, <2>3, ChecksGrow
  <2>5. /\ Cardinality(Gate!Checks(others)) \in Nat /\ Cardinality(Gate!Placed(queue, "woken")) \in Nat
        /\ free \in Nat /\ free + Cardinality(Gate!Checks(others)) + Cardinality(Gate!Placed(queue, "woken")) = Slots
    BY <2>3, FS_CardinalityType, PlacedFinite DEF Kept
  <2>6. free' \in Nat /\ free' + Cardinality(Gate!Checks(tries')) + Cardinality(Gate!Placed(queue', "woken")) = Slots
    <3>1. Cardinality(Gate!Placed(queue', "woken")) = Cardinality(Gate!Placed(queue, "woken"))
      BY <2>1
    <3> QED BY <1>1, <2>1, <2>4, <2>5, <3>1, Limits
  <2>7. Gate!Placed(queue', "waiting") = {}
    BY <1>1, <2>1 DEF Gate!Placed
  <2> QED BY <2>1, <2>2, <2>3, <2>4, <2>6, <2>7 DEF Kept
<1>2. CASE ~(free > 0 /\ queue = <<>>)
  <2> DEFINE u == Gate!At("waiting", t)
  <2>1. tries' = others /\ free' = free /\ queue' = Append(queue, u)
    BY <1>2 DEF Gate!acquire
  <2>2. u \in Waiters /\ u.at = "waiting"
    BY AtKnown DEF Waiters
  <2> HIDE DEF u
  <2>3. queue \in Seq(Waiters) /\ Len(queue) \in Nat /\ DOMAIN queue = 1 .. Len(queue)
    BY DEF Kept
  <2>4. /\ queue' \in Seq(Waiters) /\ DOMAIN queue' = 1 .. Len(queue) + 1
        /\ queue'[Len(queue) + 1] = u /\ \A n \in 1 .. Len(queue) : queue'[n] = queue[n]
    BY <2>1, <2>2, <2>3
  <2>5. Gate!Placed(queue', "woken") = Gate!Placed(queue, "woken")
    BY <2>2, <2>3, <2>4 DEF Gate!Placed
  <2>6. ASSUME free > 0 PROVE Gate!Placed(queue, "woken") # {}
    <3>1. queue # <<>>
      BY <1>2, <2>6
    <3>2. 1 \in DOMAIN queue
      BY <2>3, <3>1
    <3>3. queue[1].at = "waiting" \/ queue[1].at = "woken"
      BY <2>3, <3>2, ElementOfSeq DEF Waiters, Gate!Waiters
    <3>4. Gate!Placed(queue, "waiting") # {} \/ Gate!Placed(queue, "woken") # {}
      BY <3>2, <3>3 DEF Gate!Placed
    <3> QED BY <2>6, <3>4 DEF Kept
  <2> QED BY <2>1, <2>4, <2>5, <2>6 DEF Kept
<1> QED BY <1>1, <1>2

\* A slot that is free, or becomes so, is handed on.
LEMMA WakesKeep ==
  ASSUME NEW bag, NEW q, NEW value, NEW most \in Nat, Counts(bag),
         q \in Seq(Waiters), value \in Nat, IsFiniteSet(Gate!Checks(bag)),
         value + Cardinality(Gate!Checks(bag)) + Cardinality(Gate!Placed(q, "woken")) = Slots,
         most <= value, most = 0 => value = 0,
         tries' = bag, Gate!wakeUp(value, most, q)
  PROVE  Kept(tries', free', queue')
<1>1. /\ queue' \in Seq(Waiters) /\ free' \in Nat
      /\ free' + Cardinality(Gate!Placed(queue', "woken")) = value + Cardinality(Gate!Placed(q, "woken"))
      /\ free' > 0 /\ Gate!Placed(queue', "waiting") # {} => Gate!Placed(queue', "woken") # {}
  BY WakesUp
<1>2. /\ Cardinality(Gate!Checks(bag)) \in Nat /\ Cardinality(Gate!Placed(q, "woken")) \in Nat
      /\ Cardinality(Gate!Placed(queue', "woken")) \in Nat
  BY <1>1, FS_CardinalityType, PlacedFinite
<1>3. free' + Cardinality(Gate!Checks(bag)) + Cardinality(Gate!Placed(queue', "woken")) = Slots
  <2> DEFINE c == Cardinality(Gate!Checks(bag))
             w == Cardinality(Gate!Placed(q, "woken"))
             x == Cardinality(Gate!Placed(queue', "woken"))
  <2>1. c \in Nat /\ w \in Nat /\ x \in Nat /\ free' + x = value + w
    BY <1>1, <1>2
  <2>2. value + c + w = Slots
    OBVIOUS
  <2> DEFINE f == free'
  <2>4. c \in Nat /\ w \in Nat /\ x \in Nat /\ f \in Nat /\ value \in Nat /\ f + x = value + w
    BY <1>1, <2>1
  <2> HIDE DEF c, w, x, f
  <2>3. f + c + x = value + c + w
    BY <2>4
  <2> QED BY <2>2, <2>3 DEF c, x, f
<1> QED BY <1>1, <1>3 DEF Kept

\* Steps of an attempt that leave the semaphore alone.
LEMMA MovesKeep ==
  ASSUME Kept(tries, free, queue), NEW t \in Gate!UnderWay, t.at # "checking", UNCHANGED <<free, queue>>,
         tries' = Gate!Left(t) \/ tries' = Gate!Moved(t, "code")
  PROVE  Kept(tries', free', queue')
<1> DEFINE less == Gate!Left(t)
           u == Gate!At("code", t)
<1>1. Counts(tries) /\ IsFiniteSet(Gate!Checks(tries))
  BY DEF Kept
<1>2. /\ Counts(less) /\ IsFiniteSet(Gate!Checks(less))
      /\ Cardinality(Gate!Checks(tries)) = Cardinality(Gate!Checks(less)) + 0
  BY <1>1, TriedKnown, ChecksShrink DEF Gate!Left
<1>3. u \in Gate!Going /\ u.at = "code"
  BY AtKnown, TriedKnown
<1>4. tries' = less \/ tries' = Gate!Joined(less, u)
  BY DEF Gate!Moved
<1>8. Cardinality(Gate!Checks(tries)) = Cardinality(Gate!Checks(less))
  BY <1>2, FS_CardinalityType
<1> HIDE DEF less, u
<1>5. CASE tries' = less
  BY <1>1, <1>2, <1>5, <1>8 DEF Kept
<1>6. CASE tries' = Gate!Joined(less, u)
  <2>1. /\ Counts(tries') /\ IsFiniteSet(Gate!Checks(tries'))
        /\ Cardinality(Gate!Checks(tries')) = Cardinality(Gate!Checks(less)) + 0
    BY <1>2, <1>3, <1>6, ChecksGrow
  <2>2. Cardinality(Gate!Checks(tries')) = Cardinality(Gate!Checks(tries))
    BY <1>2, <1>8, <2>1, FS_CardinalityType
  <2> QED BY <1>1, <1>2, <1>3, <2>1, <2>2 DEF Kept
<1> QED BY <1>4, <1>5, <1>6

\* A check ends, whatever it found.
LEMMA ReleaseKeeps ==
  ASSUME Kept(tries, free, queue), NEW t \in Gate!UnderWay, t.at = "checking", Gate!release,
         tries' = Gate!Left(t) \/ tries' = Gate!Moved(t, "code")
  PROVE  Kept(tries', free', queue')
<1> DEFINE less == Gate!Left(t)
           u == Gate!At("code", t)
<1>1. Counts(tries) /\ IsFiniteSet(Gate!Checks(tries))
  BY DEF Kept
<1>2. /\ Counts(less) /\ IsFiniteSet(Gate!Checks(less))
      /\ Cardinality(Gate!Checks(tries)) = Cardinality(Gate!Checks(less)) + 1
  BY <1>1, TriedKnown, ChecksShrink DEF Gate!Left
<1>3. u \in Gate!Going /\ u.at = "code"
  BY AtKnown, TriedKnown
<1>4. tries' = less \/ tries' = Gate!Joined(less, u)
  BY DEF Gate!Moved
<1> HIDE DEF less, u
<1>5. /\ Counts(tries') /\ IsFiniteSet(Gate!Checks(tries'))
      /\ Cardinality(Gate!Checks(tries')) = Cardinality(Gate!Checks(less))
  <2>1. CASE tries' = less
    BY <1>1, <1>2, <2>1
  <2>2. CASE tries' = Gate!Joined(less, u)
    <3>1. /\ Counts(tries') /\ IsFiniteSet(Gate!Checks(tries'))
          /\ Cardinality(Gate!Checks(tries')) = Cardinality(Gate!Checks(less)) + 0
      BY <1>2, <1>3, <2>2, ChecksGrow
    <3>2. Cardinality(Gate!Checks(less)) \in Nat
      BY <1>2, FS_CardinalityType
    <3> QED BY <1>1, <1>2, <1>3, <3>1, <3>2
  <2> QED BY <1>4, <2>1, <2>2
<1>6. /\ queue \in Seq(Waiters) /\ free \in Nat
      /\ free + Cardinality(Gate!Checks(tries)) + Cardinality(Gate!Placed(queue, "woken")) = Slots
  BY DEF Kept
<1>7. Gate!wakeUp(free + 1, 1, queue)
  BY DEF Gate!release
<1>8. free + 1 + Cardinality(Gate!Checks(tries')) + Cardinality(Gate!Placed(queue, "woken")) = Slots
  <2> DEFINE c == Cardinality(Gate!Checks(less))
             w == Cardinality(Gate!Placed(queue, "woken"))
  <2>1. c \in Nat /\ w \in Nat
    BY <1>2, <1>6, FS_CardinalityType, PlacedFinite
  <2>2. free + (c + 1) + w = Slots /\ free \in Nat
    BY <1>2, <1>6
  <2> HIDE DEF c, w
  <2>3. free + 1 + c + w = Slots
    BY <2>1, <2>2
  <2> QED BY <1>5, <2>3 DEF c, w
<1> DEFINE bag == tries'
           value == free + 1
<1>9. bag = tries' /\ value \in Nat /\ 1 <= value
  BY <1>6
<1>10. /\ Counts(bag) /\ IsFiniteSet(Gate!Checks(bag)) /\ tries' = bag
       /\ value + Cardinality(Gate!Checks(bag)) + Cardinality(Gate!Placed(queue, "woken")) = Slots
       /\ Gate!wakeUp(value, 1, queue)
  BY <1>5, <1>7, <1>8
<1> HIDE DEF bag, value
<1> QED BY <1>6, <1>9, <1>10, WakesKeep

\* One leaves the queue to run.
LEMMA ResumesKeeps ==
  ASSUME Kept(tries, free, queue), NEW n \in DOMAIN queue, Gate!Resumes(n)
  PROVE  Kept(tries', free', queue')
<1> DEFINE u == Gate!At("checking", queue[n])
           rest == Gate!without(queue, n)
           bag == Gate!Joined(tries, u)
<1>1. /\ Counts(tries) /\ IsFiniteSet(Gate!Checks(tries))
      /\ queue \in Seq(Waiters) /\ free \in Nat
      /\ free + Cardinality(Gate!Checks(tries)) + Cardinality(Gate!Placed(queue, "woken")) = Slots
  BY DEF Kept
<1>2. queue[n].at = "woken" /\ tries' = bag /\ Gate!wakeUp(free, free, rest)
  BY DEF Gate!Resumes
<1>3. queue[n] \in Tried /\ queue[n].kind # "code"
  BY <1>1, ElementOfSeq, TriedKnown DEF Waiters
<1>4. u \in Gate!Going /\ u.at = "checking" /\ u.kind # "code"
  BY <1>3, AtKnown
<1>5. rest \in Seq(Waiters) /\ Cardinality(Gate!Placed(queue, "woken")) = Cardinality(Gate!Placed(rest, "woken")) + 1
  BY <1>1, <1>2, LeavesQueue
<1> HIDE DEF u, rest
<1>6. /\ Counts(bag) /\ IsFiniteSet(Gate!Checks(bag))
      /\ Cardinality(Gate!Checks(bag)) = Cardinality(Gate!Checks(tries)) + 1
  BY <1>1, <1>4, ChecksGrow
<1> HIDE DEF bag
<1>7. free + Cardinality(Gate!Checks(bag)) + Cardinality(Gate!Placed(rest, "woken")) = Slots
  <2> DEFINE c == Cardinality(Gate!Checks(tries))
             w == Cardinality(Gate!Placed(rest, "woken"))
  <2>1. c \in Nat /\ w \in Nat
    BY <1>1, <1>5, FS_CardinalityType, PlacedFinite
  <2>2. free + c + (w + 1) = Slots /\ free \in Nat
    BY <1>1, <1>5
  <2> HIDE DEF c, w
  <2>3. free + (c + 1) + w = Slots
    BY <2>1, <2>2
  <2> QED BY <1>6, <2>3 DEF c, w
<1> QED BY <1>1, <1>2, <1>5, <1>6, <1>7, WakesKeep

\* One leaves it unheard: a slot it had goes to the next.
LEMMA TimesOutKeeps ==
  ASSUME Kept(tries, free, queue), NEW n \in DOMAIN queue, Gate!TimesOut(n)
  PROVE  Kept(tries', free', queue')
<1> DEFINE rest == Gate!without(queue, n)
           value == IF queue[n].at = "woken" THEN free + 1 ELSE free
<1>1. /\ Counts(tries) /\ IsFiniteSet(Gate!Checks(tries))
      /\ queue \in Seq(Waiters) /\ free \in Nat
      /\ free + Cardinality(Gate!Checks(tries)) + Cardinality(Gate!Placed(queue, "woken")) = Slots
  BY DEF Kept
<1>2. tries' = tries /\ Gate!wakeUp(value, value, rest)
  BY DEF Gate!TimesOut
<1>3. /\ rest \in Seq(Waiters)
      /\ Cardinality(Gate!Placed(queue, "woken")) =
           Cardinality(Gate!Placed(rest, "woken")) + IF queue[n].at = "woken" THEN 1 ELSE 0
  BY <1>1, LeavesQueue
<1> HIDE DEF rest
<1>4. value \in Nat
  BY <1>1
<1>5. value + Cardinality(Gate!Checks(tries)) + Cardinality(Gate!Placed(rest, "woken")) = Slots
  <2> DEFINE c == Cardinality(Gate!Checks(tries))
             w == Cardinality(Gate!Placed(rest, "woken"))
  <2>1. c \in Nat /\ w \in Nat
    BY <1>1, <1>3, FS_CardinalityType, PlacedFinite
  <2>2. free + c + (w + IF queue[n].at = "woken" THEN 1 ELSE 0) = Slots /\ free \in Nat
    BY <1>1, <1>3
  <2> HIDE DEF c, w
  <2>3. value + c + w = Slots
    BY <2>1, <2>2
  <2> QED BY <2>3 DEF c, w
<1> HIDE DEF value
<1> QED BY <1>1, <1>2, <1>3, <1>4, <1>5, WakesKeep

LEMMA SlotsStep == LogsInv /\ TriesInv /\ SlotsInv /\ Gate!Next => TriesInv' /\ SlotsInv'
<1> SUFFICES ASSUME TriesInv, SlotsInv, Gate!Next
             PROVE  Kept(tries', free', queue') /\ second' \in BOOLEAN /\ halfway' \in BOOLEAN
  BY KeptIs
<1>1. Kept(tries, free, queue) /\ second \in BOOLEAN /\ halfway \in BOOLEAN
  BY KeptIs
<1>3. CASE Gate!Tick
  BY <1>1, <1>3 DEF Gate!Tick
<1>4. ASSUME NEW kind \in Gate!Kinds, NEW a \in Addresses, Gate!Arrives(kind, a)
      PROVE  Kept(tries', free', queue') /\ second' \in BOOLEAN /\ halfway' \in BOOLEAN
  <2> DEFINE t == [at |-> "asking", kind |-> kind, by |-> a]
  <2>1. t \in Tried /\ t \in Gate!Going /\ t.at = "asking" /\ t.kind = kind
    BY DEF Gate!Going, Tried
  <2>2. second' = second /\ halfway' = halfway
    BY <1>4 DEF Gate!Arrives
  <2>3. \/ kind = "reauth" /\ Gate!acquire(t, tries)
        \/ tries' = Gate!Joined(tries, t) /\ UNCHANGED <<free, queue>>
    BY <1>4 DEF Gate!Arrives
  <2> HIDE DEF t
  <2>4. CASE kind = "reauth" /\ Gate!acquire(t, tries)
    BY <1>1, <2>1, <2>2, <2>4, AcquireKeeps
  <2>5. CASE tries' = Gate!Joined(tries, t) /\ UNCHANGED <<free, queue>>
    <3>1. Counts(tries) /\ IsFiniteSet(Gate!Checks(tries))
      BY <1>1 DEF Kept
    <3>2. /\ Counts(tries') /\ IsFiniteSet(Gate!Checks(tries'))
          /\ Cardinality(Gate!Checks(tries')) = Cardinality(Gate!Checks(tries)) + 0
      BY <2>1, <2>5, <3>1, ChecksGrow
    <3>3. Cardinality(Gate!Checks(tries')) = Cardinality(Gate!Checks(tries))
      BY <3>1, <3>2, FS_CardinalityType
    <3>4. Kept(tries', free', queue')
      BY <1>1, <2>1, <2>5, <3>1, <3>2, <3>3 DEF Kept
    <3> QED BY <1>1, <2>2, <3>4
  <2> QED BY <2>3, <2>4, <2>5
<1>5. ASSUME NEW t \in Gate!UnderWay, Gate!NotHuman(t) \/ Gate!WrongCode(t)
      PROVE  Kept(tries', free', queue') /\ second' \in BOOLEAN /\ halfway' \in BOOLEAN
  <2>1. t.at # "checking" /\ tries' = Gate!Left(t) /\ UNCHANGED <<free, queue, second, halfway>>
    BY <1>5 DEF Gate!NotHuman, Gate!WrongCode
  <2> QED BY <1>1, <2>1, MovesKeep
<1>6. ASSUME NEW t \in Gate!UnderWay, Gate!Human(t)
      PROVE  Kept(tries', free', queue') /\ second' \in BOOLEAN /\ halfway' \in BOOLEAN
  <2>1. t.at = "asking" /\ t.kind = "login" /\ second' = second /\ halfway' = halfway
    BY <1>6 DEF Gate!Human
  <2>2. \/ Gate!acquire(t, Gate!Left(t))
        \/ tries' = Gate!Left(t) /\ UNCHANGED <<free, queue>>
    BY <1>6 DEF Gate!Human
  <2>3. t \in Tried /\ t \in Gate!Going /\ tries[t] > 0
    BY TriedKnown
  <2>4. Kept(Gate!Left(t), free, queue)
    <3> DEFINE less == Gate!Left(t)
    <3>1. Counts(tries) /\ IsFiniteSet(Gate!Checks(tries))
      BY <1>1 DEF Kept
    <3>2. /\ Counts(less) /\ IsFiniteSet(Gate!Checks(less))
          /\ Cardinality(Gate!Checks(tries)) = Cardinality(Gate!Checks(less)) + 0
      BY <2>1, <2>3, <3>1, ChecksShrink DEF Gate!Left
    <3> HIDE DEF less
    <3>3. Cardinality(Gate!Checks(tries)) = Cardinality(Gate!Checks(less))
      BY <3>2, FS_CardinalityType
    <3>4. Kept(less, free, queue)
      BY <1>1, <3>1, <3>2, <3>3 DEF Kept
    <3> QED BY <3>4 DEF less
  <2>5. CASE Gate!acquire(t, Gate!Left(t))
    BY <1>1, <2>1, <2>3, <2>4, <2>5, AcquireKeeps
  <2>6. CASE tries' = Gate!Left(t) /\ UNCHANGED <<free, queue>>
    BY <1>1, <2>1, <2>6, MovesKeep
  <2> QED BY <2>2, <2>5, <2>6
<1>7. ASSUME NEW t \in Gate!UnderWay, Gate!Wrong(t) \/ Gate!Right(t)
      PROVE  Kept(tries', free', queue') /\ second' \in BOOLEAN /\ halfway' \in BOOLEAN
  <2>1. t.at = "checking" /\ Gate!release
    BY <1>7 DEF Gate!Wrong, Gate!Right
  <2>2. tries' = Gate!Left(t) \/ tries' = Gate!Moved(t, "code")
    BY <1>7 DEF Gate!Wrong, Gate!Right
  <2>3. Kept(tries', free', queue')
    BY <1>1, <2>1, <2>2, ReleaseKeeps
  <2>4. t.kind = "reauth" \/ t.kind = "login"
    <3>1. t \in Gate!Going /\ tries[t] > 0
      BY TriedKnown
    <3>2. t.kind # "code"
      BY <1>1, <2>1, <3>1 DEF Kept, Counts
    <3> QED BY <3>1, <3>2 DEF Gate!Going, Gate!Kinds
  <2>5. CASE Gate!Wrong(t)
    <3>1. second' = second /\ halfway' = halfway
      BY <2>5 DEF Gate!Wrong
    <3> QED BY <1>1, <2>3, <3>1
  <2>6. CASE Gate!Right(t)
    <3>1. second' = second
      BY <2>6 DEF Gate!Right
    <3>2. halfway' = halfway \/ halfway' = TRUE
      <4>1. CASE t.kind = "reauth"
        BY <2>6, <4>1 DEF Gate!Right
      <4>2. CASE t.kind = "login" /\ second
        BY <2>6, <4>2 DEF Gate!Right
      <4>3. CASE t.kind = "login" /\ ~second
        BY <2>6, <4>3 DEF Gate!Right
      <4> QED BY <2>4, <4>1, <4>2, <4>3
    <3> QED BY <1>1, <2>3, <3>1, <3>2, Zenon
  <2> QED BY <1>7, <2>5, <2>6
<1>8. ASSUME NEW t \in Gate!UnderWay, Gate!CodeCounted(t) \/ Gate!RightCode(t)
      PROVE  Kept(tries', free', queue') /\ second' \in BOOLEAN /\ halfway' \in BOOLEAN
  <2>1. t.at # "checking" /\ UNCHANGED <<free, queue>>
    BY <1>8 DEF Gate!CodeCounted, Gate!RightCode
  <2>2. tries' = Gate!Left(t) \/ tries' = Gate!Moved(t, "code")
    BY <1>8 DEF Gate!CodeCounted, Gate!RightCode
  <2>3. Kept(tries', free', queue')
    BY <1>1, <2>1, <2>2, MovesKeep
  <2>4. second' = second \/ second' = ~second
    BY <1>8 DEF Gate!CodeCounted, Gate!RightCode
  <2>5. halfway' = halfway \/ halfway' = FALSE
    BY <1>8 DEF Gate!CodeCounted, Gate!RightCode
  <2> QED BY <1>1, <2>3, <2>4, <2>5, Zenon
<1>9. ASSUME NEW n \in DOMAIN queue, Gate!Resumes(n) \/ Gate!TimesOut(n)
      PROVE  Kept(tries', free', queue') /\ second' \in BOOLEAN /\ halfway' \in BOOLEAN
  <2>1. second' = second /\ halfway' = halfway
    BY <1>9 DEF Gate!Resumes, Gate!TimesOut
  <2>2. Kept(tries', free', queue')
    BY <1>1, <1>9, ResumesKeeps, TimesOutKeeps
  <2> QED BY <1>1, <2>1, <2>2
<1> QED BY <1>3, <1>4, <1>5, <1>6, <1>7, <1>8, <1>9 DEF Gate!Next

LEMMA LogsStep == LogsInv /\ GuessInv /\ TriesInv /\ Gate!Next => LogsInv' /\ GuessInv'
<1> SUFFICES ASSUME LogsInv, GuessInv, TriesInv, Gate!Next PROVE LogsInv' /\ GuessInv'
  OBVIOUS
<1>1. \A t \in Gate!UnderWay : t \in Gate!Going /\ t.by \in Addresses /\ tries[t] > 0
  BY TriedKnown DEF Gate!Going
<1>2. ASSUME UNCHANGED <<recent, guessed>> PROVE LogsInv' /\ GuessInv'
  BY <1>2 DEF LogsInv, GuessInv
<1>3. CASE Gate!Tick
  BY <1>3, TickKeeps
<1>4. ASSUME NEW kind \in Gate!Kinds, NEW a \in Addresses, Gate!Arrives(kind, a)
      PROVE  LogsInv' /\ GuessInv'
  <2> DEFINE key == IF kind = "reauth" THEN <<"reauth">> ELSE <<"ip", a>>
  <2>1. key \in Gate!Keys /\ key[1] \notin {"email", "email-ip"}
    <3>1. <<"reauth">>[1] = "reauth" /\ <<"ip", a>>[1] = "ip"
      OBVIOUS
    <3> QED BY <3>1, KeysKnown
  <2>2. Gate!Allows(recent, key) /\ recent' = Gate!Recorded(recent, key, a) /\ guessed' = guessed
    BY <1>4 DEF Gate!Arrives
  <2> HIDE DEF key
  <2> QED BY <2>1, <2>2, ElsewhereKeeps
<1>5. ASSUME NEW t \in Gate!UnderWay, Gate!NotHuman(t) \/ Gate!WrongCode(t) \/ Gate!Wrong(t)
      PROVE  LogsInv' /\ GuessInv'
  BY <1>2, <1>5 DEF Gate!NotHuman, Gate!WrongCode, Gate!Wrong
<1>6. ASSUME NEW t \in Gate!UnderWay, Gate!Human(t) PROVE LogsInv' /\ GuessInv'
  <2> DEFINE a == t.by
  <2>1. a \in Addresses
    BY <1>1
  <2>2. LET counted == Gate!hits(Gate!email_limit_keys(a), a)
        IN /\ recent' = counted.log
           /\ IF counted.ok THEN guessed' = [guessed EXCEPT ![a] = Append(@, Gate!Event(a))] ELSE UNCHANGED guessed
    BY <1>6 DEF Gate!Human
  <2> HIDE DEF a
  <2> QED BY <2>1, <2>2, LoginKeeps
<1>7. ASSUME NEW t \in Gate!UnderWay, Gate!Right(t) PROVE LogsInv' /\ GuessInv'
  <2>1. t.by \in Addresses /\ <<>> \in {<<>>, Gate!totp_limit_keys}
    BY <1>1
  <2>2. UNCHANGED <<recent, guessed>> \/ Gate!SignedIn(t.by, <<>>)
    <3>1. t.kind = "reauth" \/ t.kind = "login"
      <4>1. t.at = "checking"
        BY <1>7 DEF Gate!Right
      <4>2. t.kind # "code"
        BY <1>1, <4>1 DEF TriesInv, Counts
      <4> QED BY <1>1, <4>2 DEF Gate!Going, Gate!Kinds
    <3>2. CASE t.kind = "reauth"
      BY <1>7, <3>2 DEF Gate!Right
    <3>3. CASE t.kind = "login" /\ second
      BY <1>7, <3>3 DEF Gate!Right
    <3>4. CASE t.kind = "login" /\ ~second
      BY <1>7, <3>4 DEF Gate!Right
    <3> QED BY <3>1, <3>2, <3>3, <3>4
  <2> QED BY <1>2, <2>1, <2>2, SuccessKeeps
<1>8. ASSUME NEW t \in Gate!UnderWay, Gate!CodeCounted(t) PROVE LogsInv' /\ GuessInv'
  <2>1. t.by \in Addresses
    BY <1>1
  <2>2. guessed' = guessed /\ (recent' = recent \/ recent' = Gate!hits(Gate!totp_limit_keys, t.by).log)
    BY <1>8 DEF Gate!CodeCounted
  <2> QED BY <1>2, <2>1, <2>2, CodeKeeps
<1>9. ASSUME NEW t \in Gate!UnderWay, Gate!RightCode(t) PROVE LogsInv' /\ GuessInv'
  <2>1. t.by \in Addresses /\ Gate!totp_limit_keys \in {<<>>, Gate!totp_limit_keys}
    BY <1>1
  <2>2. \/ Gate!SignedIn(t.by, Gate!totp_limit_keys)
        \/ recent' = Gate!Cleared(recent, <<<<"reauth">>>>) /\ UNCHANGED guessed
    BY <1>9 DEF Gate!RightCode
  <2> QED BY <2>1, <2>2, SuccessKeeps, ReauthKeeps
<1>10. ASSUME NEW n \in DOMAIN queue, Gate!Resumes(n) \/ Gate!TimesOut(n) PROVE LogsInv' /\ GuessInv'
  BY <1>2, <1>10 DEF Gate!Resumes, Gate!TimesOut
<1> QED BY <1>3, <1>4, <1>5, <1>6, <1>7, <1>8, <1>9, <1>10 DEF Gate!Next

LEMMA AttemptsStep == AttemptsInv /\ Gate!Next => AttemptsInv'
  BY SlotsStep, LogsStep DEF AttemptsInv

LEMMA AttemptsKeepTrue == AttemptsInv => Gate!TypeOK /\ Gate!OneAddressCannotLock /\ Gate!SlotsKept
<1> SUFFICES ASSUME AttemptsInv PROVE Gate!TypeOK /\ Gate!OneAddressCannotLock /\ Gate!SlotsKept
  OBVIOUS
<1>1. LogsInv /\ GuessInv /\ TriesInv /\ SlotsInv /\ Gate!SlotsKept
  BY DEF AttemptsInv, SlotsInv
<1>2. free \in 0 .. Slots
  <2> DEFINE c == Cardinality(Gate!Checks(tries))
             w == Cardinality(Gate!Placed(queue, "woken"))
  <2>1. free \in Nat /\ free + c + w = Slots
    BY <1>1, Counted DEF TriesInv, Gate!SlotsKept
  <2>2. c \in Nat /\ w \in Nat
    BY <1>1, FS_CardinalityType, PlacedFinite DEF SlotsInv, TriesInv
  <2> HIDE DEF c, w
  <2> QED BY <2>1, <2>2, Limits
<1>3. queue \in Seq(Gate!Waiters)
  <2>1. queue \in Seq(Waiters) /\ Waiters \subseteq Gate!Waiters
    BY <1>1, TriedKnown DEF TriesInv
  <2> QED BY <2>1
<1>7. tries \in [Gate!Going -> Nat]
  BY <1>1 DEF TriesInv, Counts
<1>4. Gate!TypeOK
  BY <1>1, <1>2, <1>3, <1>7, Zenon DEF LogsInv, TriesInv, Gate!TypeOK
<1>5. ASSUME NEW a \in Addresses
      PROVE  Cardinality(Gate!By(recent[<<"email">>], a)) <= EmailIpLimit /\ Len(guessed[a]) <= EmailIpLimit
  <2> DEFINE e == recent[<<"email">>]
             b == recent[<<"email-ip", a>>]
             g == guessed[a]
  <2>1. /\ e \in Seq(Events) /\ b \in Seq(Events) /\ g \in Seq(Events)
        /\ Within(a, e, b) /\ Within(a, g, b) /\ \A n \in DOMAIN g : g[n].by = a
    BY <1>1, KeysKnown DEF LogsInv, GuessInv
  <2>2. Len(b) <= EmailIpLimit
    <3>1. Len(b) <= Gate!Limit(<<"email-ip", a>>)
      BY <1>1, KeysKnown DEF LogsInv
    <3>2. Gate!Limit(<<"email-ip", a>>) = EmailIpLimit
      BY DEF Gate!Limit
    <3> QED BY <3>1, <3>2
  <2> HIDE DEF e, b, g
  <2>3. IsFiniteSet(Gate!By(e, a)) /\ Cardinality(Gate!By(e, a)) <= Len(b)
    BY <2>1, WithinBounds
  <2>4. IsFiniteSet(Gate!By(g, a)) /\ Cardinality(Gate!By(g, a)) <= Len(b)
    BY <2>1, WithinBounds
  <2>5. Cardinality(Gate!By(g, a)) = Len(g)
    <3>1. Len(g) \in Nat /\ DOMAIN g = 1 .. Len(g)
      BY <2>1
    <3>2. Gate!By(g, a) = 1 .. Len(g)
      BY <2>1, <3>1 DEF Gate!By
    <3>3. 1 \in Int /\ Len(g) \in Int
      BY <3>1
    <3>4. Cardinality(1 .. Len(g)) = IF 1 > Len(g) THEN 0 ELSE Len(g) - 1 + 1
      BY <3>3, FS_Interval
    <3> QED BY <3>1, <3>2, <3>4
  <2>6. Cardinality(Gate!By(e, a)) \in Nat /\ Len(b) \in Nat /\ Len(g) \in Nat /\ EmailIpLimit \in Nat
    BY <2>1, <2>3, FS_CardinalityType, Limits
  <2>7. Cardinality(Gate!By(e, a)) <= EmailIpLimit /\ Len(g) <= EmailIpLimit
    BY <2>2, <2>3, <2>4, <2>5, <2>6
  <2> QED BY <2>7 DEF e, g
<1>6. Gate!OneAddressCannotLock
  BY <1>5, Counted DEF Gate!OneAddressCannotLock
<1> QED BY <1>1, <1>4, <1>6

LEMMA AttemptsStand == AttemptsInv /\ UNCHANGED attempts => AttemptsInv'
<1> SUFFICES ASSUME AttemptsInv, UNCHANGED attempts PROVE AttemptsInv'
  OBVIOUS
<1>1. UNCHANGED <<recent, tries, free, queue, second, halfway, guessed>>
  BY DEF attempts
<1>2. LogsInv' /\ GuessInv'
  BY <1>1 DEF AttemptsInv, LogsInv, GuessInv
<1>3. TriesInv'
  BY <1>1 DEF AttemptsInv, TriesInv
<1>4. SlotsInv'
  BY <1>1 DEF AttemptsInv, SlotsInv, Gate!SlotsKept
<1> QED BY <1>2, <1>3, <1>4 DEF AttemptsInv

-------------------------------------------------------------------------------
(* The whole.                                                                *)

SenderAll == part = "contact" => SenderInv
DoorAll == part = "door" => DoorInv
SecurityAll == part = "security" => SecurityInv
FilesAll == part = "files" => FilesInv
QuestionAll == part = "asking" => QuestionInv
AttemptsAll == part = "attempts" => AttemptsInv

LEMMA PartsInit == Init => SenderAll /\ DoorAll /\ SecurityAll /\ FilesAll /\ QuestionAll /\ AttemptsAll
<1>1. Init => SenderAll /\ DoorAll
  BY SenderInit, DoorInit DEF Init, SenderAll, DoorAll
<1>2. Init => SecurityAll /\ FilesAll
  BY SecurityInit, FilesInit DEF Init, SecurityAll, FilesAll
<1>3. Init => QuestionAll /\ AttemptsAll
  BY QuestionInit, AttemptsInit DEF Init, QuestionAll, AttemptsAll
<1> QED BY <1>1, <1>2, <1>3

\* A part that is not followed stands still, and a step of the part that is keeps
\* its invariant.
LEMMA ContactStands == SenderInv /\ UNCHANGED contact => SenderInv'
<1> SUFFICES ASSUME SenderInv, UNCHANGED contact PROVE SenderInv'
  OBVIOUS
<1>1. UNCHANGED <<form, issued, req, row, spent, mailed, stored>>
  BY DEF contact
<1>2. Sender!TypeOK'
  BY <1>1 DEF SenderInv, Sender!TypeOK
<1>3. TokenInv'
  BY <1>1 DEF SenderInv, TokenInv
<1>4. DeliveryInv'
  BY <1>1 DEF SenderInv, DeliveryInv, Held, Sender!AnswersTrue, Sender!DeliveryTrue
<1> QED BY <1>2, <1>3, <1>4 DEF SenderInv

LEMMA DoorStands == DoorInv /\ UNCHANGED door => DoorInv'
<1> SUFFICES ASSUME DoorInv, UNCHANGED door PROVE DoorInv'
  OBVIOUS
<1>1. UNCHANGED <<at, session, login, calls, draft, cookie, pending, server, held>>
  BY DEF door
<1>2. Door!TypeOK'
  BY <1>1 DEF DoorInv, Door!TypeOK
<1>3. WaitsInv'
  BY <1>1 DEF DoorInv, WaitsInv
<1>4. LoginInv'
  BY <1>1 DEF DoorInv, LoginInv
<1>5. SessionsInv'
  BY <1>1 DEF DoorInv, SessionsInv, Door!NoStaleExpiry
<1> QED BY <1>2, <1>3, <1>4, <1>5 DEF DoorInv

LEMMA SenderHolds == SenderAll /\ [Next]_vars => SenderAll'
<1> SUFFICES ASSUME SenderAll, [Next]_vars, part' = "contact" PROVE SenderInv'
  BY DEF SenderAll
<1>1. part = "contact" /\ (Sender!Next \/ UNCHANGED contact)
  BY DEF Next, Others, vars
<1> QED BY <1>1, SenderStep, ContactStands DEF SenderAll

LEMMA DoorHolds == DoorAll /\ [Next]_vars => DoorAll'
<1> SUFFICES ASSUME DoorAll, [Next]_vars, part' = "door" PROVE DoorInv'
  BY DEF DoorAll
<1>1. part = "door" /\ (Door!Next \/ UNCHANGED door)
  BY DEF Next, Others, vars
<1> QED BY <1>1, DoorStep, DoorStands DEF DoorAll

LEMMA SecurityHolds == SecurityAll /\ [Next]_vars => SecurityAll'
<1> SUFFICES ASSUME SecurityAll, [Next]_vars, part' = "security" PROVE SecurityInv'
  BY DEF SecurityAll
<1>1. part = "security" /\ (Second!Next \/ UNCHANGED security)
  BY DEF Next, Others, vars
<1> QED BY <1>1, SecurityStep, SecurityStands DEF SecurityAll

LEMMA FilesHolds == FilesAll /\ [Next]_vars => FilesAll'
<1> SUFFICES ASSUME FilesAll, [Next]_vars, part' = "files" PROVE FilesInv'
  BY DEF FilesAll
<1>1. part = "files" /\ (File!Next \/ UNCHANGED files)
  BY DEF Next, Others, vars
<1> QED BY <1>1, FilesStep, FilesStand DEF FilesAll

LEMMA QuestionHolds == QuestionAll /\ [Next]_vars => QuestionAll'
<1> SUFFICES ASSUME QuestionAll, [Next]_vars, part' = "asking" PROVE QuestionInv'
  BY DEF QuestionAll
<1>1. part = "asking" /\ (Question!Next \/ UNCHANGED asking)
  BY DEF Next, Others, vars
<1> QED BY <1>1, QuestionStep, QuestionStands DEF QuestionAll

LEMMA AttemptsHolds == AttemptsAll /\ [Next]_vars => AttemptsAll'
<1> SUFFICES ASSUME AttemptsAll, [Next]_vars, part' = "attempts" PROVE AttemptsInv'
  BY DEF AttemptsAll
<1>1. part = "attempts" /\ (Gate!Next \/ UNCHANGED attempts)
  BY DEF Next, Others, vars
<1> QED BY <1>1, AttemptsStep, AttemptsStand DEF AttemptsAll

\* Neither form is ever ready to send a Turnstile token that the server has spent
\* (useTurnstile.ts).
THEOREM TokensSpentOnce == Spec => []TokenNotSpent
<1>1. SenderAll /\ DoorAll => TokenNotSpent
  BY SenderKeepsTrue, DoorKeepsTrue DEF SenderAll, DoorAll, TokenNotSpent
<1> QED BY <1>1, PartsInit, SenderHolds, DoorHolds, PTL DEF Spec

\* What the visitor is answered, and what the row says of the delivery, are what
\* happened to the message (services/contact.py).
THEOREM DeliveryTold == Spec => []DeliveryTrue
<1>1. SenderAll => DeliveryTrue
  BY SenderKeepsTrue DEF SenderAll, DeliveryTrue
<1> QED BY <1>1, PartsInit, SenderHolds, PTL DEF Spec

\* The owner is not shut out: not by a 401 to an earlier session, nor by a switch
\* whose secret the app has not got, nor by failures from one address, nor by a slot
\* for password checks that nobody gives back (RequireAuth.tsx, services/totp.py,
\* api/v1/auth.py, services/auth.py).
THEOREM OwnerGetsIn == Spec => []NotShutOut
<1>1. DoorAll /\ SecurityAll /\ AttemptsAll => NotShutOut
  BY DoorKeepsTrue, SecurityKeepsTrue, AttemptsKeepTrue DEF DoorAll, SecurityAll, AttemptsAll, NotShutOut
<1> QED BY <1>1, PartsInit, DoorHolds, SecurityHolds, AttemptsHolds, PTL DEF Spec
\* A removed file is not served; and once everything is answered, and if nothing failed
\* nor came from elsewhere, the CV page shows the file the server has (api/v1/files.py,
\* useFileUpload.ts): of ReadsTrue and ScreensTrue, what the files have in them.
THEOREM FilesTrue == Spec => [](part = "files" => File!RemovedGone /\ File!CvSettles)
<1>1. FilesAll => (part = "files" => File!RemovedGone /\ File!CvSettles)
  BY FilesKeepTrue DEF FilesAll
<1> QED BY <1>1, PartsInit, FilesHolds, PTL DEF Spec

\* Once everything is answered, and if nothing failed nor was changed in another tab,
\* the security page shows whether two-factor sign-in is on (SecurityPage.tsx).
THEOREM StatusTrue == Spec => [](part = "security" => Second!StatusSettles)
<1>1. SecurityAll => (part = "security" => Second!StatusSettles)
  BY SecurityKeepsTrue DEF SecurityAll
<1> QED BY <1>1, PartsInit, SecurityHolds, PTL DEF Spec

\* But for a close event still to come, the dialog is open just while the question is
\* asked, and the focus is never lost, whatever the browser closes by itself
\* (ConfirmDialog.tsx).
THEOREM DialogTrue == Spec => [](part = "asking" => Question!DialogSettles)
<1>1. QuestionAll => (part = "asking" => Question!DialogSettles)
  BY QuestionKeepsTrue DEF QuestionAll
<1> QED BY <1>1, PartsInit, QuestionHolds, PTL DEF Spec

===============================================================================
