------------------------------- MODULE Contact -------------------------------
(***************************************************************************)
(* The public contact form and what becomes of a submission:               *)
(* components/ContactForm.tsx with its Turnstile token (useTurnstile.ts)   *)
(* in a visitor's page, and submit_contact (services/contact.py), which    *)
(* checks the token with Cloudflare, stores the message, mails it to the   *)
(* owner and records how that went.  An answer may come late or never; the *)
(* process may stop between any two steps.                                 *)
(*                                                                         *)
(* A field's content is known by how it fares: blank; faulty, against a    *)
(* rule of validateField; strict, against a rule that only the server has; *)
(* or good.                                                                *)
(***************************************************************************)
EXTENDS Naturals, FiniteSets

CONSTANTS
  Fields,        (* The form's fields.                                       *)
  MaxTokens,     (* Bound: tokens the Turnstile widget issues.               *)
  MaxRequests    (* Bound: submissions sent.                                 *)

Bounds ==
  /\ Fields # {} /\ "turnstile" \notin Fields
  /\ MaxTokens \in Nat \ {0} /\ MaxRequests \in Nat \ {0}

VARIABLES
  form,          (* The ContactForm on the page.                             *)
  issued,        (* Tokens issued so far: the newest is token number issued. *)
  req,           (* req[i]: the i-th submission, at the server.              *)
  row,           (* row[i]: the message it stored.                           *)
  spent,         (* Tokens that siteverify has seen.                         *)
  mailed,        (* Submissions that the email provider has taken.           *)
  stored         (* History: submissions ever committed.                     *)

server == <<row, spent, mailed, stored>>
vars == <<form, issued, req, row, spent, mailed, stored>>

Contents == {"blank", "faulty", "strict", "good"}
Faults == {"none", "blank", "faulty", "fieldInvalid"}
Tokens == 1 .. MaxTokens
Requests == 1 .. MaxRequests
Marks == Fields \cup {"turnstile"}
Statuses == {"idle", "invalid", "submitting", "success", "rateLimited", "error"}
Answers == {202, 400, 422, 429, 500, 503}

NoToken == [token |-> 0, current |-> TRUE]
NoErrors == [m \in Marks |-> "none"]
Empty == [f \in Fields |-> "blank"]

\* A freshly mounted form: nothing typed, and a widget about to challenge.
Mounted == [mounted |-> TRUE, values |-> Empty, website |-> FALSE, errors |-> NoErrors,
            attempted |-> FALSE, status |-> "idle", request |-> 0,
            issue |-> NoToken, challenge |-> TRUE]
Unmounted == [Mounted EXCEPT !.mounted = FALSE, !.challenge = FALSE]

Unsent == [at |-> "unsent", token |-> 0, body |-> Empty, website |-> FALSE,
           answer |-> 0, fields |-> {}, mark |-> "pending"]

Init ==
  /\ form = Unmounted
  /\ issued = 0
  /\ req = [i \in Requests |-> Unsent]
  /\ row = [i \in Requests |-> "none"]
  /\ spent = {} /\ mailed = {} /\ stored = {}

-------------------------------------------------------------------------------
(* The form in the page.                                                     *)

validateField(content) == IF content \in {"blank", "faulty"} THEN content ELSE "none"

\* useTurnstile: a token counts only under the theme it came with.
Token(f) == IF f.issue.current THEN f.issue.token ELSE 0

\* turnstile.reset(): drop the token and run the challenge again.
Reset(f) == [f EXCEPT !.issue = NoToken, !.challenge = TRUE]

OnPage == form.mounted /\ form.status # "success"

\* The dialog's first opening, and a language switch that unmounts the page.
Mount == ~form.mounted /\ form' = Mounted /\ UNCHANGED <<issued, req, server>>
Unmount == form.mounted /\ form' = Unmounted /\ UNCHANGED <<issued, req, server>>

\* The other of the two themes renders the widget again, for a new token.
SwitchTheme ==
  /\ form.mounted
  /\ form' = [form EXCEPT !.challenge = OnPage,
                          !.issue = IF @ = NoToken THEN @ ELSE [@ EXCEPT !.current = ~form.issue.current]]
  /\ UNCHANGED <<issued, req, server>>

WidgetIssues ==
  /\ OnPage /\ form.challenge /\ issued < MaxTokens
  /\ issued' = issued + 1
  /\ form' = [form EXCEPT !.issue = [token |-> issued + 1, current |-> TRUE],
                          !.challenge = FALSE, !.errors["turnstile"] = "none"]
  /\ UNCHANGED <<req, server>>

\* The token expires, or the challenge fails.
WidgetLapses ==
  /\ OnPage /\ form.issue # NoToken
  /\ form' = Reset(form)
  /\ UNCHANGED <<issued, req, server>>

change(name, content) ==
  /\ OnPage
  /\ form' = [form EXCEPT !.values[name] = content,
                          !.errors[name] = IF @ = "none" THEN @ ELSE validateField(content)]
  /\ UNCHANGED <<issued, req, server>>

blur(name) ==
  /\ OnPage /\ (form.attempted \/ form.values[name] # "blank")
  /\ form' = [form EXCEPT !.errors[name] = validateField(form.values[name])]
  /\ UNCHANGED <<issued, req, server>>

\* Something fills the hidden field.
FillHoneypot ==
  /\ OnPage /\ ~form.website
  /\ form' = [form EXCEPT !.website = TRUE]
  /\ UNCHANGED <<issued, req, server>>

Invalid ==
  [m \in Marks |-> IF m \in Fields THEN validateField(form.values[m])
                   ELSE IF Token(form) = 0 THEN "blank" ELSE "none"]

onSubmit ==
  /\ OnPage /\ form.status # "submitting"
  /\ UNCHANGED <<issued, server>>
  /\ \/ /\ Invalid # NoErrors
        /\ form' = [form EXCEPT !.attempted = TRUE, !.errors = Invalid, !.status = "invalid"]
        /\ UNCHANGED req
     \/ /\ Invalid = NoErrors
        /\ \E i \in Requests :
             /\ req[i].at = "unsent" /\ \A j \in 1 .. i - 1 : req[j].at # "unsent"
             /\ req' = [req EXCEPT ![i] = [Unsent EXCEPT
                          !.at = "sent", !.token = Token(form),
                          !.body = form.values, !.website = form.website]]
             /\ form' = [form EXCEPT !.attempted = TRUE, !.errors = NoErrors,
                                     !.status = "submitting", !.request = i]

\* serverFieldErrors: each field the server named, with the form's own message
\* for it; a client check passed on sending, so that is the generic one.
serverFieldErrors(fields) ==
  [m \in Marks |-> IF m \notin fields THEN "none"
                   ELSE IF m = "turnstile" THEN "blank" ELSE "fieldInvalid"]

\* What the form makes of an answer; all but these spend the token.
Settled(r) ==
  LET done == [form EXCEPT !.request = 0]
  IN CASE r.answer = 202 -> [done EXCEPT !.values = Empty, !.website = FALSE, !.status = "success"]
       [] r.answer = 422 /\ r.fields = {} -> [done EXCEPT !.status = "error"]
       [] r.answer = 422 /\ r.fields # {} ->
            [done EXCEPT !.errors = serverFieldErrors(r.fields), !.status = "invalid"]
       [] r.answer = 429 -> [done EXCEPT !.status = "rateLimited"]
       [] OTHER -> Reset([done EXCEPT !.status = "error"])

AnswerLands ==
  /\ form.request # 0 /\ req[form.request].at = "answered"
  /\ form' = Settled(req[form.request])
  /\ UNCHANGED <<issued, req, server>>

\* requestJson: the connection fails, or the deadline passes without an answer.
NoAnswer ==
  /\ form.request # 0
  /\ form' = Reset([form EXCEPT !.request = 0, !.status = "error"])
  /\ UNCHANGED <<issued, req, server>>

\* Mutant: the next message starts with the token of the one that was sent.
startOverWithToken ==
  /\ form.mounted /\ form.status = "success"
  /\ form' = [form EXCEPT !.errors = NoErrors, !.attempted = FALSE, !.status = "idle"]
  /\ UNCHANGED <<issued, req, server>>

startOver ==
  /\ form.mounted /\ form.status = "success"
  /\ form' = [form EXCEPT !.errors = NoErrors, !.attempted = FALSE, !.status = "idle",
                          !.issue = NoToken, !.challenge = TRUE]
  /\ UNCHANGED <<issued, req, server>>

Page ==
  \/ Mount \/ Unmount \/ SwitchTheme \/ WidgetIssues \/ WidgetLapses
  \/ FillHoneypot \/ onSubmit \/ AnswerLands \/ NoAnswer \/ startOver
  \/ \E name \in Fields : blur(name) \/ \E content \in Contents : change(name, content)

-------------------------------------------------------------------------------
(* The server's side of submission i.                                        *)

Step(i, from, to) == req[i].at = from /\ req' = [req EXCEPT ![i].at = to]

\* The handler is over, and what it held is gone.
Over(i, to) == [req[i] EXCEPT !.at = to, !.body = Empty, !.mark = "pending"]
Answer(i, status) == req' = [req EXCEPT ![i] = [Over(i, "answered") EXCEPT !.answer = status]]

RateLimited(i) == req[i].at = "sent" /\ Answer(i, 429) /\ UNCHANGED <<form, issued, server>>

\* ContactRequest rejects a field, or something the visitor does not see.
Rejected(i) ==
  /\ req[i].at = "sent"
  /\ LET strict == {f \in Fields : req[i].body[f] = "strict"}
     IN \E fields \in IF strict # {} THEN {strict} ELSE {{}, {"turnstile"}} :
          req' = [req EXCEPT ![i] = [Over(i, "answered") EXCEPT !.answer = 422, !.fields = fields]]
  /\ UNCHANGED <<form, issued, server>>

Validated(i) == \A f \in Fields : req[i].body[f] # "strict"

Honeypot(i) ==
  /\ req[i].at = "sent" /\ Validated(i) /\ req[i].website
  /\ Answer(i, 202)
  /\ UNCHANGED <<form, issued, server>>

Accepted(i) ==
  /\ Validated(i) /\ ~req[i].website
  /\ Step(i, "sent", "verifying")
  /\ UNCHANGED <<form, issued, server>>

\* siteverify accepts a token once at most; the call can fail after it did.
Verify(i) ==
  /\ req[i].at = "verifying"
  /\ UNCHANGED <<form, issued, row, mailed, stored>>
  /\ \/ req[i].token \notin spent /\ Step(i, "verifying", "storing") /\ spent' = spent \cup {req[i].token}
     \/ Answer(i, 400) /\ spent' = spent \cup {req[i].token}
     \/ Answer(i, 503) /\ spent' \in {spent, spent \cup {req[i].token}}

\* The first commit; its failure may come after the row is in.
Store(i) ==
  /\ req[i].at = "storing"
  /\ \/ Step(i, "storing", "sending") /\ row' = [row EXCEPT ![i] = "pending"] /\ stored' = stored \cup {i}
     \/ Answer(i, 500) /\ UNCHANGED <<row, stored>>
     \/ Answer(i, 500) /\ row' = [row EXCEPT ![i] = "pending"] /\ stored' = stored \cup {i}
  /\ UNCHANGED <<form, issued, spent, mailed>>

\* Mutant: an email that was refused is recorded as sent.
SendUnasked(i) ==
  /\ req[i].at = "sending"
  /\ mailed' \in {mailed, mailed \cup {i}} /\ req' = [req EXCEPT ![i].at = "marking", ![i].mark = "sent"]
  /\ UNCHANGED <<form, issued, row, spent, stored>>

\* provider.send: the email is taken, refused, or taken without our knowing.
Send(i) ==
  /\ req[i].at = "sending"
  /\ \/ mailed' = mailed \cup {i} /\ req' = [req EXCEPT ![i].at = "marking", ![i].mark = "sent"]
     \/ mailed' \in {mailed, mailed \cup {i}} /\ req' = [req EXCEPT ![i].at = "marking", ![i].mark = "failed"]
  /\ UNCHANGED <<form, issued, row, spent, stored>>

\* The second commit fails for a row that is gone, and may fail anyway.
Mark(i) ==
  /\ req[i].at = "marking" /\ Answer(i, 202)
  /\ \/ row[i] # "deleted" /\ row' = [row EXCEPT ![i] = req[i].mark]
     \/ UNCHANGED row
  /\ UNCHANGED <<form, issued, spent, mailed, stored>>

\* The owner deletes the message, in the inbox.
DeleteMessage(i) ==
  /\ row[i] \in {"pending", "sent", "failed"}
  /\ row' = [row EXCEPT ![i] = "deleted"]
  /\ UNCHANGED <<form, issued, req, spent, mailed, stored>>

\* The process stops: what it was doing is never finished nor answered.
Crash ==
  /\ \E i \in Requests : req[i].at \notin {"unsent", "answered", "lost"}
  /\ req' = [i \in Requests |-> IF req[i].at \in {"unsent", "answered"} THEN req[i]
                                ELSE Over(i, "lost")]
  /\ UNCHANGED <<form, issued, server>>

Server ==
  \/ Crash
  \/ \E i \in Requests : \/ RateLimited(i) \/ Rejected(i) \/ Honeypot(i) \/ Accepted(i) \/ Verify(i)
                         \/ Store(i) \/ Send(i) \/ Mark(i) \/ DeleteMessage(i)

Next == Page \/ Server

Spec == Init /\ [][Next]_vars

-------------------------------------------------------------------------------

TypeOK ==
  /\ form \in [mounted : BOOLEAN, values : [Fields -> Contents], website : BOOLEAN,
               errors : [Marks -> Faults], attempted : BOOLEAN, status : Statuses,
               request : 0 .. MaxRequests, challenge : BOOLEAN,
               issue : [token : 0 .. MaxTokens, current : BOOLEAN]]
  /\ issued \in 0 .. MaxTokens
  /\ req \in [Requests -> [at : {"unsent", "sent", "verifying", "storing", "sending",
                                 "marking", "answered", "lost"},
                           token : 0 .. MaxTokens, body : [Fields -> Contents],
                           website : BOOLEAN, answer : {0} \cup Answers,
                           fields : SUBSET Marks, mark : {"pending", "sent", "failed"}]]
  /\ row \in [Requests -> {"none", "pending", "sent", "failed", "deleted"}]
  /\ spent \subseteq Tokens /\ mailed \subseteq Requests /\ stored \subseteq Requests

\* While the form can be sent, the token it would send has never been to
\* siteverify, whatever became of earlier submissions: a token is single-use
\* (useTurnstile.ts), and a spent one would be refused for no fault of the visitor.
TokenNotSpent ==
  form.status \notin {"submitting", "success"} /\ Token(form) # 0 => Token(form) \notin spent

\* No answer lies about the message: 202 means it was stored (or came from a
\* bot, and was not), a refusal means it was not; and no two submissions are
\* stored on one token (services/contact.py, api/contact.ts).
AnswersTrue ==
  /\ \A i \in Requests : req[i].at = "answered" =>
       /\ req[i].answer = 202 => (i \in stored <=> ~req[i].website)
       /\ req[i].answer \in {400, 422, 429, 503} => i \notin stored
  /\ \A i, j \in stored : req[i].token = req[j].token => i = j

\* A delivery status is what happened, through crashes, failed commits and
\* deletions: a row says sent only if the provider took its email, nothing is
\* mailed that was not stored first, and no mark brings back a row.
DeliveryTrue ==
  /\ \A i \in Requests : row[i] = "sent" => i \in mailed
  /\ mailed \subseteq stored
  /\ \A i \in Requests : row[i] # "none" => i \in stored
=============================================================================
