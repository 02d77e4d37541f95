------------------------------- MODULE TwoFactor -------------------------------
(***************************************************************************)
(* Turning two-factor sign-in on and off from the security page            *)
(* (pages/SecurityPage.tsx, security/TotpConfirmForm.tsx): the secret that *)
(* is shown and scanned, the pending and the active secret at the server   *)
(* (services/totp.py; AdminAuth follows its rows and sessions), and other  *)
(* tabs at the same page.  Secrets are numbered as they are issued.        *)
(***************************************************************************)
EXTENDS Naturals

CONSTANTS MaxSecrets, MaxUpsets
Bounds == MaxSecrets \in Nat \ {0} /\ MaxUpsets \in Nat

VARIABLES
  totp,          (* The row: [active, pending, issued], 0 for no secret.     *)
  status,        (* The page's query: [status, on, at, answer].              *)
  setup,         (* The secret on the screen, and the request for one.       *)
  confirm,       (* The confirmation form: [status, at, answer].             *)
  scanned,       (* The secrets in the owner's app.                          *)
  upsets         (* Failures, other tabs' changes, abandoned requests.       *)

vars == <<totp, status, setup, confirm, scanned, upsets>>

Secrets == 1..MaxSecrets
Refusals == {"wrongPassword", "codeWrong", "rateLimited", "unavailable", "fields"}
NoForm == [status |-> "idle", at |-> "none", answer |-> "none"]
NoSetup == [secret |-> 0, state |-> "idle", at |-> "none", answer |-> 0]

\* useAdminQuery: a reload keeps what is shown.
Load(s) == [s EXCEPT !.status = "loading", !.at = "sent"]

Init ==
  /\ \E on \in 0..1 : totp = [active |-> on, pending |-> 0, issued |-> on] /\ scanned = 1..on
  /\ status = Load([status |-> "loading", on |-> FALSE, loaded |-> FALSE, at |-> "none", answer |-> FALSE])
  /\ setup = NoSetup /\ confirm = NoForm /\ upsets = 0

Upset == upsets < MaxUpsets /\ upsets' = upsets + 1

\* What the page shows: the form to turn it off, the one to turn it on under the
\* secret, or the button that starts.
Disabling == status.loaded /\ status.on
Enabling == status.loaded /\ ~status.on /\ setup.secret # 0
Ready == status.loaded /\ ~status.on /\ setup.secret = 0

-------------------------------------------------------------------------------
(* The server.                                                               *)

GetStatus ==
  /\ status.at = "sent" /\ status' = [status EXCEPT !.at = "answered", !.answer = totp.active # 0]
  /\ UNCHANGED <<totp, setup, confirm, scanned, upsets>>

NewSecret == totp.issued < MaxSecrets /\ totp' = [totp EXCEPT !.pending = totp.issued + 1, !.issued = @ + 1]

\* start_setup: a new pending secret, unless it is on.
StartSetup ==
  /\ setup.at = "sent"
  /\ IF totp.active # 0 THEN setup' = [setup EXCEPT !.at = "conflict"] /\ UNCHANGED totp
     ELSE NewSecret /\ setup' = [setup EXCEPT !.at = "answered", !.answer = totp.issued + 1]
  /\ UNCHANGED <<status, confirm, scanned, upsets>>

\* Mutant: the code is checked against the secret it was made from.
enableAnyCode(code) ==
  IF totp.active # 0 \/ totp.pending = 0 THEN "conflict" ELSE "ok"

\* enable and disable, after the password: the row is locked, and the code
\* checked against the secret it holds now.
enable(code) ==
  IF totp.active # 0 \/ totp.pending = 0 THEN "conflict" ELSE IF code = totp.pending THEN "ok" ELSE "codeWrong"
disable(code) ==
  IF totp.active = 0 THEN "conflict" ELSE IF code = totp.active THEN "ok" ELSE "codeWrong"

Enabled == [totp EXCEPT !.active = totp.pending, !.pending = 0]
Disabled == [totp EXCEPT !.active = 0, !.pending = 0]

\* The owner's code is of a secret in the app, when it is right at all.
Confirmed ==
  /\ confirm.at \in {"enable", "disable"}
  /\ \/ \E code \in scanned :
          LET answer == IF confirm.at = "enable" THEN enable(code) ELSE disable(code)
          IN /\ confirm' = [confirm EXCEPT !.at = "answered", !.answer = answer]
             /\ totp' = IF answer # "ok" THEN totp ELSE IF confirm.at = "enable" THEN Enabled ELSE Disabled
     \/ \E refusal \in Refusals : confirm' = [confirm EXCEPT !.at = "answered", !.answer = refusal] /\ UNCHANGED totp
  /\ UNCHANGED <<status, setup, scanned, upsets>>

\* Another tab shows a new secret, which is scanned or not, confirms or turns off.
Outside ==
  /\ Upset
  /\ \/ /\ totp.active = 0 /\ NewSecret
        /\ scanned' \in {scanned, scanned \cup {totp.issued + 1}}
     \/ (\E code \in scanned : enable(code) = "ok") /\ totp' = Enabled /\ UNCHANGED scanned
     \/ (\E code \in scanned : disable(code) = "ok") /\ totp' = Disabled /\ UNCHANGED scanned
  /\ UNCHANGED <<status, setup, confirm>>

-------------------------------------------------------------------------------
(* The page.                                                                 *)

StatusLands ==
  /\ status.at = "answered"
  /\ status' = [status EXCEPT !.status = "ready", !.on = status.answer, !.loaded = TRUE, !.at = "none"]
  /\ confirm' = IF status.answer # status.on THEN NoForm ELSE confirm
  /\ UNCHANGED <<totp, setup, scanned, upsets>>

StatusFails ==
  /\ status.at # "none" /\ Upset /\ status' = [status EXCEPT !.status = "error", !.at = "none"]
  /\ UNCHANGED <<totp, setup, confirm, scanned>>

\* Retry is there as long as there is nothing else to show.
retry ==
  /\ status.status = "error" /\ ~status.loaded /\ status' = Load(status)
  /\ UNCHANGED <<totp, setup, confirm, scanned, upsets>>

begin ==
  /\ Ready /\ setup.state # "starting"
  /\ setup' = [NoSetup EXCEPT !.state = "starting", !.at = "sent"]
  /\ UNCHANGED <<totp, status, confirm, scanned, upsets>>

\* conflict: it was changed elsewhere, so the page loads the current state.
conflict == setup' = NoSetup /\ status' = Load(status) /\ confirm' = NoForm

SetupLands ==
  /\ \/ setup.at = "answered" /\ setup' = [NoSetup EXCEPT !.secret = setup.answer] /\ UNCHANGED <<status, confirm>>
     \/ setup.at = "conflict" /\ conflict
  /\ UNCHANGED <<totp, scanned, upsets>>

SetupFails ==
  /\ setup.at # "none" /\ Upset /\ setup' = [NoSetup EXCEPT !.state = "failed"]
  /\ UNCHANGED <<totp, status, confirm, scanned>>

\* The owner scans the QR code on the screen.
Scan ==
  /\ Enabling /\ scanned' = scanned \cup {setup.secret}
  /\ UNCHANGED <<totp, status, setup, confirm, upsets>>

\* Cancel: the form goes with the secret, its request aborted; it may have been,
\* or still be, carried out.
cancel ==
  /\ Enabling /\ setup' = NoSetup /\ confirm' = NoForm
  /\ IF confirm.at = "none" THEN UNCHANGED <<totp, upsets>>
     ELSE Upset /\ totp' \in {totp} \cup {Enabled : code \in {c \in scanned : confirm.at = "enable" /\ enable(c) = "ok"}}
  /\ UNCHANGED <<status, scanned>>

\* onSubmit: what does not validate is flagged, or the confirmation is sent.
onSubmit ==
  /\ (Disabling \/ Enabling) /\ confirm.status # "submitting"
  /\ confirm.at = "none"
  /\ confirm' \in {[NoForm EXCEPT !.status = "invalid"],
                   [NoForm EXCEPT !.status = "submitting", !.at = IF Disabling THEN "disable" ELSE "enable"]}
  /\ UNCHANGED <<totp, status, setup, scanned, upsets>>

\* changed: the status in the answer is shown; the form goes.
ConfirmLands ==
  /\ confirm.at = "answered"
  /\ CASE confirm.answer = "ok" -> /\ status' = [status EXCEPT !.on = ~@]
                                   /\ setup' = NoSetup /\ confirm' = NoForm
       [] confirm.answer = "conflict" -> conflict
       [] OTHER -> /\ confirm' = [NoForm EXCEPT !.status = IF confirm.answer \in {"rateLimited", "unavailable"}
                                                            THEN confirm.answer ELSE "invalid"]
                   /\ UNCHANGED <<status, setup>>
  /\ UNCHANGED <<totp, scanned, upsets>>

ConfirmFails ==
  /\ confirm.at # "none" /\ Upset /\ confirm' = [NoForm EXCEPT !.status = "error"]
  /\ UNCHANGED <<totp, status, setup, scanned>>

Next ==
  \/ GetStatus \/ StartSetup \/ Confirmed \/ Outside
  \/ StatusLands \/ StatusFails \/ retry
  \/ begin \/ SetupLands \/ SetupFails \/ Scan \/ cancel
  \/ onSubmit \/ ConfirmLands \/ ConfirmFails

Spec == Init /\ [][Next]_vars

-------------------------------------------------------------------------------

TypeOK ==
  /\ totp \in [active : 0..MaxSecrets, pending : 0..MaxSecrets, issued : 0..MaxSecrets]
  /\ status \in [status : {"loading", "ready", "error"}, on : BOOLEAN, loaded : BOOLEAN,
                 at : {"none", "sent", "answered"}, answer : BOOLEAN]
  /\ setup \in [secret : 0..MaxSecrets, state : {"idle", "starting", "failed"},
                at : {"none", "sent", "answered", "conflict"}, answer : 0..MaxSecrets]
  /\ confirm \in [status : {"idle", "submitting", "invalid", "rateLimited", "unavailable", "error"},
                  at : {"none", "enable", "disable", "answered"},
                  answer : Refusals \cup {"none", "ok", "conflict"}]
  /\ scanned \subseteq Secrets /\ upsets \in 0..MaxUpsets

\* Nobody is locked out: two-factor sign-in is only ever on with a secret that is
\* in the owner's app, whichever tabs started a setup, scanned, gave up or
\* confirmed, and whatever answers were lost.
NotLockedOut == totp.active # 0 => totp.active \in scanned

\* The page says on or off as the server has it once everything is answered,
\* unless something failed, another tab changed it, or a confirmation was abandoned.
StatusSettles ==
  status.status = "ready" /\ setup.at = "none" /\ confirm.at = "none" /\ upsets = 0 => status.on = (totp.active # 0)
===============================================================================
