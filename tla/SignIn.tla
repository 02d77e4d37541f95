-------------------------------- MODULE SignIn --------------------------------
(***************************************************************************)
(* The admin panel's way in and out, in one tab: the login page and its    *)
(* Turnstile token, the two-factor step, the guard in front of the panel,  *)
(* and the signed-in shell, whose calls can find that the session is over  *)
(* and whose sign-out is answered late, twice removed, or not at all.      *)
(*                                                                         *)
(* The server is what these answers depend on: the sessions it accepts,    *)
(* the pending sign-in and the tokens it has spent (AdminAuth follows its  *)
(* steps).  Sessions and tokens are numbered as they are issued.           *)
(***************************************************************************)
EXTENDS Integers

CONSTANTS MaxTokens, MaxSessions
Bounds == MaxTokens \in Nat /\ MaxSessions \in Nat

VARIABLES
  at,            (* The screen.                                              *)
  session,       (* AdminSessionProvider's.                                  *)
  form,          (* The login page's or the code step's: status, token, ...  *)
  calls,         (* calls[k]: the request of that kind, or NoCall.           *)
  draft,         (* [kept: an editor's unsaved draft, asked: leave dialog].  *)
  cookie,        (* The session in the browser's cookie, 0 for none.         *)
  pending,       (* The browser's pending sign-in, while the server takes it.*)
  server,        (* [valid, spent, sessions, tokens, totp].                  *)
  held           (* Specification only: the session the panel opened with.   *)

vars == <<at, session, form, calls, draft, cookie, pending, server, held>>
client == <<at, session, form, draft, held>>

Screens == {"login", "code", "checking", "failed", "panel"}
Kinds == {"login", "code", "me", "page", "logout"}
Failures == {"wrongCredentials", "wrongCode", "rateLimited", "verificationFailed", "unavailable", "error"}
Statuses == Failures \cup {"idle", "invalid", "submitting", "codeExpired"}
Answers == Failures \cup {"none", "ok", "totp", "401", "fields", "tokenRefused"}

NoCall == [stage |-> "no", answer |-> "none", token |-> 0, cookie |-> 0, new |-> 0, drop |-> FALSE]
Call == [NoCall EXCEPT !.stage = "sent", !.cookie = cookie]

\* A form that has just appeared: no token yet, nothing flagged, nothing typed.
Form(status) == [status |-> status, token |-> 0, flagged |-> FALSE, typed |-> FALSE]

Init ==
  /\ at = "checking" /\ session = "unknown" /\ form = Form("idle")
  /\ calls = [[k \in Kinds |-> NoCall] EXCEPT !["me"] = [@ EXCEPT !.stage = "sent"]]
  /\ draft = [kept |-> FALSE, asked |-> FALSE]
  /\ cookie = 0 /\ pending = FALSE /\ held = 0
  /\ \E totp \in BOOLEAN :
       server = [valid |-> {}, spent |-> {}, sessions |-> 0, tokens |-> 0, totp |-> totp]

Ended(ks) == [k \in Kinds |-> IF k \in ks THEN NoCall ELSE calls[k]]

-------------------------------------------------------------------------------
(* The server.  It serves a request it got even if the page has gone on; the *)
(* answer sets a cookie when it arrives.                                     *)

Answered(kind, answer, new) ==
  calls' = [calls EXCEPT ![kind] = [@ EXCEPT !.stage = "answered", !.answer = answer, !.new = new]]

NextSession == server.sessions + 1
Issue == server.sessions < MaxSessions

\* login: the body, the address's limit, the token, which one verification
\* spends, the email's limits, the password; then a session or the second step.
ServeLogin(call) ==
  \/ /\ \E answer \in {"fields", "tokenRefused", "rateLimited"} : Answered("login", answer, 0)
     /\ UNCHANGED server
  \/ /\ Answered("login", "unavailable", 0)
     /\ \E spent \in {server.spent, server.spent \cup {call.token}} : server' = [server EXCEPT !.spent = spent]
  \/ /\ Answered("login", "verificationFailed", 0)
     /\ server' = [server EXCEPT !.spent = @ \cup {call.token}]
  \/ /\ call.token \notin server.spent
     /\ \E answer \in {"rateLimited", "401"} \cup (IF server.totp THEN {"totp"} ELSE {}) : Answered("login", answer, 0)
     /\ server' = [server EXCEPT !.spent = @ \cup {call.token}]
  \/ /\ call.token \notin server.spent /\ ~server.totp /\ Issue
     /\ Answered("login", "ok", NextSession)
     /\ server' = [server EXCEPT !.spent = @ \cup {call.token}, !.sessions = NextSession, !.valid = @ \cup {NextSession}]

\* login_totp.
ServeCode ==
  \/ /\ \E answer \in {"rateLimited", "fields"} \cup (IF pending THEN {"wrongCode", "unavailable"} ELSE {"401"}) :
          Answered("code", answer, 0)
     /\ UNCHANGED server
  \/ /\ pending /\ Issue
     /\ Answered("code", "ok", NextSession)
     /\ server' = [server EXCEPT !.sessions = NextSession, !.valid = @ \cup {NextSession}]

\* me, and every call of the panel's pages; logout, which revokes a valid session
\* and with it every other one, and is always answered.
Accepted(call) == call.cookie \in server.valid
ServeSession(kind, call) ==
  /\ \E answer \in IF Accepted(call) THEN {"ok", "error"} ELSE {"401"} : Answered(kind, answer, 0)
  /\ UNCHANGED server
ServeLogout(call) ==
  /\ Answered("logout", "ok", 0)
  /\ server' = IF Accepted(call) THEN [server EXCEPT !.valid = {}] ELSE server

Serve ==
  /\ \E kind \in Kinds :
       /\ calls[kind].stage = "sent"
       /\ CASE kind = "login" -> ServeLogin(calls[kind])
            [] kind = "code" -> ServeCode
            [] kind = "logout" -> ServeLogout(calls[kind])
            [] OTHER -> ServeSession(kind, calls[kind])
  /\ UNCHANGED <<client, cookie, pending>>

\* Sessions run out, or are revoked from another device; so is a pending sign-in.
Lapse ==
  /\ server' = [server EXCEPT !.valid = {}] /\ pending' = FALSE
  /\ UNCHANGED <<client, calls, cookie>>

-------------------------------------------------------------------------------
(* The login page.                                                           *)

\* The widget issues a token, which answers an early submit; it lapses, or a new
\* theme makes it stale.
onToken ==
  /\ at = "login" /\ form.token = 0 /\ server.tokens < MaxTokens
  /\ server' = [server EXCEPT !.tokens = @ + 1]
  /\ form' = [form EXCEPT !.token = server.tokens + 1, !.flagged = @ /\ ~form.typed]
  /\ UNCHANGED <<at, session, calls, draft, cookie, pending, held>>

onLapse ==
  /\ at = "login" /\ form.token # 0
  /\ form' = [form EXCEPT !.token = 0]
  /\ UNCHANGED <<at, session, calls, draft, cookie, pending, server, held>>

\* change and blur: the fields hold what validates, or they are flagged.
change ==
  /\ at \in {"login", "code"} /\ ~form.typed
  /\ form' = [form EXCEPT !.typed = TRUE, !.flagged = FALSE]
  /\ UNCHANGED <<at, session, calls, draft, cookie, pending, server, held>>

onSubmit ==
  /\ at = "login" /\ form.status # "submitting"
  /\ IF form.typed /\ form.token # 0
     THEN /\ form' = [form EXCEPT !.status = "submitting", !.flagged = FALSE]
          /\ calls' = [calls EXCEPT !["login"] = [Call EXCEPT !.token = form.token]]
     ELSE form' = [form EXCEPT !.status = "invalid", !.flagged = TRUE] /\ UNCHANGED calls
  /\ UNCHANGED <<at, session, draft, cookie, pending, server, held>>

onSubmitCode ==
  /\ at = "code" /\ form.status # "submitting"
  /\ IF form.typed
     THEN form' = [form EXCEPT !.status = "submitting"] /\ calls' = [calls EXCEPT !["code"] = Call]
     ELSE form' = [form EXCEPT !.status = "invalid", !.flagged = TRUE] /\ UNCHANGED calls
  /\ UNCHANGED <<at, session, draft, cookie, pending, server, held>>

\* turnstile.reset: the token may be spent.
reset(f) == [f EXCEPT !.token = 0]

\* What a failed login leaves on the page.
Refused(answer) ==
  CASE answer = "fields" -> [form EXCEPT !.status = "invalid", !.flagged = TRUE, !.typed = FALSE]
    [] answer = "tokenRefused" -> reset([form EXCEPT !.status = "invalid"])
    [] answer = "401" -> reset([form EXCEPT !.status = "wrongCredentials", !.typed = FALSE])
    [] OTHER -> reset([form EXCEPT !.status = IF answer = "none" THEN "error" ELSE answer])

\* signIn and navigate(from): the guard takes the session as proven.
signIn(id) == at' = "panel" /\ session' = "signedIn" /\ held' = id /\ form' = Form("idle")

LoginLands(answer, new) ==
  CASE answer = "ok" -> signIn(new) /\ cookie' = new /\ UNCHANGED <<draft, pending, server>>
    [] answer = "totp" -> /\ at' = "code" /\ form' = Form("idle") /\ pending' = TRUE
                          /\ UNCHANGED <<session, draft, cookie, server, held>>
    [] OTHER -> form' = Refused(answer) /\ UNCHANGED <<at, session, draft, cookie, pending, server, held>>

\* onRestart: the password step returns, with a new widget.
onRestart(status) == at' = "login" /\ form' = Form(status)

CodeLands(answer, new) ==
  CASE answer = "ok" -> signIn(new) /\ cookie' = new /\ pending' = FALSE /\ UNCHANGED <<draft, server>>
    [] answer = "401" -> onRestart("codeExpired") /\ UNCHANGED <<session, draft, cookie, pending, server, held>>
    [] OTHER -> /\ form' = [form EXCEPT !.status = CASE answer = "fields" -> "invalid" [] answer = "none" -> "error"
                                                     [] OTHER -> answer,
                                        !.typed = @ /\ answer # "wrongCode", !.flagged = answer \in {"wrongCode", "fields"}]
                /\ UNCHANGED <<at, session, draft, cookie, pending, server, held>>

\* A request that its page aborts is not heard of again, but its answer may have
\* set its cookie.
Kept(kind) == {cookie} \cup ({calls[kind].new} \ {0})

StartOver ==
  /\ at = "code" /\ onRestart("idle") /\ calls' = Ended({"code"})
  /\ cookie' \in Kept("code")
  /\ UNCHANGED <<session, draft, pending, server, held>>

-------------------------------------------------------------------------------
(* The guard, and the signed-in shell.                                       *)

\* Mutant: the calls of a shell that is gone are not aborted.
ShellUnaborted == {}

\* What goes with the shell: its calls are aborted, but not a sign-out.
Shell == {"page"}

MeLands(answer, id) ==
  /\ CASE answer = "ok" -> signIn(id)
       [] answer = "401" -> onRestart("idle") /\ UNCHANGED <<session, held>>
       [] OTHER -> at' = "failed" /\ UNCHANGED <<session, form, held>>
  /\ UNCHANGED <<draft, cookie, pending, server>>

Retry ==
  /\ at = "failed" /\ at' = "checking" /\ calls' = [calls EXCEPT !["me"] = Call]
  /\ UNCHANGED <<session, form, draft, cookie, pending, server, held>>

\* A page loads its data, the summary is asked for, the owner acts.
Ask ==
  /\ at = "panel" /\ calls["page"] = NoCall /\ calls' = [calls EXCEPT !["page"] = Call]
  /\ UNCHANGED <<client, cookie, pending, server>>

\* expire: the guard goes to the login page, wherever the 401 came from.
expire ==
  /\ session' = "expired"
  /\ IF at = "panel" THEN onRestart("idle") /\ draft' = [draft EXCEPT !.asked = FALSE] ELSE UNCHANGED <<at, form, draft>>
PageLands(answer) ==
  /\ IF answer = "401" THEN expire ELSE UNCHANGED <<at, session, form, draft>>
  /\ UNCHANGED <<cookie, pending, server, held>>

\* Unsaved changes are kept in the tab; leaving with them is asked about first.
Edit ==
  /\ at = "panel" /\ ~draft.asked /\ draft' = [draft EXCEPT !.kept = ~@]
  /\ UNCHANGED <<at, session, form, calls, cookie, pending, server, held>>

requestSignOut ==
  /\ at = "panel" /\ calls["logout"] = NoCall /\ ~draft.asked
  /\ IF draft.kept THEN draft' = [draft EXCEPT !.asked = TRUE] /\ UNCHANGED calls
     ELSE calls' = [calls EXCEPT !["logout"] = Call] /\ UNCHANGED draft
  /\ UNCHANGED <<at, session, form, cookie, pending, server, held>>

\* The dialog: cancelled, or confirmed, with the draft to forget once it worked.
leave ==
  /\ draft.asked /\ draft' = [draft EXCEPT !.asked = FALSE]
  /\ \/ UNCHANGED calls
     \/ calls["logout"] = NoCall /\ calls' = [calls EXCEPT !["logout"] = [Call EXCEPT !.drop = TRUE]]
  /\ UNCHANGED <<at, session, form, cookie, pending, server, held>>

\* signOutNow: whatever is on the screen by then.  One that failed changes nothing.
LogoutLands(answer, drop) ==
  IF answer # "ok" THEN UNCHANGED <<client, cookie, pending, server>>
  ELSE /\ session' = "signedOut"
       /\ IF at \in {"login", "code"} THEN UNCHANGED <<at, form>> ELSE onRestart("idle")
       /\ draft' = [kept |-> draft.kept /\ ~drop, asked |-> FALSE]
       /\ cookie' = 0 /\ pending' = FALSE
       /\ UNCHANGED <<server, held>>

\* The calls that the effect of an answer aborts.
Aborted == (IF at = "panel" /\ at' # "panel" THEN Shell ELSE {}) \cup (IF at = "checking" THEN {"me"} ELSE {})

Hear(kind, answer) ==
  /\ LET call == calls[kind] IN
       CASE kind = "login" -> LoginLands(answer, call.new)
         [] kind = "code" -> CodeLands(answer, call.new)
         [] kind = "me" -> MeLands(answer, call.cookie)
         [] kind = "page" -> PageLands(answer)
         [] kind = "logout" -> LogoutLands(answer, call.drop)
  /\ calls' = Ended({kind} \cup Aborted)

\* An answer arrives; or none does, and what the server did is not known.
Land == \E kind \in Kinds : calls[kind].stage = "answered" /\ Hear(kind, calls[kind].answer)
NoAnswer == \E kind \in Kinds : calls[kind].stage # "no" /\ Hear(kind, "none")

-------------------------------------------------------------------------------
(* Navigation in the tab.                                                    *)

\* A page of the panel from the login page: an expired session leads back to it,
\* with a new form.
VisitPanel ==
  /\ at \in {"login", "code"}
  /\ IF session = "expired"
     THEN onRestart("idle") /\ calls' = Ended({"login", "code"})
     ELSE at' = "checking" /\ form' = Form("idle") /\ calls' = [Ended({"login", "code"}) EXCEPT !["me"] = Call]
  /\ cookie' \in Kept("login") \cup Kept("code")
  /\ UNCHANGED <<session, draft, pending, server, held>>

\* The login page from the panel, which a session that is signed in leads back to;
\* or from the guard.
VisitLogin ==
  /\ at \in {"panel", "checking", "failed"}
  /\ IF at = "panel" THEN UNCHANGED <<at, form>> ELSE onRestart("idle")
  /\ calls' = Ended(IF at = "panel" THEN Shell ELSE {"me"})
  /\ draft' = [draft EXCEPT !.asked = FALSE]
  /\ UNCHANGED <<session, cookie, pending, server, held>>

\* A reload of either: nothing but the cookies and the kept draft is left.
Reload ==
  /\ session' = "unknown" /\ form' = Form("idle") /\ held' = 0
  /\ draft' = [draft EXCEPT !.asked = FALSE]
  /\ at' \in {"login", "checking"}
  /\ cookie' \in Kept("login") \cup Kept("code") \cup (IF calls["logout"].answer = "ok" THEN {0} ELSE {})
  /\ calls' = [[k \in Kinds |-> NoCall] EXCEPT
                !["me"] = IF at' = "checking" THEN [@ EXCEPT !.stage = "sent", !.cookie = cookie'] ELSE @]
  /\ UNCHANGED <<pending, server>>

Next ==
  \/ onToken \/ onLapse \/ change \/ onSubmit \/ onSubmitCode \/ StartOver
  \/ Retry \/ Ask \/ Edit \/ requestSignOut \/ leave
  \/ Serve \/ Lapse \/ Land \/ NoAnswer
  \/ VisitPanel \/ VisitLogin \/ Reload

Spec == Init /\ [][Next]_vars

-------------------------------------------------------------------------------

TypeOK ==
  /\ at \in Screens /\ session \in {"unknown", "signedIn", "signedOut", "expired"}
  /\ form \in [status : Statuses, token : 0..MaxTokens, flagged : BOOLEAN, typed : BOOLEAN]
  /\ calls \in [Kinds -> [stage : {"no", "sent", "answered"}, answer : Answers, token : 0..MaxTokens,
                          cookie : 0..MaxSessions, new : 0..MaxSessions, drop : BOOLEAN]]
  /\ draft \in [kept : BOOLEAN, asked : BOOLEAN]
  /\ cookie \in 0..MaxSessions /\ held \in 0..MaxSessions /\ pending \in BOOLEAN
  /\ server \in [valid : SUBSET (1..MaxSessions), spent : SUBSET (1..MaxTokens),
                 sessions : 0..MaxSessions, tokens : 0..MaxTokens, totp : BOOLEAN]

\* A 401 ends only the session its request was made in: the panel says that the
\* session has expired only when the server no longer takes the session it was
\* opened with, whatever was still on its way from the session before.  (The answer
\* to a sign-out of that session is not a 401: LogoutLands, and it does end this one.)
NoStaleExpiry == session = "expired" => held \notin server.valid

\* A token is single-use: the login page never holds, ready to be sent, one that
\* the server has spent, whichever way the attempt that carried it ended.
LoginTokenNotSpent == at = "login" /\ form.status # "submitting" => form.token \notin server.spent
===============================================================================
