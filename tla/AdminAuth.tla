------------------------------ MODULE AdminAuth ------------------------------
(***************************************************************************)
(* The admin's sign-in (src/backend/app): the one admin row, the session   *)
(* and pending-sign-in tokens whose version it revokes, two-factor         *)
(* sign-in, the startup that makes the configured account the only one,    *)
(* and the reset command that runs beside the server.                      *)
(*                                                                         *)
(* Requests interleave at their awaits, and PostgreSQL isolates them at    *)
(* READ COMMITTED.  A change made on the row locked FOR UPDATE is one      *)
(* action: nobody else writes the row before its commit, and a plain read  *)
(* before it sees the old row.  A read without the lock and the write that *)
(* uses it are two actions.                                                *)
(*                                                                         *)
(* A refused attempt (a limit, the challenge, a wrong password) changes    *)
(* nothing here: it is a request that does not start, or gives up.  A      *)
(* token's expiry only takes away requests a client might not send anyway. *)
(***************************************************************************)
EXTENDS Naturals

CONSTANTS
  Requests,      (* Concurrent requests to the API.                          *)
  NumEmails,     (* Values ADMIN_EMAIL takes over the restarts.              *)
  NumPasswords,  (* Values ADMIN_PASSWORD takes over the restarts.           *)
  MaxIds,        (* Bound on the admin rows ever inserted.                   *)
  MaxVersion,    (* Bound on session_version.                                *)
  MaxSecrets,    (* Bound on the authenticator secrets ever made.            *)
  MaxStep        (* Bound on the clock, in 30-second code steps.             *)

ASSUME AuthAssumption ==
  /\ NumEmails \in Nat \ {0} /\ NumPasswords \in Nat \ {0}
  /\ MaxIds \in Nat /\ MaxVersion \in Nat /\ MaxSecrets \in Nat
  /\ MaxStep \in Nat \ {0}

VARIABLES
  row,           (* The admin_users row; its id is None before the first.    *)
  config,        (* ADMIN_EMAIL and ADMIN_PASSWORD of the current process.   *)
  boot,          (* Where ensure_admin_user is: it runs before any request.  *)
  req,           (* req[r]: where request r is and what it has read.         *)
  tokens,        (* The session and pending tokens ever issued.              *)
  ids,           (* The identity sequence of admin_users.                    *)
  secrets,       (* How many authenticator secrets were made.                *)
  step,          (* The current code step, core/totp.py current_counter.     *)
  used,          (* History: the codes accepted so far, <<secret, step>>.    *)
  replayed,      (* History: some code was accepted twice.                   *)
  lost           (* History: a logout wrote over a version it had not read.  *)

vars == <<row, config, boot, req, tokens, ids, secrets, step, used, replayed, lost>>

None == 0
Emails == 1 .. NumEmails
Passwords == 1 .. NumPasswords

\* The row: secret and pending are None or a secret, last is totp_last_counter.
Row == [id : Nat, email : Nat, pw : Nat, version : Nat,
        secret : Nat, pending : Nat, last : Nat]

\* A row inserted by the startup, with the model's defaults.
NewRow(id, email, pw) ==
  [id |-> id, email |-> email, pw |-> pw, version |-> 1,
   secret |-> None, pending |-> None, last |-> None]

\* A token: kind, id and version are its claims; factor and pw are history:
\* whether a code was checked for it, and the password that was.
Token == [kind : {"session", "pending"}, id : Nat, version : Nat,
          factor : BOOLEAN, pw : Nat]

\* What a request has read of the row: on is whether two-factor sign-in was on.
Kinds == {"idle", "login", "totp", "logout", "setup", "enable", "disable"}
Request == [at : Kinds, id : Nat, version : Nat, on : BOOLEAN, pw : Nat]
Idle == [at |-> "idle", id |-> None, version |-> 0, on |-> FALSE, pw |-> None]

\* Startup: "up" answers requests; "rehash" and "insert" are about to commit.
Boot == [at : {"down", "rehash", "insert", "up"}, version : Nat]
Serving == boot.at = "up"

Init ==
  /\ row = [NewRow(None, None, None) EXCEPT !.version = 0]
  /\ config \in [email : Emails, pw : Passwords]
  /\ boot = [at |-> "down", version |-> 0]
  /\ req = [r \in Requests |-> Idle]
  /\ tokens = {}
  /\ ids = 0 /\ secrets = 0 /\ step = 1
  /\ used = {} /\ replayed = FALSE /\ lost = FALSE

-------------------------------------------------------------------------------
(* Startup and the reset command                                            *)

History == <<used, replayed, lost>>

\* ensure_admin_user's lookup, without a lock: the configured account is there
\* with its password (nothing to do), has another password, or is missing.
BootRead ==
  /\ boot.at = "down"
  /\ boot' = IF row.id = None \/ row.email # config.email
             THEN [at |-> "insert", version |-> 0]
             ELSE IF row.pw # config.pw
             THEN [at |-> "rehash", version |-> row.version]
             ELSE [at |-> "up", version |-> 0]
  /\ UNCHANGED <<row, config, req, tokens, ids, secrets, step, History>>

\* Mutant: the new password is stored, the sessions of the old one live on.
BootRehashKeepingSessions ==
  /\ boot.at = "rehash"
  /\ row' = [row EXCEPT !.pw = config.pw]
  /\ boot' = [at |-> "up", version |-> 0]
  /\ UNCHANGED <<config, req, tokens, ids, secrets, step, History>>

\* The new password and the version read before its hashing plus one.
BootRehash ==
  /\ boot.at = "rehash" /\ boot.version < MaxVersion
  /\ row' = [row EXCEPT !.pw = config.pw, !.version = boot.version + 1]
  /\ boot' = [at |-> "up", version |-> 0]
  /\ UNCHANGED <<config, req, tokens, ids, secrets, step, History>>

\* The account is inserted and every other one deleted, in one transaction.
BootInsert ==
  /\ boot.at = "insert" /\ ids < MaxIds
  /\ ids' = ids + 1
  /\ row' = NewRow(ids + 1, config.email, config.pw)
  /\ boot' = [at |-> "up", version |-> 0]
  /\ UNCHANGED <<config, req, tokens, secrets, step, History>>

\* The server stops, every request with it, and starts with a configuration.
Restart ==
  /\ boot' = [at |-> "down", version |-> 0]
  /\ req' = [r \in Requests |-> Idle]
  /\ config' \in [email : Emails, pw : Passwords]
  /\ UNCHANGED <<row, tokens, ids, secrets, step, History>>

\* Mutant: the row goes back to the values it was inserted with.
ClearedToDefaults(a) ==
  [a EXCEPT !.secret = None, !.pending = None, !.last = None, !.version = 1]

\* services/totp.py clear: both secrets forgotten, the sessions revoked.
Cleared(a) ==
  [a EXCEPT !.secret = None, !.pending = None, !.last = None, !.version = @ + 1]

\* `python -m app.admin_totp reset`, in a process of its own, on the locked row.
Reset ==
  /\ row.id # None /\ row.email = config.email
  /\ row.version < MaxVersion
  /\ row' = Cleared(row)
  /\ UNCHANGED <<config, boot, req, tokens, ids, secrets, step, History>>

Tick ==
  /\ step < MaxStep
  /\ step' = step + 1
  /\ UNCHANGED <<row, config, boot, req, tokens, ids, secrets, History>>

-------------------------------------------------------------------------------
(* Tokens and codes                                                         *)

\* get_admin_for_session: the token names the row and its version.
Current(t) == row.id = t.id /\ row.version = t.version

\* start_session, and the pending cookie of a first step.
Issue(kind, id, version, factor, pw) ==
  tokens' = tokens \union {[kind |-> kind, id |-> id, version |-> version,
                            factor |-> factor, pw |-> pw]}

\* core/totp.py match_code: the code's step is at most one off and later than
\* the last one accepted.
Matches(c, last) == c + 1 >= step /\ c <= step + 1 /\ c > last

Accept(secret, c) ==
  /\ used' = used \union {<<secret, c>>}
  /\ replayed' = (replayed \/ <<secret, c>> \in used)

Codes == 1 .. MaxStep + 1

-------------------------------------------------------------------------------
(* Sign-in                                                                  *)

Read(kind, pw) ==
  [at |-> kind, id |-> row.id, version |-> row.version,
   on |-> row.secret # None, pw |-> pw]

End(r) == req' = [req EXCEPT ![r] = Idle]

\* POST /auth/login: authenticate_admin reads the row, then checks its hash in
\* the thread pool.  The attempts that fail change nothing.
LoginRead(r) ==
  /\ Serving /\ req[r].at = "idle"
  /\ req' = [req EXCEPT ![r] = Read("login", row.pw)]
  /\ UNCHANGED <<row, config, boot, tokens, ids, secrets, step, History>>

\* The password was right: a session, or with two-factor sign-in on a pending
\* token, for the version that was read.
LoginAnswer(r) ==
  /\ req[r].at = "login"
  /\ Issue(IF req[r].on THEN "pending" ELSE "session",
           req[r].id, req[r].version, FALSE, req[r].pw)
  /\ End(r)
  /\ UNCHANGED <<row, config, boot, ids, secrets, step, History>>

\* POST /auth/login/totp: the pending token is current, two-factor sign-in on.
TotpRead(r, t) ==
  /\ Serving /\ req[r].at = "idle"
  /\ t.kind = "pending" /\ Current(t) /\ row.secret # None
  /\ req' = [req EXCEPT ![r] = Read("totp", t.pw)]
  /\ UNCHANGED <<row, config, boot, tokens, ids, secrets, step, History>>

\* Mutant: the accepted code's step is not recorded.
TotpVerifyUnrecorded(r, c) ==
  /\ req[r].at = "totp" /\ row.secret # None /\ Matches(c, row.last)
  /\ Accept(row.secret, c)
  /\ Issue("session", row.id, row.version, TRUE, req[r].pw)
  /\ End(r)
  /\ UNCHANGED <<row, config, boot, ids, secrets, step, lost>>

\* verify_sign_in_code on the locked, re-read row: the code's step is recorded
\* and the session is for the version the lock found.
TotpVerify(r, c) ==
  /\ req[r].at = "totp" /\ row.secret # None /\ Matches(c, row.last)
  /\ row' = [row EXCEPT !.last = c]
  /\ Accept(row.secret, c)
  /\ Issue("session", row.id, row.version, TRUE, req[r].pw)
  /\ End(r)
  /\ UNCHANGED <<config, boot, ids, secrets, step, lost>>

-------------------------------------------------------------------------------
(* Requests with a session                                                  *)

\* get_current_admin (and logout's own lookup): a plain read, then a commit.
AdminRead(r, t, kind) ==
  /\ Serving /\ req[r].at = "idle"
  /\ t.kind = "session" /\ Current(t)
  /\ req' = [req EXCEPT ![r] = Read(kind, t.pw)]
  /\ UNCHANGED <<row, config, boot, tokens, ids, secrets, step, History>>

\* Mutant: signing out only drops the cookie.
LogoutCookieOnly(r) ==
  /\ req[r].at = "logout"
  /\ End(r)
  /\ UNCHANGED <<row, config, boot, tokens, ids, secrets, step, History>>

\* revoke_sessions: the version read without a lock plus one, written over
\* whatever the row holds by now.
LogoutWrite(r) ==
  /\ req[r].at = "logout" /\ req[r].version < MaxVersion
  /\ row' = [row EXCEPT !.version = req[r].version + 1]
  /\ lost' = (lost \/ row.version # req[r].version)
  /\ End(r)
  /\ UNCHANGED <<config, boot, tokens, ids, secrets, step, used, replayed>>

\* Mutant: the secret's number is not taken from the sequence.
SetupWriteUncounted(r) ==
  /\ req[r].at = "setup" /\ row.secret = None /\ secrets < MaxSecrets
  /\ row' = [row EXCEPT !.pending = secrets + 1]
  /\ End(r)
  /\ UNCHANGED <<config, boot, tokens, ids, secrets, step, History>>

\* start_setup: a new pending secret, unless two-factor sign-in is on.
SetupWrite(r) ==
  /\ req[r].at = "setup" /\ row.secret = None /\ secrets < MaxSecrets
  /\ secrets' = secrets + 1
  /\ row' = [row EXCEPT !.pending = secrets + 1]
  /\ End(r)
  /\ UNCHANGED <<config, boot, tokens, ids, step, History>>

\* Mutant: turning two-factor sign-in on revokes nothing.
EnableWriteKeepingSessions(r, c) ==
  /\ req[r].at = "enable" /\ row.secret = None /\ row.pending # None
  /\ Matches(c, None)
  /\ row' = [row EXCEPT !.secret = row.pending, !.pending = None, !.last = c]
  /\ Accept(row.pending, c)
  /\ Issue("session", row.id, row.version, TRUE, row.pw)
  /\ End(r)
  /\ UNCHANGED <<config, boot, ids, secrets, step, lost>>

\* enable, after the password was checked again: the pending secret becomes the
\* secret, the code counts as used, and only the caller's new session is left.
EnableWrite(r, c) ==
  /\ req[r].at = "enable" /\ row.secret = None /\ row.pending # None
  /\ Matches(c, None) /\ row.version < MaxVersion
  /\ row' = [row EXCEPT !.secret = row.pending, !.pending = None, !.last = c,
                        !.version = @ + 1]
  /\ Accept(row.pending, c)
  /\ Issue("session", row.id, row.version + 1, TRUE, row.pw)
  /\ End(r)
  /\ UNCHANGED <<config, boot, ids, secrets, step, lost>>

\* disable, after the password was checked again, with a code not used before.
DisableWrite(r, c) ==
  /\ req[r].at = "disable" /\ row.secret # None
  /\ Matches(c, row.last) /\ row.version < MaxVersion
  /\ row' = Cleared(row)
  /\ Accept(row.secret, c)
  /\ Issue("session", row.id, row.version + 1, TRUE, row.pw)
  /\ End(r)
  /\ UNCHANGED <<config, boot, ids, secrets, step, lost>>

\* Any later refusal: a limit, a wrong password or code, a conflict, an error.
GiveUp(r) ==
  /\ req[r].at # "idle"
  /\ End(r)
  /\ UNCHANGED <<row, config, boot, tokens, ids, secrets, step, History>>

-------------------------------------------------------------------------------

BootNext == BootRead \/ BootRehash \/ BootInsert \/ Restart

SignIn(r) ==
  \/ LoginRead(r) \/ LoginAnswer(r)
  \/ \E t \in tokens : TotpRead(r, t)
  \/ \E c \in Codes : TotpVerify(r, c)

Manage(r) ==
  \/ \E t \in tokens, kind \in {"logout", "setup", "enable", "disable"} : AdminRead(r, t, kind)
  \/ LogoutWrite(r) \/ SetupWrite(r)
  \/ \E c \in Codes : EnableWrite(r, c) \/ DisableWrite(r, c)

Next ==
  \/ BootNext \/ Reset \/ Tick
  \/ \E r \in Requests : SignIn(r) \/ Manage(r) \/ GiveUp(r)

Spec == Init /\ [][Next]_vars

-------------------------------------------------------------------------------
(* Properties                                                               *)

\* Every variable has its type, and ids and secrets come from their sequences.
TypeOK ==
  /\ row \in Row
  /\ config \in [email : Emails, pw : Passwords]
  /\ boot \in Boot
  /\ req \in [Requests -> Request]
  /\ tokens \subseteq Token
  /\ ids \in Nat /\ secrets \in Nat /\ step \in Nat
  /\ used \subseteq Nat \X Nat
  /\ replayed \in BOOLEAN /\ lost \in BOOLEAN
  /\ row.id <= ids /\ row.secret <= secrets /\ row.pending <= secrets

\* While two-factor sign-in is on, no session is valid that was not obtained
\* with a code: one started by the password alone before (or while) it was
\* turned on is revoked by the version that turning it on took.  Only a logout
\* that writes over a version it has not read can break this.
SecondFactorHolds ==
  ~lost => \A t \in tokens :
    t.kind = "session" /\ Current(t) /\ row.secret # None => t.factor

\* Once the server answers, every token it accepts was issued for the password
\* and the account it was configured with, whatever was changed while it was
\* down and whatever the reset command did during its startup.
PasswordHolds ==
  Serving /\ ~lost => \A t \in tokens :
    Current(t) => t.pw = config.pw /\ row.email = config.email

\* An authenticator code is accepted once, by whichever of signing in, turning
\* two-factor sign-in on and turning it off comes first, however they race.
CodeOnce == ~replayed

\* A token that is not accepted any more is never accepted again, as long as no
\* logout has written over a version it had not read: such a write can put back one
\* that two other changes had left behind.
NeverRevived ==
  [][~lost' => \A t \in tokens : Current(t)' => Current(t)]_vars

\* After resetting two-factor sign-in, turning it on or off, or signing out, no
\* token issued before is valid; the session the change issues is a new one.  Not
\* after a logout that wrote over a version it had not read, nor after what follows
\* one: that is LogoutRevokesAll's.
ChangeRevokes ==
  [][~lost' /\ (Reset \/ \E r \in Requests :
                  LogoutWrite(r) \/ \E c \in Codes : EnableWrite(r, c) \/ DisableWrite(r, c))
     => \A t \in tokens : ~Current(t)']_vars

\* What revoke_sessions says of a logout: it invalidates every session token
\* issued so far.
LogoutRevokesAll ==
  [][\A r \in Requests : LogoutWrite(r) => \A t \in tokens : ~Current(t)']_vars

=============================================================================
