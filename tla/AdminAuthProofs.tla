--------------------------- MODULE AdminAuthProofs ---------------------------
(***************************************************************************)
(* What AdminAuth keeps true for any number of concurrent requests,        *)
(* restarts, accounts, passwords and authenticator secrets.                *)
(*                                                                         *)
(* The properties of the sessions speak of behaviours in which no logout   *)
(* has written over a version it had not read (lost); the one of the codes *)
(* speaks of every behaviour.                                              *)
(***************************************************************************)
EXTENDS AdminAuth, TLAPS

\* The parts of the row that more than one case below needs.
LEMMA RowFields ==
  ASSUME row \in Row
  PROVE  /\ row.id \in Nat /\ row.email \in Nat /\ row.pw \in Nat /\ row.version \in Nat
         /\ row.secret \in Nat /\ row.pending \in Nat /\ row.last \in Nat
BY DEF Row

\* What a step of a request or of the startup does to its own record.
LEMMA ReadType ==
  ASSUME row \in Row, NEW kind \in Kinds, NEW pw \in Nat
  PROVE  /\ Read(kind, pw) \in Request
         /\ Idle \in Request
BY DEF Row, Read, Idle, Request, Kinds, None

\* The row after a change of its password and of its version.
LEMMA RehashedType ==
  ASSUME row \in Row, config.pw \in Nat, boot.version \in Nat, BootRehash
  PROVE  /\ row' \in Row
         /\ row'.id = row.id /\ row'.email = row.email /\ row'.secret = row.secret
         /\ row'.pending = row.pending /\ row'.last = row.last
         /\ row'.version = boot.version + 1 /\ row'.pw = config.pw
<1>1. row' = [row EXCEPT !.pw = config.pw, !.version = boot.version + 1]
  BY DEF BootRehash
<1>2. boot.version + 1 \in Nat
  OBVIOUS
<1>3. row' \in Row
  BY <1>1, <1>2 DEF Row
<1>4. /\ row'.id = row.id /\ row'.email = row.email /\ row'.secret = row.secret
      /\ row'.pending = row.pending
  BY <1>1 DEF Row
<1>5. row'.last = row.last /\ row'.version = boot.version + 1 /\ row'.pw = config.pw
  BY <1>1 DEF Row
<1> QED BY <1>3, <1>4, <1>5

\* The row with its secrets forgotten.
LEMMA ClearedType ==
  ASSUME NEW a \in Row
  PROVE  /\ Cleared(a) \in Row
         /\ Cleared(a).id = a.id /\ Cleared(a).email = a.email /\ Cleared(a).pw = a.pw
         /\ Cleared(a).version = a.version + 1
         /\ Cleared(a).secret = None /\ Cleared(a).pending = None /\ Cleared(a).last = None
<1>1. Cleared(a) = [a EXCEPT !.secret = None, !.pending = None, !.last = None,
                             !.version = a.version + 1]
  BY DEF Cleared
<1>2. None \in Nat /\ a.version + 1 \in Nat
  BY DEF Row, None
<1>3. Cleared(a) \in Row
  BY <1>1, <1>2 DEF Row
<1>4. Cleared(a).id = a.id /\ Cleared(a).email = a.email /\ Cleared(a).pw = a.pw
  BY <1>1 DEF Row
<1>5. /\ Cleared(a).version = a.version + 1 /\ Cleared(a).secret = None
      /\ Cleared(a).pending = None /\ Cleared(a).last = None
  BY <1>1 DEF Row
<1> QED BY <1>3, <1>4, <1>5

\* The row once the pending secret is the secret.
LEMMA EnabledType ==
  ASSUME row \in Row, NEW r \in Requests, NEW c \in Nat, EnableWrite(r, c)
  PROVE  /\ row' \in Row
         /\ row'.id = row.id /\ row'.email = row.email /\ row'.pw = row.pw
         /\ row'.version = row.version + 1
         /\ row'.secret = row.pending /\ row'.pending = None /\ row'.last = c
<1>1. row' = [row EXCEPT !.secret = row.pending, !.pending = None, !.last = c,
                         !.version = row.version + 1]
  BY DEF EnableWrite
<1>2. None \in Nat /\ row.version + 1 \in Nat /\ row.pending \in Nat
  BY RowFields DEF None
<1>3. row' \in Row
  BY <1>1, <1>2 DEF Row
<1>4. row'.id = row.id /\ row'.email = row.email /\ row'.pw = row.pw
  BY <1>1 DEF Row
<1>5. /\ row'.version = row.version + 1
      /\ row'.secret = row.pending /\ row'.pending = None /\ row'.last = c
  BY <1>1 DEF Row
<1> QED BY <1>3, <1>4, <1>5

\* Issuing adds one token.
LEMMA IssueType ==
  ASSUME tokens \subseteq Token, NEW kind \in {"session", "pending"}, NEW id \in Nat,
         NEW version \in Nat, NEW factor \in BOOLEAN, NEW pw \in Nat,
         Issue(kind, id, version, factor, pw)
  PROVE  tokens' \subseteq Token
BY DEF Issue, Token

-------------------------------------------------------------------------------

LEMMA TypeInit == Init => TypeOK
<1> SUFFICES ASSUME Init PROVE TypeOK
  OBVIOUS
<1>1. row = [id |-> 0, email |-> 0, pw |-> 0, version |-> 0,
             secret |-> 0, pending |-> 0, last |-> 0]
  BY DEF Init, NewRow, None
<1>2. row \in Row /\ row.id = 0 /\ row.secret = 0 /\ row.pending = 0
  BY <1>1 DEF Row
<1>3. Idle \in Request /\ boot \in Boot
  BY DEF Init, Idle, Request, Kinds, Boot, None
<1>4. config \in [email : Emails, pw : Passwords] /\ req \in [Requests -> Request]
  BY <1>3 DEF Init
<1>5. /\ tokens \subseteq Token /\ used \subseteq Nat \X Nat
      /\ replayed \in BOOLEAN /\ lost \in BOOLEAN
  BY DEF Init
<1>6. ids = 0 /\ secrets = 0 /\ step = 1
  BY DEF Init
<1>7. row.id <= ids /\ row.secret <= secrets /\ row.pending <= secrets
  BY <1>2, <1>6
<1>8. ids \in Nat /\ secrets \in Nat /\ step \in Nat
  BY <1>6
<1> QED BY <1>2, <1>3, <1>4, <1>5, <1>7, <1>8 DEF TypeOK

\* The startup and what runs beside the requests keep the types.
LEMMA TypeOutside ==
  ASSUME TypeOK, BootNext \/ Reset \/ Tick
  PROVE  TypeOK'
<1> USE DEF TypeOK, History
<1>0. /\ row.id \in Nat /\ row.version \in Nat
      /\ config.email \in Nat /\ config.pw \in Nat /\ boot.version \in Nat
  BY RowFields DEF Emails, Passwords, Boot
<1>1. CASE BootRead
  BY <1>0, <1>1 DEF BootRead, Boot
<1>2. CASE BootRehash
  <2>1. /\ row' \in Row /\ row'.id = row.id /\ row'.secret = row.secret
        /\ row'.pending = row.pending
    BY <1>0, <1>2, RehashedType
  <2> QED BY <1>2, <2>1 DEF BootRehash, Boot
<1>3. CASE BootInsert
  <2>1. /\ row' \in Row /\ row'.id = ids + 1 /\ row'.secret = None /\ row'.pending = None
    BY <1>0, <1>3 DEF BootInsert, NewRow, Row, None
  <2> QED BY <1>3, <2>1 DEF BootInsert, Boot, None
<1>4. CASE Restart
  BY <1>4, ReadType DEF Restart, Boot, Kinds
<1>5. CASE Reset
  <2>1. /\ row' \in Row /\ row'.id = row.id /\ row'.secret = None /\ row'.pending = None
    BY <1>5, ClearedType DEF Reset
  <2> QED BY <1>5, <2>1 DEF Reset, None
<1>6. CASE Tick
  BY <1>6 DEF Tick
<1> QED BY <1>1, <1>2, <1>3, <1>4, <1>5, <1>6 DEF BootNext

\* A sign-in keeps the types.
LEMMA TypeSignIn ==
  ASSUME TypeOK, NEW r \in Requests, SignIn(r)
  PROVE  TypeOK'
<1> USE DEF TypeOK, History, End
<1>0. /\ Idle \in Request /\ req[r] \in Request
      /\ req[r].id \in Nat /\ req[r].version \in Nat /\ req[r].on \in BOOLEAN /\ req[r].pw \in Nat
  BY ReadType DEF Request, Kinds
<1>1. CASE LoginRead(r)
  <2>1. Read("login", row.pw) \in Request
    BY RowFields, ReadType DEF Kinds
  <2> QED BY <1>1, <2>1 DEF LoginRead
<1>2. CASE LoginAnswer(r)
  <2>1. tokens' \subseteq Token
    BY <1>0, <1>2, IssueType DEF LoginAnswer
  <2> QED BY <1>0, <1>2, <2>1 DEF LoginAnswer
<1>3. ASSUME NEW t \in tokens, TotpRead(r, t) PROVE TypeOK'
  <2>1. Read("totp", t.pw) \in Request
    BY ReadType DEF Kinds, Token
  <2> QED BY <1>3, <2>1 DEF TotpRead
<1>4. ASSUME NEW c \in Codes, TotpVerify(r, c) PROVE TypeOK'
  <2>1. c \in Nat
    BY AuthAssumption DEF Codes
  <2>2. /\ row' \in Row /\ row'.id = row.id /\ row'.secret = row.secret
        /\ row'.pending = row.pending
    BY <1>4, <2>1 DEF TotpVerify, Row
  <2>3. tokens' \subseteq Token
    BY <1>0, <1>4, IssueType, RowFields DEF TotpVerify
  <2>4. used' \subseteq Nat \X Nat /\ replayed' \in BOOLEAN
    BY <1>4, <2>1, RowFields DEF TotpVerify, Accept
  <2> QED BY <1>0, <1>4, <2>2, <2>3, <2>4 DEF TotpVerify
<1> QED BY <1>1, <1>2, <1>3, <1>4 DEF SignIn

\* A request with a session keeps the types.
LEMMA TypeManage ==
  ASSUME TypeOK, NEW r \in Requests, Manage(r) \/ GiveUp(r)
  PROVE  TypeOK'
<1> USE DEF TypeOK, History, End
<1>0. /\ Idle \in Request /\ req[r] \in Request
      /\ req[r].id \in Nat /\ req[r].version \in Nat /\ req[r].on \in BOOLEAN /\ req[r].pw \in Nat
  BY ReadType DEF Request, Kinds
<1>1. ASSUME NEW t \in tokens, NEW kind \in {"logout", "setup", "enable", "disable"},
             AdminRead(r, t, kind)
      PROVE  TypeOK'
  <2>1. Read(kind, t.pw) \in Request
    BY ReadType DEF Kinds, Token
  <2> QED BY <1>1, <2>1 DEF AdminRead
<1>2. CASE LogoutWrite(r)
  <2>1. /\ row' \in Row /\ row'.id = row.id /\ row'.secret = row.secret
        /\ row'.pending = row.pending
    BY <1>0, <1>2 DEF LogoutWrite, Row
  <2>2. lost' \in BOOLEAN
    BY <1>2 DEF LogoutWrite
  <2> QED BY <1>0, <1>2, <2>1, <2>2 DEF LogoutWrite
<1>3. CASE SetupWrite(r)
  <2>1. /\ row' \in Row /\ row'.id = row.id /\ row'.secret = row.secret
        /\ row'.pending = secrets + 1 /\ secrets' = secrets + 1
    BY <1>3 DEF SetupWrite, Row
  <2>2. row'.secret <= secrets'
    BY <2>1, RowFields
  <2> QED BY <1>0, <1>3, <2>1, <2>2 DEF SetupWrite
<1>4. ASSUME NEW c \in Codes, EnableWrite(r, c) PROVE TypeOK'
  <2>1. c \in Nat
    BY AuthAssumption DEF Codes
  <2>2. /\ row' \in Row /\ row'.id = row.id /\ row'.secret = row.pending /\ row'.pending = None
    BY <1>4, <2>1, EnabledType
  <2>3. tokens' \subseteq Token
    <3>1. row.version + 1 \in Nat /\ TRUE \in BOOLEAN
      BY RowFields
    <3> QED BY <1>4, <3>1, IssueType, RowFields DEF EnableWrite
  <2>4. used' \subseteq Nat \X Nat /\ replayed' \in BOOLEAN
    BY <1>4, <2>1, RowFields DEF EnableWrite, Accept
  <2> QED BY <1>0, <1>4, <2>2, <2>3, <2>4 DEF EnableWrite, None
<1>5. ASSUME NEW c \in Codes, DisableWrite(r, c) PROVE TypeOK'
  <2>1. c \in Nat
    BY AuthAssumption DEF Codes
  <2>2. /\ row' \in Row /\ row'.id = row.id /\ row'.secret = None /\ row'.pending = None
    BY <1>5, ClearedType DEF DisableWrite
  <2>3. tokens' \subseteq Token
    <3>1. row.version + 1 \in Nat /\ TRUE \in BOOLEAN
      BY RowFields
    <3> QED BY <1>5, <3>1, IssueType, RowFields DEF DisableWrite
  <2>4. used' \subseteq Nat \X Nat /\ replayed' \in BOOLEAN
    BY <1>5, <2>1, RowFields DEF DisableWrite, Accept
  <2> QED BY <1>0, <1>5, <2>2, <2>3, <2>4 DEF DisableWrite, None
<1>6. CASE GiveUp(r)
  BY <1>0, <1>6 DEF GiveUp
<1> QED BY <1>1, <1>2, <1>3, <1>4, <1>5, <1>6 DEF Manage

\* Every variable of the sign-in keeps its type.
THEOREM TypeCorrect == Spec => []TypeOK
<1>1. TypeOK /\ [Next]_vars => TypeOK'
  <2>1. TypeOK /\ UNCHANGED vars => TypeOK'
    BY DEF vars, TypeOK
  <2> QED BY <2>1, TypeOutside, TypeSignIn, TypeManage DEF Next
<1>2. QED BY <1>1, TypeInit, PTL DEF Spec

-------------------------------------------------------------------------------
(* The codes                                                                *)

\* Every code accepted is of a secret that was made and is not being set up;
\* those of the current secret are no later than the last one recorded.
CodesInv ==
  /\ ~replayed
  /\ \A u \in used :
       /\ u[1] # None /\ u[1] <= secrets /\ u[1] # row.pending
       /\ u[1] = row.secret => u[2] <= row.last
  /\ row.pending # None => row.pending # row.secret

\* Accepting a later code of the secret, or the first of a new one, keeps it.
LEMMA AcceptNew ==
  ASSUME NEW secret \in Nat, NEW c \in Nat, Accept(secret, c), ~replayed,
         <<secret, c>> \notin used
  PROVE  ~replayed' /\ \A u \in used' : u \in used \/ (u[1] = secret /\ u[2] = c)
<1>1. ~replayed'
  BY DEF Accept
<1>2. used' = used \union {<<secret, c>>}
  BY DEF Accept
<1> QED BY <1>1, <1>2

LEMMA CodesStep == TypeOK /\ CodesInv /\ [Next]_vars => CodesInv'
<1> SUFFICES ASSUME TypeOK, CodesInv, [Next]_vars PROVE CodesInv'
  OBVIOUS
<1> USE DEF CodesInv, History
<1>0. /\ row \in Row /\ used \subseteq Nat \X Nat
      /\ row.secret \in Nat /\ row.pending \in Nat /\ row.last \in Nat /\ secrets \in Nat
      /\ row.secret <= secrets /\ row.pending <= secrets
      /\ config.pw \in Nat /\ boot.version \in Nat
  BY RowFields DEF TypeOK, Passwords, Boot
<1>1. ASSUME UNCHANGED <<secrets, used, replayed>>, row'.secret = row.secret,
             row'.pending = row.pending, row'.last = row.last
      PROVE  CodesInv'
  BY <1>1
<1>2. ASSUME UNCHANGED <<row, secrets, used, replayed>> PROVE CodesInv'
  BY <1>2
<1>3. CASE BootRehash
  BY <1>0, <1>1, <1>3, RehashedType DEF BootRehash
<1>4. CASE BootInsert
  <2>1. row'.secret = None /\ row'.pending = None
    BY <1>4 DEF BootInsert, NewRow
  <2> QED BY <1>4, <2>1 DEF BootInsert
<1>5. CASE Reset
  <2>1. row'.secret = None /\ row'.pending = None
    BY <1>0, <1>5, ClearedType DEF Reset
  <2> QED BY <1>5, <2>1 DEF Reset
<1>6. ASSUME NEW r \in Requests, NEW c \in Codes, TotpVerify(r, c) PROVE CodesInv'
  <2>1. /\ row'.secret = row.secret /\ row'.pending = row.pending /\ row'.last = c
        /\ row.secret # None /\ c > row.last /\ c \in Nat
    BY <1>0, <1>6, AuthAssumption DEF TotpVerify, Row, Matches, Codes
  <2>2. <<row.secret, c>> \notin used
    BY <1>0, <2>1
  <2>3. ~replayed' /\ \A u \in used' : u \in used \/ (u[1] = row.secret /\ u[2] = c)
    BY <1>0, <1>6, <2>1, <2>2, AcceptNew DEF TotpVerify
  <2>4. \A u \in used : u[1] \in Nat /\ u[2] \in Nat
    BY <1>0
  <2>5. secrets' = secrets
    BY <1>6 DEF TotpVerify
  <2> QED BY <1>0, <2>1, <2>3, <2>4, <2>5
<1>7. ASSUME NEW r \in Requests, SetupWrite(r) PROVE CodesInv'
  <2>1. /\ row'.secret = None /\ row'.pending = secrets + 1 /\ row'.last = row.last
        /\ secrets' = secrets + 1 /\ used' = used /\ replayed' = replayed
    BY <1>0, <1>7 DEF SetupWrite, Row
  <2>2. \A u \in used : u[1] \in Nat
    BY <1>0
  <2> QED BY <1>0, <2>1, <2>2 DEF None
<1>8. ASSUME NEW r \in Requests, LogoutWrite(r) PROVE CodesInv'
  <2>1. row'.secret = row.secret /\ row'.pending = row.pending /\ row'.last = row.last
    BY <1>0, <1>8 DEF LogoutWrite, Row
  <2> QED BY <1>1, <1>8, <2>1 DEF LogoutWrite
<1>9. ASSUME NEW r \in Requests, NEW c \in Codes, EnableWrite(r, c) PROVE CodesInv'
  <2>0. c \in Nat
    BY AuthAssumption DEF Codes
  <2>1. /\ row'.secret = row.pending /\ row'.pending = None /\ row'.last = c
        /\ row.pending # None /\ secrets' = secrets /\ Accept(row.pending, c)
    BY <1>0, <1>9, <2>0, EnabledType DEF EnableWrite
  <2>2. <<row.pending, c>> \notin used
    OBVIOUS
  <2>3. ~replayed' /\ \A u \in used' : u \in used \/ (u[1] = row.pending /\ u[2] = c)
    BY <1>0, <2>0, <2>1, <2>2, AcceptNew
  <2> QED BY <1>0, <2>0, <2>1, <2>3
<1>10. ASSUME NEW r \in Requests, NEW c \in Codes, DisableWrite(r, c) PROVE CodesInv'
  <2>0. c \in Nat
    BY AuthAssumption DEF Codes
  <2>1. /\ row'.secret = None /\ row'.pending = None /\ row.secret # None
        /\ c > row.last /\ secrets' = secrets /\ Accept(row.secret, c)
    BY <1>0, <1>10, ClearedType DEF DisableWrite, Matches
  <2>2. <<row.secret, c>> \notin used
    BY <1>0, <2>0, <2>1
  <2>3. ~replayed' /\ \A u \in used' : u \in used \/ (u[1] = row.secret /\ u[2] = c)
    BY <1>0, <2>0, <2>1, <2>2, AcceptNew
  <2> QED BY <1>0, <2>1, <2>3
<1>11. CASE BootRead \/ Restart \/ Tick \/ UNCHANGED vars
  BY <1>2, <1>11 DEF BootRead, Restart, Tick, vars
<1>12. ASSUME NEW r \in Requests, LoginRead(r) \/ LoginAnswer(r) \/ GiveUp(r) PROVE CodesInv'
  BY <1>2, <1>12 DEF LoginRead, LoginAnswer, GiveUp
<1>13. ASSUME NEW r \in Requests, NEW t \in tokens, NEW kind,
              TotpRead(r, t) \/ AdminRead(r, t, kind)
       PROVE  CodesInv'
  BY <1>2, <1>13 DEF TotpRead, AdminRead
<1> QED
  BY <1>3, <1>4, <1>5, <1>6, <1>7, <1>8, <1>9, <1>10, <1>11, <1>12, <1>13
     DEF Next, BootNext, SignIn, Manage

\* An authenticator code is accepted once in every behaviour: signing in, turning
\* two-factor sign-in on and off all record it on the locked row.
THEOREM CodesCorrect == Spec => []CodeOnce
<1>1. Init => CodesInv
  BY DEF Init, CodesInv, NewRow, None
<1>2. CodesInv => CodeOnce
  BY DEF CodesInv, CodeOnce
<1>3. QED BY <1>1, <1>2, CodesStep, TypeCorrect, PTL DEF Spec

-------------------------------------------------------------------------------
(* The sessions                                                             *)

\* No token is ahead of the row it names.
TokensInv ==
  \A t \in tokens : t.id <= row.id /\ (t.id = row.id => t.version <= row.version)

\* A process that answers requests was started on the configured account, and
\* its requests have read that account's row at some version up to the current
\* one, with two-factor sign-in as that version has it.
RequestsInv ==
  /\ Serving => row.pw = config.pw /\ row.email = config.email
  /\ \A r \in Requests : req[r].at # "idle" =>
       /\ Serving /\ req[r].id = row.id /\ req[r].version <= row.version
       /\ req[r].pw = row.pw
       /\ req[r].version = row.version /\ ~req[r].on => row.secret = None

\* The startup that is about to store a new password read a version no token is
\* ahead of; none is issued before it is done.
BootInv ==
  boot.at = "rehash" =>
    /\ row.email = config.email
    /\ \A t \in tokens : t.id = row.id => t.version <= boot.version

\* A valid token was issued for the row's password, and a valid session with a
\* code when the row has a secret.
ValidInv ==
  \A t \in tokens : Current(t) =>
    t.pw = row.pw /\ (t.kind = "session" /\ row.secret # None => t.factor)

SessionsInv == TokensInv /\ RequestsInv /\ BootInv /\ ValidInv

\* What the cases of a step use of the types.
LEMMA AuthTypes ==
  ASSUME TypeOK
  PROVE  /\ row \in Row /\ ids \in Nat /\ row.id <= ids
         /\ row.id \in Nat /\ row.version \in Nat /\ row.pw \in Nat /\ row.secret \in Nat
         /\ config.pw \in Nat /\ config.email \in Nat /\ boot.version \in Nat
         /\ \A t \in tokens : t.id \in Nat /\ t.version \in Nat
         /\ \A r \in Requests : req[r].version \in Nat /\ req[r].on \in BOOLEAN
<1>1. \A t \in tokens : t.id \in Nat /\ t.version \in Nat
  BY DEF TypeOK, Token
<1>2. \A r \in Requests : req[r].version \in Nat /\ req[r].on \in BOOLEAN
  BY DEF TypeOK, Request
<1> QED BY <1>1, <1>2, RowFields DEF TypeOK, Boot, Emails, Passwords

\* A change that moves the version of the row up, and leaves its account, its
\* password and the requests that were answered alone, revokes every token.
LEMMA BumpKeeps ==
  ASSUME TypeOK, SessionsInv, row' \in Row, row'.version = row.version + 1,
         row'.id = row.id, row'.email = row.email, row'.pw = row.pw,
         UNCHANGED <<config, boot>>,
         \A r \in Requests : req'[r] = req[r] \/ req'[r].at = "idle",
         \A t \in tokens' : \/ t \in tokens
                            \/ /\ t.id = row.id /\ t.version = row.version + 1
                               /\ t.pw = row.pw /\ t.factor /\ Serving
  PROVE  SessionsInv'
<1> USE AuthTypes DEF SessionsInv
<1>1. TokensInv'
  BY DEF TokensInv
<1>2. RequestsInv'
  BY DEF RequestsInv, Serving
<1>3. BootInv'
  BY DEF BootInv, Serving
<1>4. ValidInv'
  BY DEF ValidInv, TokensInv, Current
<1> QED BY <1>1, <1>2, <1>3, <1>4

\* A read of the row by a request: what it has read is current.
LEMMA ReadKeeps ==
  ASSUME TypeOK, SessionsInv, Serving, NEW r \in Requests, NEW kind, NEW pw, pw = row.pw,
         req' = [req EXCEPT ![r] = Read(kind, pw)],
         UNCHANGED <<row, config, boot, tokens>>
  PROVE  SessionsInv'
<1> USE AuthTypes DEF SessionsInv
<1>1. TokensInv' /\ BootInv' /\ ValidInv'
  BY DEF TokensInv, BootInv, ValidInv, Current
<1>2. /\ req'[r].id = row.id /\ req'[r].version = row.version /\ req'[r].pw = row.pw
      /\ ~req'[r].on => row.secret = None
  BY DEF TypeOK, Read
<1>3. \A q \in Requests : q # r => req'[q] = req[q]
  BY DEF TypeOK
<1>4. RequestsInv'
  BY <1>2, <1>3 DEF RequestsInv, Serving
<1> QED BY <1>1, <1>4

\* The end of a request, or of all of them, that leaves the rest alone.
LEMMA EndKeeps ==
  ASSUME TypeOK, SessionsInv, UNCHANGED <<row, config, boot, tokens>>,
         \A r \in Requests : req'[r] = req[r] \/ req'[r].at = "idle"
  PROVE  SessionsInv'
<1>1. RequestsInv'
  BY DEF SessionsInv, RequestsInv, Serving
<1>2. TokensInv' /\ BootInv' /\ ValidInv'
  BY DEF SessionsInv, TokensInv, BootInv, ValidInv, Current
<1> QED BY <1>1, <1>2 DEF SessionsInv

\* A request that ends is idle, the others are where they were.
LEMMA EndsOne ==
  ASSUME TypeOK, NEW r \in Requests, End(r)
  PROVE  \A q \in Requests : req'[q] = req[q] \/ req'[q].at = "idle"
BY DEF End, Idle, TypeOK

\* The startup keeps the sessions right: a new password revokes every token of
\* the old one, a new account those of the one it replaces.
LEMMA BootKeeps ==
  ASSUME TypeOK, SessionsInv, BootNext
  PROVE  SessionsInv'
<1> USE AuthTypes DEF SessionsInv
<1>1. CASE BootRead
  <2>1. UNCHANGED <<row, config, req, tokens>> /\ boot.at = "down"
    BY <1>1 DEF BootRead
  <2>2. TokensInv' /\ ValidInv'
    BY <2>1 DEF TokensInv, ValidInv, Current
  <2>3. RequestsInv'
    BY <1>1, <2>1 DEF BootRead, RequestsInv, Serving
  <2>4. BootInv'
    BY <1>1, <2>1 DEF BootRead, BootInv, TokensInv
  <2> QED BY <2>2, <2>3, <2>4
<1>2. CASE BootRehash
  <2>1. /\ row'.id = row.id /\ row'.email = row.email /\ row'.pw = config.pw
        /\ row'.version = boot.version + 1 /\ row' \in Row
    BY <1>2, RehashedType
  <2>2. UNCHANGED <<config, req, tokens>> /\ boot.at = "rehash" /\ boot'.at = "up"
    BY <1>2 DEF BootRehash
  <2>3. TokensInv' /\ ValidInv'
    BY <2>1, <2>2 DEF TokensInv, ValidInv, BootInv, Current
  <2>4. RequestsInv'
    BY <2>1, <2>2 DEF RequestsInv, BootInv, Serving
  <2>5. BootInv'
    BY <2>2 DEF BootInv
  <2> QED BY <2>3, <2>4, <2>5
<1>3. CASE BootInsert
  <2>1. /\ row'.id = ids + 1 /\ row'.email = config.email /\ row'.pw = config.pw
    BY <1>3 DEF BootInsert, NewRow
  <2>2. UNCHANGED <<config, req, tokens>> /\ boot.at = "insert" /\ boot'.at = "up"
    BY <1>3 DEF BootInsert
  <2>3. \A t \in tokens : t.id <= ids
    BY DEF TokensInv
  <2>4. TokensInv' /\ ValidInv'
    BY <2>1, <2>2, <2>3 DEF TokensInv, ValidInv, Current
  <2>5. RequestsInv'
    BY <2>1, <2>2 DEF RequestsInv, Serving
  <2>6. BootInv'
    BY <2>2 DEF BootInv
  <2> QED BY <2>4, <2>5, <2>6
<1>4. CASE Restart
  <2>1. /\ UNCHANGED <<row, tokens>> /\ boot'.at = "down"
        /\ \A r \in Requests : req'[r].at = "idle"
    BY <1>4 DEF Restart, Idle
  <2>2. TokensInv' /\ ValidInv'
    BY <2>1 DEF TokensInv, ValidInv, Current
  <2>3. RequestsInv' /\ BootInv'
    BY <2>1 DEF RequestsInv, BootInv, Serving
  <2> QED BY <2>2, <2>3
<1> QED BY <1>1, <1>2, <1>3, <1>4 DEF BootNext

\* A sign-in issues a token for what the row was when it was read, or is.
LEMMA SignInKeeps ==
  ASSUME TypeOK, SessionsInv, NEW r \in Requests, SignIn(r)
  PROVE  SessionsInv'
<1> USE AuthTypes DEF SessionsInv
<1>1. CASE LoginRead(r)
  BY <1>1, ReadKeeps DEF LoginRead
<1>2. ASSUME NEW t \in tokens, TotpRead(r, t) PROVE SessionsInv'
  <2>1. t.pw = row.pw
    BY <1>2 DEF TotpRead, ValidInv
  <2> QED BY <1>2, <2>1, ReadKeeps DEF TotpRead
<1>3. ASSUME row'.id = row.id, row'.version = row.version, row'.pw = row.pw,
             row'.email = row.email, row'.secret = row.secret, UNCHANGED <<config, boot>>,
             Serving, \A q \in Requests : req'[q] = req[q] \/ req'[q].at = "idle",
             \A t \in tokens' : \/ t \in tokens
                                \/ /\ t.id = row.id /\ t.version <= row.version /\ t.pw = row.pw
                                   /\ t.version = row.version /\ t.kind = "session"
                                        /\ row.secret # None => t.factor
      PROVE  SessionsInv'
  <2>1. TokensInv' /\ ValidInv'
    BY <1>3 DEF TokensInv, ValidInv, Current
  <2>2. RequestsInv'
    BY <1>3 DEF RequestsInv, Serving
  <2>3. BootInv'
    BY <1>3 DEF BootInv, Serving
  <2> QED BY <2>1, <2>2, <2>3
<1>4. CASE LoginAnswer(r)
  <2>1. /\ Serving /\ req[r].id = row.id /\ req[r].version <= row.version
        /\ req[r].pw = row.pw
        /\ req[r].version = row.version /\ ~req[r].on => row.secret = None
    BY <1>4 DEF LoginAnswer, RequestsInv
  <2> DEFINE kind == IF req[r].on THEN "pending" ELSE "session"
  <2>2. tokens' = tokens \union {[kind |-> kind, id |-> req[r].id,
                   version |-> req[r].version, factor |-> FALSE, pw |-> req[r].pw]}
    BY <1>4 DEF LoginAnswer, Issue
  <2>3. kind = "session" => ~req[r].on
    OBVIOUS
  <2> HIDE DEF kind
  <2>4. UNCHANGED <<row, config, boot>>
    BY <1>4 DEF LoginAnswer
  <2>5. \A q \in Requests : req'[q] = req[q] \/ req'[q].at = "idle"
    BY <1>4, EndsOne DEF LoginAnswer
  <2>6. \A t \in tokens' : \/ t \in tokens
                           \/ /\ t.id = row.id /\ t.version <= row.version /\ t.pw = row.pw
                              /\ t.version = row.version /\ t.kind = "session"
                                   /\ row.secret # None => t.factor
    BY <2>1, <2>2, <2>3
  <2> QED BY <1>3, <2>1, <2>4, <2>5, <2>6
<1>5. ASSUME NEW c \in Codes, TotpVerify(r, c) PROVE SessionsInv'
  <2>1. Serving /\ req[r].pw = row.pw
    BY <1>5 DEF TotpVerify, RequestsInv
  <2>2. /\ row'.id = row.id /\ row'.version = row.version /\ row'.pw = row.pw
        /\ row'.email = row.email /\ row'.secret = row.secret
    BY <1>5 DEF TotpVerify, Row
  <2>3. tokens' = tokens \union {[kind |-> "session", id |-> row.id,
                   version |-> row.version, factor |-> TRUE, pw |-> req[r].pw]}
    BY <1>5 DEF TotpVerify, Issue
  <2>4. UNCHANGED <<config, boot>> /\ \A q \in Requests : req'[q] = req[q] \/ req'[q].at = "idle"
    BY <1>5, EndsOne DEF TotpVerify
  <2> QED BY <1>3, <2>1, <2>2, <2>3, <2>4
<1> QED BY <1>1, <1>2, <1>4, <1>5 DEF SignIn

\* A request with a session keeps them right unless it is a logout that writes
\* over a version it has not read.
LEMMA ManageKeeps ==
  ASSUME TypeOK, SessionsInv, ~lost', NEW r \in Requests, Manage(r)
  PROVE  SessionsInv'
<1> USE AuthTypes DEF SessionsInv
<1>1. ASSUME NEW t \in tokens, NEW kind, AdminRead(r, t, kind) PROVE SessionsInv'
  <2>1. t.pw = row.pw
    BY <1>1 DEF AdminRead, ValidInv
  <2> QED BY <1>1, <2>1, ReadKeeps DEF AdminRead
<1>2. CASE LogoutWrite(r)
  <2>1. row.version = req[r].version
    BY <1>2 DEF LogoutWrite
  <2>2. /\ row' \in Row /\ row'.version = row.version + 1 /\ row'.id = row.id
        /\ row'.email = row.email /\ row'.pw = row.pw
    BY <1>2, <2>1 DEF LogoutWrite, Row
  <2>3. UNCHANGED <<config, boot, tokens>>
    BY <1>2 DEF LogoutWrite
  <2>4. \A q \in Requests : req'[q] = req[q] \/ req'[q].at = "idle"
    BY <1>2, EndsOne DEF LogoutWrite
  <2> QED BY <2>2, <2>3, <2>4, BumpKeeps
<1>3. CASE SetupWrite(r)
  <2>1. /\ row'.id = row.id /\ row'.version = row.version /\ row'.pw = row.pw
        /\ row'.email = row.email /\ row'.secret = row.secret
    BY <1>3 DEF SetupWrite, Row
  <2>2. UNCHANGED <<config, boot, tokens>> /\ \A q \in Requests : req'[q] = req[q] \/ req'[q].at = "idle"
    BY <1>3, EndsOne DEF SetupWrite
  <2>3. TokensInv' /\ ValidInv'
    BY <2>1, <2>2 DEF TokensInv, ValidInv, Current
  <2>4. RequestsInv' /\ BootInv'
    BY <2>1, <2>2 DEF RequestsInv, BootInv, Serving
  <2> QED BY <2>3, <2>4
<1>4. ASSUME NEW c \in Codes, EnableWrite(r, c) PROVE SessionsInv'
  <2>0. c \in Nat
    BY AuthAssumption DEF Codes
  <2>1. /\ row' \in Row /\ row'.version = row.version + 1 /\ row'.id = row.id
        /\ row'.email = row.email /\ row'.pw = row.pw
    BY <1>4, <2>0, EnabledType
  <2>2. UNCHANGED <<config, boot>> /\ \A q \in Requests : req'[q] = req[q] \/ req'[q].at = "idle"
    BY <1>4, EndsOne DEF EnableWrite
  <2>3. Serving
    BY <1>4 DEF EnableWrite, RequestsInv
  <2>4. tokens' = tokens \union {[kind |-> "session", id |-> row.id,
                   version |-> row.version + 1, factor |-> TRUE, pw |-> row.pw]}
    BY <1>4 DEF EnableWrite, Issue
  <2>5. \A t \in tokens' : \/ t \in tokens
                           \/ /\ t.id = row.id /\ t.version = row.version + 1
                              /\ t.pw = row.pw /\ t.factor /\ Serving
    BY <2>3, <2>4
  <2> QED BY <2>1, <2>2, <2>5, BumpKeeps
<1>5. ASSUME NEW c \in Codes, DisableWrite(r, c) PROVE SessionsInv'
  <2>1. /\ row' \in Row /\ row'.version = row.version + 1 /\ row'.id = row.id
        /\ row'.email = row.email /\ row'.pw = row.pw
    BY <1>5, ClearedType DEF DisableWrite
  <2>2. UNCHANGED <<config, boot>> /\ \A q \in Requests : req'[q] = req[q] \/ req'[q].at = "idle"
    BY <1>5, EndsOne DEF DisableWrite
  <2>3. Serving
    BY <1>5 DEF DisableWrite, RequestsInv
  <2>4. tokens' = tokens \union {[kind |-> "session", id |-> row.id,
                   version |-> row.version + 1, factor |-> TRUE, pw |-> row.pw]}
    BY <1>5 DEF DisableWrite, Issue
  <2>5. \A t \in tokens' : \/ t \in tokens
                           \/ /\ t.id = row.id /\ t.version = row.version + 1
                              /\ t.pw = row.pw /\ t.factor /\ Serving
    BY <2>3, <2>4
  <2> QED BY <2>1, <2>2, <2>5, BumpKeeps
<1> QED BY <1>1, <1>2, <1>3, <1>4, <1>5 DEF Manage

\* The inductive invariant of the sessions.
IInv == lost \/ SessionsInv

LEMMA SessionsStep == TypeOK /\ IInv /\ [Next]_vars => IInv'
<1> SUFFICES ASSUME TypeOK, SessionsInv, [Next]_vars, ~lost' PROVE SessionsInv'
  <2>1. lost /\ [Next]_vars => lost'
    BY DEF Next, BootNext, BootRead, BootRehash, BootInsert, Restart, Reset, Tick, SignIn,
       LoginRead, LoginAnswer, TotpRead, TotpVerify, Manage, AdminRead, LogoutWrite,
       SetupWrite, EnableWrite, DisableWrite, GiveUp, vars, History
  <2> QED BY <2>1 DEF IInv
<1>1. CASE Reset
  <2>1. /\ row' \in Row /\ row'.version = row.version + 1 /\ row'.id = row.id
        /\ row'.email = row.email /\ row'.pw = row.pw
    BY <1>1, ClearedType, AuthTypes DEF Reset
  <2>2. UNCHANGED <<config, boot, req, tokens>>
    BY <1>1 DEF Reset
  <2> QED BY <2>1, <2>2, BumpKeeps
<1>2. CASE Tick \/ UNCHANGED vars
  BY <1>2, EndKeeps DEF Tick, vars
<1>3. ASSUME NEW r \in Requests, GiveUp(r) PROVE SessionsInv'
  BY <1>3, EndKeeps, EndsOne DEF GiveUp
<1> QED BY <1>1, <1>2, <1>3, BootKeeps, SignInKeeps, ManageKeeps DEF Next

LEMMA SessionsCorrect == Spec => []IInv
<1>1. Init => IInv
  BY DEF Init, IInv, SessionsInv, TokensInv, RequestsInv, BootInv, ValidInv, Serving, Idle
<1>2. QED BY <1>1, SessionsStep, TypeCorrect, PTL DEF Spec

\* While two-factor sign-in is on, a valid session was obtained with a code.
THEOREM SecondFactorCorrect == Spec => []SecondFactorHolds
<1>1. IInv => SecondFactorHolds
  BY DEF IInv, SessionsInv, ValidInv, SecondFactorHolds
<1>2. QED BY <1>1, SessionsCorrect, PTL

\* A server that answers accepts only tokens of the account and the password it
\* was configured with.
THEOREM PasswordCorrect == Spec => []PasswordHolds
<1>1. IInv => PasswordHolds
  BY DEF IInv, SessionsInv, ValidInv, RequestsInv, PasswordHolds
<1>2. QED BY <1>1, SessionsCorrect, PTL

-------------------------------------------------------------------------------
(* What a step does to the tokens                                           *)

\* No token names the next version of the row, nor any later one.
LEMMA BumpRevokes ==
  ASSUME TypeOK, SessionsInv, row'.id = row.id, row'.version = row.version + 1, NEW t \in tokens
  PROVE  ~Current(t)'
<1>1. t.version \in Nat /\ row.version \in Nat
  BY AuthTypes
<1>2. t.id = row.id => t.version <= row.version
  BY DEF SessionsInv, TokensInv
<1> QED BY <1>1, <1>2 DEF Current

\* Each change that revokes moves the version of the row up by one: a logout
\* because it read the version it writes over.
LEMMA RevokingBumps ==
  ASSUME TypeOK, ~lost',
         Reset \/ \E r \in Requests :
           LogoutWrite(r) \/ \E c \in Codes : EnableWrite(r, c) \/ DisableWrite(r, c)
  PROVE  row'.id = row.id /\ row'.version = row.version + 1
<1> USE AuthTypes
<1>1. CASE Reset
  BY <1>1, ClearedType DEF Reset
<1>2. ASSUME NEW r \in Requests, LogoutWrite(r) PROVE row'.id = row.id /\ row'.version = row.version + 1
  BY <1>2 DEF LogoutWrite, Row
<1>3. ASSUME NEW r \in Requests, NEW c \in Codes, EnableWrite(r, c)
      PROVE  row'.id = row.id /\ row'.version = row.version + 1
  <2>1. c \in Nat
    BY AuthAssumption DEF Codes
  <2> QED BY <1>3, <2>1, EnabledType
<1>4. ASSUME NEW r \in Requests, NEW c \in Codes, DisableWrite(r, c)
      PROVE  row'.id = row.id /\ row'.version = row.version + 1
  BY <1>4, ClearedType DEF DisableWrite
<1> QED BY <1>1, <1>2, <1>3, <1>4

\* A step that leaves the account and the version of the row makes no token valid.
LEMMA SameValid ==
  ASSUME row'.id = row.id, row'.version = row.version
  PROVE  \A t \in tokens : Current(t)' => Current(t)
BY DEF Current

LEMMA StepNeverRevives ==
  ASSUME TypeOK, SessionsInv, [Next]_vars, ~lost', NEW t \in tokens, Current(t)'
  PROVE  Current(t)
<1> USE AuthTypes
<1>1. CASE row' = row
  BY <1>1, SameValid
<1>2. CASE BootRehash
  <2>1. row'.id = row.id /\ row'.version = boot.version + 1 /\ boot.at = "rehash"
    BY <1>2, RehashedType DEF BootRehash
  <2>2. t.id = row.id => t.version <= boot.version
    BY <2>1 DEF SessionsInv, BootInv
  <2>3. t.version \in Nat /\ boot.version \in Nat
    OBVIOUS
  <2> QED BY <2>1, <2>2, <2>3 DEF Current
<1>3. CASE BootInsert
  <2>1. row'.id = ids + 1
    BY <1>3 DEF BootInsert, NewRow
  <2>2. t.id <= row.id /\ t.id \in Nat
    BY DEF SessionsInv, TokensInv
  <2> QED BY <2>1, <2>2 DEF Current
<1>4. CASE Reset \/ \E r \in Requests :
             LogoutWrite(r) \/ \E c \in Codes : EnableWrite(r, c) \/ DisableWrite(r, c)
  BY <1>4, RevokingBumps, BumpRevokes
<1>5. ASSUME NEW r \in Requests, NEW c \in Codes, TotpVerify(r, c) PROVE Current(t)
  <2>1. row'.id = row.id /\ row'.version = row.version
    BY <1>5 DEF TotpVerify, Row
  <2> QED BY <2>1, SameValid
<1>6. ASSUME NEW r \in Requests, SetupWrite(r) PROVE Current(t)
  <2>1. row'.id = row.id /\ row'.version = row.version
    BY <1>6 DEF SetupWrite, Row
  <2> QED BY <2>1, SameValid
<1>7. CASE BootRead \/ Restart \/ Tick \/ UNCHANGED vars
  BY <1>1, <1>7 DEF BootRead, Restart, Tick, vars
<1>8. ASSUME NEW r \in Requests, LoginRead(r) \/ LoginAnswer(r) \/ GiveUp(r) PROVE Current(t)
  BY <1>1, <1>8 DEF LoginRead, LoginAnswer, GiveUp
<1>9. ASSUME NEW r \in Requests, NEW u, NEW kind, TotpRead(r, u) \/ AdminRead(r, u, kind)
      PROVE  Current(t)
  BY <1>1, <1>9 DEF TotpRead, AdminRead
<1> QED BY <1>2, <1>3, <1>4, <1>5, <1>6, <1>7, <1>8, <1>9 DEF Next, BootNext, SignIn, Manage

\* What was lost stays lost, so a step after which nothing is lost starts from
\* the invariant of the sessions.
LEMMA NothingLost ==
  ASSUME IInv, [Next]_vars, ~lost'
  PROVE  SessionsInv
BY DEF IInv, Next, BootNext, BootRead, BootRehash, BootInsert, Restart, Reset, Tick, SignIn,
   LoginRead, LoginAnswer, TotpRead, TotpVerify, Manage, AdminRead, LogoutWrite,
   SetupWrite, EnableWrite, DisableWrite, GiveUp, vars, History

\* A token that has stopped being accepted is never accepted again, whatever the
\* startup, the reset command and overlapping requests write, short of a logout over
\* a version that it had not read (services/auth.py revoke_sessions).
THEOREM RevocationLasts == Spec => NeverRevived
<1>1. TypeOK /\ IInv /\ [Next]_vars
        => [~lost' => \A t \in tokens : Current(t)' => Current(t)]_vars
  BY NothingLost, StepNeverRevives
<1>2. QED BY <1>1, TypeCorrect, SessionsCorrect, PTL DEF Spec, NeverRevived

\* A reset, turning two-factor sign-in on or off, and a sign-out leave no token valid
\* that was issued before, unless that sign-out or one before it wrote over a version
\* that it had not read (services/auth.py, services/totp.py, admin_totp.py).
THEOREM ChangesRevoke == Spec => ChangeRevokes
<1>1. TypeOK /\ IInv /\ [Next]_vars
        => [~lost' /\ (Reset \/ \E r \in Requests :
                          LogoutWrite(r) \/ \E c \in Codes :
                            EnableWrite(r, c) \/ DisableWrite(r, c))
              => \A t \in tokens : ~Current(t)']_vars
  BY NothingLost, RevokingBumps, BumpRevokes
<1>2. QED BY <1>1, TypeCorrect, SessionsCorrect, PTL DEF Spec, ChangeRevokes
=============================================================================
