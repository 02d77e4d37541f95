---------------------------- MODULE Correspondence ----------------------------
(***************************************************************************)
(* What goes to and fro between the screens and the server.  The way of a  *)
(* message: the visitor's contact form and the server that stores and      *)
(* delivers what it sends (Contact), the owner's way into the admin panel  *)
(* (SignIn), and the inbox where the message is read (Inbox).  And the     *)
(* panel's other pages: the lists (ListPage), the CV (Cv), two-factor      *)
(* sign-in (TwoFactor), the lists inside the editor's form (RowsEditor),   *)
(* and the question that a deletion asks (Confirm).  LoginAttempts is what *)
(* the server asks of every sign-in.                                       *)
(*                                                                         *)
(* They meet in the rows of the database, of which each sees what the      *)
(* others can do to them (a message arrives or goes at any moment, another *)
(* tab changes a list), and in the session that the panel is opened in;    *)
(* they do not write each other's state, so a behaviour follows one part,  *)
(* whichever.                                                              *)
(***************************************************************************)
EXTENDS Naturals

CONSTANTS Fields, MaxTokens, MaxRequests, MaxSessions,
          NumMessages, Arrived, PageSize, MaxTime, MaxMishaps, MaxClicks,
          Slugs, MaxAccidents, MaxFiles, Capacity, MaxFaults, MaxSecrets, MaxUpsets, MaxRows,
          Addresses, Home, MaxTries, Window, Day,
          IpLimit, EmailIpLimit, EmailLimit, CodeLimit, DayLimit, ReauthLimit, Slots

VARIABLES
  part,                                                       (* The part followed. *)
  form, issued, req, row, spent, mailed, stored,       (* Contact *)
  at, session, login, calls, draft, cookie, pending, server, held,     (* SignIn *)
  clock, msg, page, patch, removal, shell, mishaps, clicks, walk,      (* Inbox *)
  rows, list, load, moving, removing, accidents, unseen,               (* ListPage *)
  cv, ids, bodies, get, shown, uploads, dialog, faults, crossed,       (* Cv *)
  totp, status, setup, confirm, scanned, upsets,                       (* TwoFactor *)
  question, modal, events, opener, focus,                              (* Confirm *)
  field, written, errors, message, saving, put, edited,                (* RowsEditor *)
  recent, tries, free, queue, second, halfway, guessed            (* LoginAttempts *)

contact == <<form, issued, req, row, spent, mailed, stored>>
door == <<at, session, login, calls, draft, cookie, pending, server, held>>
inbox == <<clock, msg, page, patch, removal, shell, mishaps, clicks, walk>>
lists == <<rows, list, load, moving, removing, accidents, unseen>>
files == <<cv, ids, bodies, get, shown, uploads, dialog, faults, crossed>>
security == <<totp, status, setup, confirm, scanned, upsets>>
asking == <<question, modal, events, opener, focus>>
editing == <<field, written, errors, message, saving, put, edited>>
attempts == <<recent, tries, free, queue, second, halfway, guessed>>
vars == <<part, contact, door, inbox, lists, files, security, asking, editing, attempts>>

Sender == INSTANCE Contact
Door == INSTANCE SignIn WITH form <- login
Box == INSTANCE Inbox
List == INSTANCE ListPage
File == INSTANCE Cv
Second == INSTANCE TwoFactor
Question == INSTANCE Confirm
Form == INSTANCE RowsEditor WITH draft <- written, form <- message, focus <- put
Gate == INSTANCE LoginAttempts WITH pending <- halfway

ASSUME CorrespondenceAssumption ==
  /\ Sender!Bounds /\ Door!Bounds /\ Box!Bounds
  /\ List!Bounds /\ File!Bounds /\ Second!Bounds /\ Form!Bounds
  /\ Gate!AttemptBounds

-------------------------------------------------------------------------------

Off == "off"
NoContact ==
  /\ form = Off /\ issued = Off /\ req = Off
  /\ row = Off /\ spent = Off /\ mailed = Off /\ stored = Off
NoDoor ==
  /\ at = Off /\ session = Off /\ login = Off /\ calls = Off /\ draft = Off
  /\ cookie = Off /\ pending = Off /\ server = Off /\ held = Off
NoInbox ==
  /\ clock = Off /\ msg = Off /\ page = Off /\ patch = Off /\ removal = Off
  /\ shell = Off /\ mishaps = Off /\ clicks = Off /\ walk = Off
NoLists ==
  /\ rows = Off /\ list = Off /\ load = Off /\ moving = Off
  /\ removing = Off /\ accidents = Off /\ unseen = Off
NoFiles ==
  /\ cv = Off /\ ids = Off /\ bodies = Off /\ get = Off /\ shown = Off
  /\ uploads = Off /\ dialog = Off /\ faults = Off /\ crossed = Off
NoSecurity ==
  /\ totp = Off /\ status = Off /\ setup = Off
  /\ confirm = Off /\ scanned = Off /\ upsets = Off
NoAsking ==
  question = Off /\ modal = Off /\ events = Off /\ opener = Off /\ focus = Off
NoEditing ==
  /\ field = Off /\ written = Off /\ errors = Off /\ message = Off
  /\ saving = Off /\ put = Off /\ edited = Off
NoAttempts ==
  /\ recent = Off /\ tries = Off /\ free = Off /\ queue = Off
  /\ second = Off /\ halfway = Off /\ guessed = Off

Parts == {"contact", "door", "inbox", "lists", "files", "security", "asking", "editing", "attempts"}

Init ==
  /\ part \in Parts
  /\ IF part = "contact" THEN Sender!Init ELSE NoContact
  /\ IF part = "door" THEN Door!Init ELSE NoDoor
  /\ IF part = "inbox" THEN Box!Init ELSE NoInbox
  /\ IF part = "lists" THEN List!Init ELSE NoLists
  /\ IF part = "files" THEN File!Init ELSE NoFiles
  /\ IF part = "security" THEN Second!Init ELSE NoSecurity
  /\ IF part = "asking" THEN Question!Init ELSE NoAsking
  /\ IF part = "editing" THEN Form!Init ELSE NoEditing
  /\ IF part = "attempts" THEN Gate!Init ELSE NoAttempts

Others(p) ==
  /\ UNCHANGED part
  /\ p # "contact" => UNCHANGED contact
  /\ p # "door" => UNCHANGED door
  /\ p # "inbox" => UNCHANGED inbox
  /\ p # "lists" => UNCHANGED lists
  /\ p # "files" => UNCHANGED files
  /\ p # "security" => UNCHANGED security
  /\ p # "asking" => UNCHANGED asking
  /\ p # "editing" => UNCHANGED editing
  /\ p # "attempts" => UNCHANGED attempts

Next ==
  \/ part = "contact" /\ Sender!Next /\ Others("contact")
  \/ part = "door" /\ Door!Next /\ Others("door")
  \/ part = "inbox" /\ Box!Next /\ Others("inbox")
  \/ part = "lists" /\ List!Next /\ Others("lists")
  \/ part = "files" /\ File!Next /\ Others("files")
  \/ part = "security" /\ Second!Next /\ Others("security")
  \/ part = "asking" /\ Question!Next /\ Others("asking")
  \/ part = "editing" /\ Form!Next /\ Others("editing")
  \/ part = "attempts" /\ Gate!Next /\ Others("attempts")

Spec == Init /\ [][Next]_vars

-------------------------------------------------------------------------------

TypeOK ==
  /\ part \in Parts
  /\ part = "contact" => Sender!TypeOK
  /\ part = "door" => Door!TypeOK
  /\ part = "inbox" => Box!TypeOK
  /\ part = "lists" => List!TypeOK
  /\ part = "files" => File!TypeOK
  /\ part = "security" => Second!TypeOK
  /\ part = "asking" => Question!TypeOK
  /\ part = "editing" => Form!TypeOK
  /\ part = "attempts" => Gate!TypeOK

\* Neither the contact form nor the login page is ever ready to send a Turnstile
\* token that the server has spent: a token is single-use (useTurnstile.ts).
TokenNotSpent ==
  /\ part = "contact" => Sender!TokenNotSpent
  /\ part = "door" => Door!LoginTokenNotSpent

\* What the visitor is answered and what the row says of the delivery are what
\* happened to the message, through crashes and failed commits (services/contact.py).
DeliveryTrue == part = "contact" => Sender!AnswersTrue /\ Sender!DeliveryTrue

\* The owner is not shut out: no 401 to a request of an earlier session makes the panel
\* say that this one has expired (RequireAuth.tsx), two-factor sign-in is on only with a secret in the owner's app
\* (services/totp.py), failures from one address never fill the email's limit
\* (api/v1/auth.py) and no slot for password checks is lost (services/auth.py).
NotShutOut ==
  /\ part = "door" => Door!NoStaleExpiry
  /\ part = "security" => Second!NotLockedOut
  /\ part = "attempts" => Gate!OneAddressCannotLock /\ Gate!SlotsKept

\* A read is of the moment it says: the pages of the inbox continue one another
\* (services/messages.py) but for the changes that PagesTile names, and a removed file
\* is not served (api/v1/files.py).
ReadsTrue ==
  /\ part = "inbox" => Box!PagesTile
  /\ part = "files" => File!RemovedGone

\* What is on the screen is true, with the exceptions each part names: once everything
\* is answered it shows what the server has, the badge its unread messages (AdminLayout.tsx), the lists their rows
\* (ContentList.tsx), the CV page its file (useFileUpload.ts), the security page its
\* state; the dialog is the question's (ConfirmDialog.tsx); and an error in the form is
\* at the row it is about (BulletsEditor.tsx, TagListEditor.tsx).
ScreensTrue ==
  /\ part = "inbox" => Box!BadgeSettles
  /\ part = "lists" => List!ListSettles
  /\ part = "files" => File!CvSettles
  /\ part = "security" => Second!StatusSettles
  /\ part = "asking" => Question!DialogSettles
  /\ part = "editing" => Form!ErrorsTrue
===============================================================================
