---------------------------- MODULE SettingsPage ----------------------------
(***************************************************************************)
(* The settings of one account in one tab (useSettings): the username and  *)
(* email forms, the library preference, connected apps, export and account *)
(* deletion.  Every change is a request of its own; nothing keeps two of   *)
(* them from being under way at once, and every answer brings the whole    *)
(* user.  AuthService caches the user for the rest of the tab.             *)
(***************************************************************************)
EXTENDS Integers, FiniteSets

CONSTANTS
  Values,       \* what a username, an email or the preference may be; one of them is there at first
  Apps,         \* the apps connected at first
  MaxSteps,     \* bound: what the user does and the network loses
  None          \* model value: nothing

VARIABLES
  account,      \* the user stored, and its connected apps; None once deleted
  cache,        \* AuthService.cachedUserPromise: None, or the request awaited (0 once answered) and its user
  page,         \* the state of useSettings and of its sections
  net,          \* requests under way
  overlapped,   \* history: an answer was lost, or a profile answer was awaited when another was asked for
  early,        \* history: the user was read while a change was under way
  steps

vars == <<account, cache, page, net, overlapped, early, steps>>

Input == steps < MaxSteps /\ steps' = steps + 1

Fields == {"username", "email", "view"}

-----------------------------------------------------------------------------
(* Requests *)

FreeId == CHOOSE i \in 1..(Cardinality(net) + 1) : \A r \in net : r.id # i

Request(kind, value, sequence) ==
  [id |-> FreeId, kind |-> kind, value |-> value, sequence |-> sequence, state |-> "sent", user |-> None]

Of(kind) == {r \in net : r.kind = kind}

Changes == {r \in net : r.kind \in Fields}

(* The answers the page will show. *)
Showing == Changes \cup {r \in Of("me") : r.value = "page"}

UpdateProfile(kind, value, sequence) ==
  /\ cache' = None
  /\ net' = net \cup {Request(kind, value, sequence)}
  /\ overlapped' = (overlapped \/ \E r \in Showing : {r.kind, kind} # {"view"})

Answered(r, state, user) == net' = (net \ {r}) \cup {[r EXCEPT !.state = state, !.user = user]}

(* Changes of one kind reach the server in the order they were sent. *)
Served(r) ==
  /\ r \in net /\ r.state = "sent"
  /\ \A q \in Of(r.kind) : q.state = "sent" => r.sequence <= q.sequence
  /\ account' = IF account = None THEN None
                ELSE CASE r.kind \in Fields -> [account EXCEPT !.user[r.kind] = r.value]
                       [] r.kind = "disconnect" -> [account EXCEPT !.apps = @ \ {r.value}]
                       [] r.kind = "delete" -> None
                       [] OTHER -> account
  /\ Answered(r, IF account = None THEN "failed" ELSE "ok",
              IF account' # None THEN account'.user ELSE None)
  /\ UNCHANGED <<cache, page, overlapped, early, steps>>

(* The request or its answer is lost, or the server refuses. *)
Fails(r) ==
  /\ Input /\ r \in net /\ r.state # "failed"
  /\ Answered(r, "failed", None)
  /\ overlapped' = TRUE
  /\ UNCHANGED <<account, cache, page, early>>

-----------------------------------------------------------------------------
(* The user: read by this page as it opens, and by others of the tab *)

GetCurrentUser(reader) ==
  /\ cache = None
  /\ cache' = [request |-> FreeId, user |-> None]
  /\ net' = net \cup {Request("me", reader, 0)}
  /\ early' = (early \/ Changes # {})

ReadUser ==
  /\ Input /\ GetCurrentUser("others")
  /\ UNCHANGED <<account, page, overlapped>>

Kept(r) == IF r.state = "ok" THEN [request |-> 0, user |-> r.user] ELSE None

(* The answer fills the cache only if the cache still awaits this request. *)
UserRead(r) ==
  /\ r \in Of("me") /\ r.state # "sent"
  /\ cache' = IF cache = None \/ cache.request # r.id THEN cache ELSE Kept(r)
  /\ page' = IF r.value = "page" /\ r.state = "ok" THEN [page EXCEPT !.user = r.user] ELSE page
  /\ net' = net \ {r}
  /\ UNCHANGED <<account, overlapped, early, steps>>

-----------------------------------------------------------------------------
(* Profile *)

EditField(field) ==
  /\ Input /\ ~page.editing[field]
  /\ page' = [page EXCEPT !.editing[field] = TRUE]
  /\ UNCHANGED <<account, cache, net, overlapped, early>>

CancelEdit(field) ==
  /\ Input /\ page.editing[field]
  /\ page' = [page EXCEPT !.editing[field] = FALSE]
  /\ UNCHANGED <<account, cache, net, overlapped, early>>

HandleUsernameChange(value) ==
  /\ Input /\ page.editing.username
  /\ UpdateProfile("username", value, 0)
  /\ UNCHANGED <<account, page, early>>

HandleEmailChange(value) ==
  /\ Input /\ page.editing.email
  /\ UpdateProfile("email", value, 0)
  /\ UNCHANGED <<account, page, early>>

(* The form closes and the user shown, and the name in the sidebar, are the answered one's. *)
UsernameAnswer(r) ==
  [page EXCEPT !.user = r.user, !.currentUser = r.user.username, !.editing.username = FALSE]

EmailAnswer(r) == [page EXCEPT !.user = r.user, !.editing.email = FALSE]

ProfileAnswer(r) ==
  /\ r \in Of("username") \cup Of("email") /\ r.state # "sent"
  /\ page' = IF r.state = "failed" THEN page
             ELSE IF r.kind = "username" THEN UsernameAnswer(r) ELSE EmailAnswer(r)
  /\ net' = net \ {r}
  /\ UNCHANGED <<account, cache, overlapped, early, steps>>

-----------------------------------------------------------------------------
(* The library preference: only the answer to the latest choice is shown. *)

HandleViewChange(view) ==
  /\ Input
  /\ page' = [page EXCEPT !.sequence = @ + 1, !.viewSave = "saving", !.timer = 0]
  /\ UpdateProfile("view", view, page'.sequence)
  /\ UNCHANGED <<account, early>>

(* Mistake: the answer to an earlier choice is shown too. *)
MutLatest(r) == TRUE

Latest(r) == r.sequence = page.sequence

ViewAnswer(r) ==
  /\ r \in Of("view") /\ r.state # "sent"
  /\ page' = IF ~Latest(r) THEN page
             ELSE IF r.state = "failed" THEN [page EXCEPT !.viewSave = None]
             ELSE [page EXCEPT !.user = r.user, !.viewSave = "saved", !.timer = page.sequence]
  /\ net' = net \ {r}
  /\ UNCHANGED <<account, cache, overlapped, early, steps>>

ViewTimer(p) == [p EXCEPT !.viewSave = IF p.timer = p.sequence THEN None ELSE @, !.timer = 0]

ViewTimerFires ==
  /\ page.timer # 0
  /\ page' = ViewTimer(page)
  /\ UNCHANGED <<account, cache, net, overlapped, early, steps>>

-----------------------------------------------------------------------------
(* Connected apps, export, account deletion *)

LoadApps ==
  /\ page.apps = None /\ account # None
  /\ page' = [page EXCEPT !.apps = account.apps]
  /\ UNCHANGED <<account, cache, net, overlapped, early, steps>>

Disconnect(app) ==
  /\ Input /\ page.apps # None /\ app \in page.apps /\ page.busy = None
  /\ page' = [page EXCEPT !.busy = app]
  /\ net' = net \cup {Request("disconnect", app, 0)}
  /\ UNCHANGED <<account, cache, overlapped, early>>

Disconnected(r) == [page EXCEPT !.busy = None, !.apps = IF r.state = "ok" THEN @ \ {r.value} ELSE @]

DisconnectAnswer(r) ==
  /\ r \in Of("disconnect") /\ r.state # "sent"
  /\ page' = Disconnected(r) /\ net' = net \ {r}
  /\ UNCHANGED <<account, cache, overlapped, early, steps>>

HandleExport ==
  /\ Input /\ Of("export") = {}
  /\ net' = net \cup {Request("export", None, 0)}
  /\ UNCHANGED <<account, cache, page, overlapped, early>>

ExportAnswer(r) ==
  /\ r \in Of("export") /\ r.state # "sent"
  /\ net' = net \ {r}
  /\ UNCHANGED <<account, cache, page, overlapped, early, steps>>

ConfirmDelete(shown) ==
  /\ Input /\ page.confirm # shown /\ Of("delete") = {}
  /\ page' = [page EXCEPT !.confirm = shown]
  /\ UNCHANGED <<account, cache, net, overlapped, early>>

HandleDeleteAccount ==
  /\ Input /\ page.confirm /\ Of("delete") = {}
  /\ net' = net \cup {Request("delete", None, 0)}
  /\ UNCHANGED <<account, cache, page, overlapped, early>>

(* Success signs out; a failure keeps the confirmation open for another password. *)
DeleteAnswer(r) ==
  /\ r \in Of("delete") /\ r.state # "sent"
  /\ IF r.state = "ok" THEN page' = [page EXCEPT !.left = TRUE] /\ cache' = None ELSE UNCHANGED <<page, cache>>
  /\ net' = net \ {r}
  /\ UNCHANGED <<account, overlapped, early, steps>>

(* The page as it opens, and after leaving it for another and coming back (bound: with nothing under way). *)
Opened(user, name) ==
  [user |-> user, currentUser |-> name, editing |-> [username |-> FALSE, email |-> FALSE], sequence |-> 0,
   viewSave |-> None, timer |-> 0, apps |-> None, busy |-> None, confirm |-> FALSE, left |-> FALSE]

Reopen ==
  /\ Input /\ net = {} /\ ~page.left
  /\ page' = Opened(IF cache = None THEN None ELSE cache.user, page.currentUser)
  /\ IF cache = None THEN GetCurrentUser("page") ELSE UNCHANGED <<cache, net, early>>
  /\ UNCHANGED <<account, overlapped>>

Init ==
  /\ LET first == CHOOSE v \in Values : TRUE
     IN account = [user |-> [field \in Fields |-> first], apps |-> Apps]
  /\ cache = [request |-> 0, user |-> account.user]
  /\ page = Opened(account.user, account.user.username)
  /\ net = {} /\ overlapped = FALSE /\ early = FALSE /\ steps = 0

Answers ==
  \E r \in net : \/ Served(r) \/ UserRead(r) \/ ProfileAnswer(r) \/ ViewAnswer(r) \/ DisconnectAnswer(r)
                 \/ ExportAnswer(r) \/ DeleteAnswer(r)

Next ==
  \/ Answers \/ LoadApps \/ ViewTimerFires
  \/ \E r \in net : Fails(r)
  \/ /\ ~page.left
     /\ \/ ReadUser \/ HandleExport \/ HandleDeleteAccount \/ Reopen
        \/ \E shown \in BOOLEAN : ConfirmDelete(shown)
        \/ \E field \in {"username", "email"} : EditField(field) \/ CancelEdit(field)
        \/ \E value \in Values :
             HandleUsernameChange(value) \/ HandleEmailChange(value) \/ HandleViewChange(value)
        \/ \E app \in Apps : Disconnect(app)

(* Requests are answered or fail. *)
Fairness == WF_vars(Answers) /\ WF_vars(ViewTimerFires)

Spec == Init /\ [][Next]_vars /\ Fairness

-----------------------------------------------------------------------------
(* Properties *)

(* The cache holds a request under way or the user it brought; a failed read does not stay there
   (AuthService.getCurrentUser line 93: "must not poison subsequent session checks"). *)
TypeOK ==
  /\ cache # None => (cache.request = 0 => cache.user \in [Fields -> Values])
                   /\ (cache.request # 0 => \E r \in Of("me") : r.id = cache.request)
  /\ page.busy \in {None} \cup Apps /\ page.timer \in 0..page.sequence

(* The note beside the preference is about the choice made last: it says "saving" exactly while that choice
   is, whichever earlier choice was answered or timed out meanwhile (useSettings lines 113-132). *)
PreferenceStatus ==
  page.viewSave = "saving" <=> \E r \in Of("view") : r.sequence = page.sequence

(* The note does not stay: a choice is saved or fails, and its confirmation is taken down. *)
Noted == page.viewSave # None
PreferenceSettles == Noted ~> ~Noted

(* What the settings show is what is stored, once nothing is under way: the preference follows the last
   choice although answers to earlier ones may come later.  Lost answers, and a change made while the
   page awaits an answer of another kind, are left out: there the code shows whichever answer comes last. *)
ShowsWhatIsStored ==
  net = {} /\ ~overlapped /\ ~early /\ page.user # None /\ account # None =>
    page.user = account.user /\ page.currentUser = account.user.username

(* The cached user, which every page of the tab reads, is the stored one once nothing is under way
   (AuthService.updateProfile clears it), unless it was read while a change was under way. *)
CachedUserFresh ==
  net = {} /\ ~early /\ account # None /\ cache # None => cache.user = account.user

(* An app no longer listed has no access (ConnectedAppsSettings lines 32-43). *)
UnlistedIsDisconnected ==
  page.apps # None /\ account # None => account.apps \subseteq page.apps

=============================================================================
