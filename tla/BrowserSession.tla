--------------------------- MODULE BrowserSession ---------------------------
(***************************************************************************)
(* Signing in and out in one browser tab: the AuthService with its shared  *)
(* promises, the session hook of the app shell, the sign-in form and the   *)
(* renewal of API calls.  The session token is an                          *)
(* httpOnly cookie: the page knows only when it ends, so what it believes  *)
(* and what the cookie jar holds can drift apart while requests are under  *)
(* way.  Every request may be delayed, answered late or lost.              *)
(***************************************************************************)
EXTENDS Integers, Sequences, FiniteSets

CONSTANTS
  Accounts,
  MaxSteps,     \* bound: what the user and the clock do
  None

ASSUME NoneAssumption == None \notin Accounts

VARIABLES
  tokens,       \* the sessions issued: whose, how near their end, revoked or not
  jar,          \* the session cookie (0: none)
  net,          \* requests under way
  expiry,       \* the session whose end localStorage holds (0: none)
  drafts,       \* whether user content is stored
  cached,       \* cachedUserPromise
  refreshing,   \* refreshPromise: its request (0: none)
  leaving,      \* logoutPromise: none, waiting for a refresh, or sent
  ui,           \* the state of useSession
  form,         \* the sign-in form
  call,         \* an API call
  settings,     \* sign out everywhere
  signedOut,    \* history: signed out by the user, and not signed in since;
                \* whether a password change, a forgotten renewal or a second
                \* sign-in was under way, and whether the request failed (with
                \* a call still to be answered this counts as amid, too)
  steps

service == <<expiry, drafts, cached, refreshing, leaving>>
vars == <<tokens, jar, net, service, ui, form, call, settings, signedOut, steps>>

Input == steps < MaxSteps /\ steps' = steps + 1

-----------------------------------------------------------------------------
(* The server and the network *)

Valid(t) == t # 0 /\ tokens[t].age < 2 /\ ~tokens[t].revoked

Issued(account) == [account |-> account, age |-> 0, revoked |-> FALSE]

FreeId == CHOOSE i \in 1..(Cardinality(net) + 1) :
            \A r \in net : r.id # i

Request(kind, who) ==
  [id |-> FreeId, kind |-> kind, cookie |-> jar, who |-> who, answer |-> "none", token |-> 0]

Sending(kind, who) == net \cup {Request(kind, who)}

Revoke(account) ==
  [t \in DOMAIN tokens |-> IF tokens[t].account = account THEN [tokens[t] EXCEPT !.revoked = TRUE]
                           ELSE tokens[t]]

Answered(r, answer) == net' = (net \ {r}) \cup {[r EXCEPT !.answer = answer]}

AnsweredWith(r, given, account) ==
  /\ tokens' = Append(given, Issued(account))
  /\ net' = (net \ {r}) \cup {[r EXCEPT !.answer = "ok", !.token = Len(given) + 1]}

(* Renewal is refused once the session has its maximum length. *)
Serve(r) ==
  /\ r \in net /\ r.answer = "none"
  /\ CASE r.kind = "login" -> AnsweredWith(r, tokens, r.who)
       [] r.kind = "refresh" /\ Valid(r.cookie) ->
            \/ AnsweredWith(r, tokens, tokens[r.cookie].account)
            \/ Answered(r, "401") /\ UNCHANGED tokens
       [] r.kind = "change" /\ Valid(r.cookie) ->
            AnsweredWith(r, Revoke(tokens[r.cookie].account), tokens[r.cookie].account)
       [] r.kind = "all" /\ Valid(r.cookie) ->
            Answered(r, "ok") /\ tokens' = Revoke(tokens[r.cookie].account)
       [] r.kind \in {"logout", "register"} -> Answered(r, "ok") /\ UNCHANGED tokens
       [] r.kind \in {"me", "call"} /\ Valid(r.cookie) -> Answered(r, "ok") /\ UNCHANGED tokens
       [] OTHER -> Answered(r, "401") /\ UNCHANGED tokens
  /\ UNCHANGED <<jar, service, ui, form, call, settings, signedOut, steps>>

(* The connection fails, or the server does: no cookie is set. *)
Lose(r) ==
  /\ Input /\ r \in net /\ r.answer # "error"
  /\ Answered(r, "error")
  /\ UNCHANGED <<tokens, jar, service, ui, form, call, settings, signedOut>>

(* A session comes within 15 seconds of its end, then ends. *)
Age(t) ==
  /\ Input /\ t \in DOMAIN tokens /\ tokens[t].age < 2
  /\ tokens' = [tokens EXCEPT ![t].age = @ + 1]
  /\ UNCHANGED <<jar, net, service, ui, form, call, settings, signedOut>>

(* Sign out everywhere, or a password change, on another device. *)
RevokedElsewhere(account) ==
  /\ Input
  /\ tokens' = Revoke(account) /\ tokens' # tokens
  /\ UNCHANGED <<jar, net, service, ui, form, call, settings, signedOut>>

-----------------------------------------------------------------------------
(* AuthService *)

IsAuthenticated == expiry # 0 /\ tokens[expiry].age < 2

Unfinished(kind) == {r \in net : r.kind = kind}

Staying == [state |-> "no", for |-> 0]

(* The listener of the expiry event. *)
HandleExpired(u) ==
  [u EXCEPT !.auth = FALSE, !.user = None, !.error = FALSE, !.checking = FALSE]

(* Involuntary expiry: the drafts stay, a renewal under way is forgotten. *)
RemoveToken == cached' = None /\ refreshing' = 0 /\ expiry' = 0 /\ UNCHANGED drafts

(* Who waits for the answer of /me: the session check, due on mount and on  *)
(* retry, or the sign-in.                                                   *)
Waiting(u, who, request) == [u EXCEPT !.waiters = @ \cup {[who |-> who, for |-> request]}]

SignedIn(u, user) == [u EXCEPT !.user = user, !.auth = TRUE, !.checking = FALSE]

(* The cached user is shown at once, otherwise /me is asked. *)
GetCurrentUser(u, who, known) ==
  IF known = None
  THEN /\ net' = Sending("me", None)
       /\ cached' = [request |-> FreeId, user |-> None]
       /\ ui' = Waiting(u, who, FreeId)
  ELSE /\ UNCHANGED net /\ cached' = known
       /\ ui' = IF known.user = None THEN Waiting(u, who, known.request) ELSE SignedIn(u, known.user)

CheckAuth ==
  /\ ui.due
  /\ LET u == [ui EXCEPT !.due = FALSE]
     IN  IF IsAuthenticated THEN GetCurrentUser(u, "check", cached)
         ELSE ui' = [u EXCEPT !.auth = FALSE, !.checking = FALSE] /\ UNCHANGED <<net, cached>>
  /\ UNCHANGED <<tokens, jar, expiry, drafts, refreshing, leaving, form, call, settings, signedOut, steps>>

RetryCheck ==
  /\ Input /\ ui.error /\ ~ui.checking
  /\ ui' = [ui EXCEPT !.checking = TRUE, !.error = FALSE, !.due = TRUE]
  /\ UNCHANGED <<tokens, jar, net, service, form, call, settings, signedOut>>

(* EmailReminderBanner, the library and the settings read the user too. *)
ReadUser ==
  /\ Input /\ ui.auth /\ cached = None
  /\ net' = Sending("me", None)
  /\ cached' = [request |-> FreeId, user |-> None]
  /\ UNCHANGED <<tokens, jar, expiry, drafts, refreshing, leaving, ui, form, call, settings, signedOut>>

Resumed(u, r) == {w \in u.waiters : w.for = r.id}

Resume(u, r) == [u EXCEPT !.waiters = @ \ Resumed(u, r)]

MeAnswer(r) ==
  /\ r \in net /\ r.kind = "me" /\ r.answer = "ok"
  /\ net' = net \ {r}
  /\ cached' = IF cached # None /\ cached.request = r.id
               THEN [request |-> 0, user |-> tokens[r.cookie].account] ELSE cached
  /\ ui' = IF Resumed(ui, r) = {} THEN ui ELSE SignedIn(Resume(ui, r), tokens[r.cookie].account)
  /\ UNCHANGED <<tokens, jar, expiry, drafts, refreshing, leaving, form, call, settings, signedOut, steps>>

(* Only a real 401 drops the session; another failure is shown. *)
DropsSession(r) == r.answer = "401"

(* Mistake: the check returns early on a failure. *)
MutUnverified(u, waited, check) == [u EXCEPT !.error = @ \/ (waited # {} /\ IsAuthenticated)]

(* The session is still saved, but could not be verified. *)
Unverified(u, waited, check) ==
  [u EXCEPT !.error = @ \/ (waited # {} /\ IsAuthenticated),
            !.auth = @ /\ ~(check /\ ~IsAuthenticated),
            !.checking = @ /\ ~check]

MeFails(r) ==
  /\ r \in net /\ r.kind = "me" /\ r.answer \in {"401", "error"}
  /\ net' = net \ {r}
  /\ LET waited == Resumed(ui, r)
         u == Resume(ui, r)
     IN  IF DropsSession(r)
         THEN RemoveToken /\ ui' = HandleExpired(u)
         ELSE /\ cached' = IF cached # None /\ cached.request = r.id THEN None ELSE cached
              /\ ui' = Unverified(u, waited, \E w \in waited : w.who = "check")
              /\ UNCHANGED <<refreshing, expiry, drafts>>
  /\ UNCHANGED <<tokens, jar, leaving, form, call, settings, signedOut, steps>>

(* Renewal on activity in a signed-in tab. *)
Renew ==
  /\ Input /\ ui.auth /\ leaving = Staying /\ refreshing = 0
  /\ net' = Sending("refresh", None) /\ refreshing' = FreeId
  /\ UNCHANGED <<tokens, jar, expiry, drafts, cached, leaving, ui, form, call, settings, signedOut>>

(* The warning timer, fifteen seconds before the known end. *)
UpdateWarning ==
  /\ ui.auth /\ expiry # 0 /\ tokens[expiry].age >= 1
  /\ RemoveToken /\ ui' = HandleExpired(ui)
  /\ UNCHANGED <<tokens, jar, net, leaving, form, call, settings, signedOut, steps>>

(* Back from the history cache, or visible again. *)
Revalidate ==
  /\ ui.auth /\ ~IsAuthenticated
  /\ ui' = [ui EXCEPT !.auth = FALSE, !.user = None]
  /\ UNCHANGED <<tokens, jar, net, service, form, call, settings, signedOut, steps>>

-----------------------------------------------------------------------------
(* Signing out *)

NoCall == [kind |-> "none", state |-> "no", request |-> 0]

ForgetLocally == cached' = None /\ expiry' = 0 /\ drafts' = FALSE

Leave(requests) ==
  /\ leaving' = [state |-> "sent", for |-> 0]
  /\ net' = requests \cup {Request("logout", None)}

(* Mistake: sign-out does not wait for a renewal under way. *)
MutClearCookies(requests) ==
  IF leaving # Staying THEN UNCHANGED leaving /\ net' = requests ELSE Leave(requests)

(* The cookies are cleared once, and after a renewal under way. *)
ClearCookies(requests) ==
  IF leaving # Staying THEN UNCHANGED leaving /\ net' = requests
  ELSE IF refreshing = 0 THEN Leave(requests)
  ELSE leaving' = [state |-> "waiting", for |-> refreshing] /\ net' = requests

Orphans == {r \in Unfinished("refresh") : r.id # refreshing}

In == [since |-> FALSE, amid |-> FALSE, failed |-> FALSE]

SigningOut ==
  [since |-> TRUE, failed |-> signedOut.failed,
   amid |-> Unfinished("change") \cup Orphans \cup ui.waiters # {} \/ form.state # "idle"]

LeaveApp(u) == [u EXCEPT !.auth = FALSE, !.user = None]

Logout ==
  /\ Input /\ ui.auth
  /\ ForgetLocally /\ ClearCookies(net)
  /\ ui' = LeaveApp(ui) /\ signedOut' = SigningOut
  /\ UNCHANGED <<tokens, jar, refreshing, form, call, settings>>

LogoutEverywhere ==
  /\ Input /\ ui.auth /\ settings = "no"
  /\ settings' = "sent" /\ net' = Sending("all", None)
  /\ UNCHANGED <<tokens, jar, service, ui, form, call, signedOut>>

LogoutEverywhereFails(r) ==
  /\ r \in net /\ r.kind = "all" /\ r.answer \in {"401", "error"}
  /\ settings' = "no" /\ net' = net \ {r}
  /\ UNCHANGED <<tokens, jar, service, ui, form, call, signedOut, steps>>

LogoutEverywhereAnswer(r) ==
  /\ r \in net /\ r.kind = "all" /\ r.answer = "ok"
  /\ ForgetLocally /\ ClearCookies(net \ {r})
  /\ settings' = "leaving"
  /\ UNCHANGED <<tokens, jar, refreshing, ui, form, call, signedOut, steps>>

(* Sign out everywhere goes on to the hook's logout, which clears again. *)
LogoutAnswer(r) ==
  /\ r \in net /\ r.kind = "logout" /\ r.answer # "none"
  /\ jar' = IF r.answer = "ok" THEN 0 ELSE jar
  /\ IF settings # "leaving"
     THEN net' = net \ {r} /\ leaving' = Staying /\ UNCHANGED <<cached, expiry, drafts, ui, settings>>
     ELSE /\ settings' = "no" /\ ForgetLocally /\ ui' = LeaveApp(ui)
          /\ IF refreshing # 0
             THEN leaving' = [state |-> "waiting", for |-> refreshing] /\ net' = net \ {r}
             ELSE /\ UNCHANGED leaving
                  /\ net' = (net \ {r}) \cup {[r EXCEPT !.cookie = jar', !.answer = "none"]}
  /\ signedOut' = [(IF settings = "leaving" THEN SigningOut ELSE signedOut)
                    EXCEPT !.failed = @ \/ r.answer # "ok",
                           !.amid = @ \/ (r.answer # "ok" /\ call # NoCall)]
  /\ UNCHANGED <<tokens, refreshing, form, call, steps>>

(* The server answers with a new session for this browser. *)
ChangePassword ==
  /\ Input /\ ui.auth /\ Unfinished("change") = {}
  /\ net' = Sending("change", None)
  /\ UNCHANGED <<tokens, jar, service, ui, form, call, settings, signedOut>>

RecordSessionExpiry(token) == expiry' = token /\ cached' = None

ChangePasswordAnswer(r) ==
  /\ r \in net /\ r.kind = "change" /\ r.answer # "none"
  /\ net' = net \ {r}
  /\ IF r.answer = "ok" THEN jar' = r.token /\ RecordSessionExpiry(r.token)
     ELSE UNCHANGED <<jar, expiry, cached>>
  /\ UNCHANGED <<tokens, drafts, refreshing, leaving, ui, form, call, settings, signedOut, steps>>

-----------------------------------------------------------------------------
(* API calls: a "read" takes a 401 as the end of the session; a "write" is  *)
(* renewed and sent again once; a "long" one also renews beforehand.        *)

CallSent(kind, state) == [kind |-> kind, state |-> state, request |-> FreeId]

StartCall(kind) ==
  /\ Input /\ ui.auth /\ call = NoCall
  /\ IF kind = "long" /\ expiry # 0 /\ tokens[expiry].age >= 1
     THEN IF leaving # Staying THEN UNCHANGED <<net, refreshing, call>>
          ELSE IF refreshing # 0 THEN call' = [kind |-> kind, state |-> "ensuring", request |-> refreshing]
                                      /\ UNCHANGED <<net, refreshing>>
          ELSE /\ call' = CallSent(kind, "ensuring")
               /\ net' = Sending("refresh", None) /\ refreshing' = FreeId
     ELSE call' = CallSent(kind, "sent") /\ net' = Sending("call", None) /\ UNCHANGED refreshing
  /\ UNCHANGED <<tokens, jar, expiry, drafts, cached, leaving, ui, form, settings, signedOut>>

CallEnds(r) ==
  /\ r \in net /\ r.kind = "call" /\ r.answer \in {"ok", "error"}
  /\ net' = net \ {r} /\ call' = NoCall
  /\ UNCHANGED <<tokens, jar, service, ui, form, settings, signedOut, steps>>

(* Saving a new prompt reports a final 401 like any other error. *)
Rejected(kind) ==
  IF kind = "write" THEN UNCHANGED <<cached, refreshing, expiry, drafts, ui>>
  ELSE RemoveToken /\ ui' = HandleExpired(ui)

CallRejected(r) ==
  /\ r \in net /\ r.kind = "call" /\ r.answer = "401"
  /\ IF call.kind = "read" \/ call.state = "retried" \/ leaving # Staying
     THEN net' = net \ {r} /\ call' = NoCall /\ Rejected(call.kind)
     ELSE /\ UNCHANGED <<expiry, drafts, cached, ui>>
          /\ call' = [call EXCEPT !.state = "renewing", !.request = IF refreshing = 0 THEN r.id ELSE refreshing]
          /\ IF refreshing # 0 THEN net' = net \ {r} /\ UNCHANGED refreshing
             ELSE /\ net' = (net \ {r}) \cup {[Request("refresh", None) EXCEPT !.id = r.id]}
                  /\ refreshing' = r.id
  /\ UNCHANGED <<tokens, jar, leaving, form, settings, signedOut, steps>>

Renewed(r) == call.state \in {"ensuring", "renewing"} /\ call.request = r.id

(* What waited for the renewal goes on: the call is sent, again or at last, *)
(* and a sign-out clears the cookies the renewal has set.                   *)
Continue(r, sendCall) ==
  /\ net' = (net \ {r})
       \cup (IF sendCall THEN {[r EXCEPT !.kind = "call", !.cookie = jar', !.answer = "none", !.token = 0]} ELSE {})
       \cup (IF leaving = [state |-> "waiting", for |-> r.id]
             THEN {[Request("logout", None) EXCEPT !.cookie = jar']} ELSE {})
  /\ leaving' = IF leaving = [state |-> "waiting", for |-> r.id] THEN [state |-> "sent", for |-> 0] ELSE leaving

(* Whichever renewal it was: the next caller starts a new one. *)
RefreshDone == refreshing' = 0

RefreshAnswer(r) ==
  /\ r \in net /\ r.kind = "refresh" /\ r.answer = "ok"
  /\ jar' = r.token /\ RefreshDone
  /\ IF leaving = Staying THEN RecordSessionExpiry(r.token) ELSE UNCHANGED <<expiry, cached>>
  /\ call' = IF Renewed(r) THEN [call EXCEPT !.state = IF @ = "ensuring" THEN "sent" ELSE "retried"] ELSE call
  /\ Continue(r, Renewed(r))
  /\ UNCHANGED <<tokens, drafts, ui, form, settings, signedOut, steps>>

AfterRefreshFails(r) == Continue(r, FALSE)

RefreshFails(r) ==
  /\ r \in net /\ r.kind = "refresh" /\ r.answer \in {"401", "error"}
  /\ UNCHANGED jar
  /\ call' = IF Renewed(r) THEN NoCall ELSE call
  /\ IF r.answer = "401" THEN RemoveToken /\ ui' = HandleExpired(ui)
     ELSE IF Renewed(r) /\ call.state = "renewing" /\ call.kind # "write"
          THEN RemoveToken /\ ui' = HandleExpired(ui)
          ELSE refreshing' = 0 /\ UNCHANGED <<cached, expiry, drafts, ui>>
  /\ AfterRefreshFails(r)
  /\ UNCHANGED <<tokens, form, settings, signedOut, steps>>

-----------------------------------------------------------------------------
(* The sign-in form *)

FormShown == ~ui.checking /\ ~ui.error /\ ~ui.auth

NewForm == [view |-> "login", state |-> "idle", who |-> None]

(* Where the card of a view leads. *)
LinksOf(view) == IF view = "login" THEN {"register", "forgot-password"} ELSE {"login"}

SwitchView(view) ==
  /\ Input /\ FormShown /\ view \in LinksOf(form.view)
  /\ form' = [form EXCEPT !.view = view]
  /\ UNCHANGED <<tokens, jar, net, service, ui, call, settings, signedOut>>

MaySubmit == FormShown /\ form.state = "idle"

(* Registration is followed by a login; a reset link is only asked for. *)
Submit(account) ==
  /\ Input /\ MaySubmit
  /\ form' = [form EXCEPT !.who = account,
                !.state = CASE form.view = "login" -> "waiting" [] form.view = "register" -> "registering"
                            [] OTHER -> "idle"]
  /\ net' = IF form.view = "register" THEN Sending("register", account) ELSE net
  /\ UNCHANGED <<tokens, jar, service, ui, call, settings, signedOut>>

RegisterAnswer(r) ==
  /\ r \in net /\ r.kind = "register" /\ r.answer # "none"
  /\ net' = net \ {r}
  /\ form' = [form EXCEPT !.state = IF r.answer = "ok" THEN "waiting" ELSE "idle"]
  /\ UNCHANGED <<tokens, jar, service, ui, call, settings, signedOut, steps>>

(* Mistake: a login is sent while a sign-out is still under way. *)
MutMayLogin == TRUE

(* A pending logout must not clear the cookies issued by this login. *)
MayLogin == leaving = Staying

Login ==
  /\ form.state = "waiting" /\ MayLogin
  /\ form' = [form EXCEPT !.state = "sent"]
  /\ net' = Sending("login", form.who)
  /\ UNCHANGED <<tokens, jar, service, ui, call, settings, signedOut, steps>>

(* The form calls onSuccess: the app asks who signed in. *)
LoginAnswer(r) ==
  /\ r \in net /\ r.kind = "login" /\ r.answer = "ok"
  /\ form' = NewForm
  /\ jar' = r.token /\ expiry' = r.token
  /\ signedOut' = [signedOut EXCEPT !.since = FALSE, !.failed = FALSE]
  /\ net' = (net \ {r}) \cup {[r EXCEPT !.kind = "me", !.cookie = r.token, !.answer = "none", !.token = 0]}
  /\ cached' = [request |-> r.id, user |-> None]
  /\ ui' = Waiting(ui, "success", r.id)
  /\ UNCHANGED <<tokens, drafts, refreshing, leaving, call, settings, steps>>

LoginFails(r) ==
  /\ r \in net /\ r.kind = "login" /\ r.answer = "error"
  /\ form' = [form EXCEPT !.state = "idle"] /\ net' = net \ {r}
  /\ UNCHANGED <<tokens, jar, service, ui, call, settings, signedOut, steps>>

(* The editor keeps unsaved work in the browser. *)
KeepDraft ==
  /\ ui.auth /\ ~drafts /\ drafts' = TRUE
  /\ UNCHANGED <<tokens, jar, net, expiry, cached, refreshing, leaving, ui, form, call, settings, signedOut, steps>>

-----------------------------------------------------------------------------
(* The tab is opened with or without a session. *)
Init ==
  /\ \E account \in Accounts : tokens = <<Issued(account)>>
  /\ jar \in {0, 1} /\ expiry = jar /\ drafts \in BOOLEAN
  /\ net = {} /\ cached = None /\ refreshing = 0 /\ leaving = Staying
  /\ ui = [auth |-> FALSE, checking |-> TRUE, due |-> TRUE, user |-> None, error |-> FALSE, waiters |-> {}]
  /\ form = NewForm /\ call = NoCall /\ settings = "no"
  /\ signedOut = In /\ steps = 0

Answers ==
  \E r \in net :
    \/ Serve(r)
    \/ MeAnswer(r) \/ MeFails(r) \/ RefreshAnswer(r) \/ RefreshFails(r)
    \/ LogoutAnswer(r) \/ LogoutEverywhereAnswer(r) \/ LogoutEverywhereFails(r)
    \/ ChangePasswordAnswer(r) \/ CallEnds(r) \/ CallRejected(r)
    \/ RegisterAnswer(r) \/ LoginAnswer(r) \/ LoginFails(r)

User ==
  \/ RetryCheck \/ ReadUser \/ Renew \/ Logout \/ LogoutEverywhere \/ ChangePassword
  \/ \E kind \in {"read", "write", "long"} : StartCall(kind)
  \/ \E view \in {"login", "register", "forgot-password"} : SwitchView(view)
  \/ \E account \in Accounts : Submit(account)
  \/ KeepDraft

Environment ==
  \/ \E r \in net : Lose(r)
  \/ \E t \in DOMAIN tokens : Age(t)
  \/ \E account \in Accounts : RevokedElsewhere(account)

Next == CheckAuth \/ Login \/ Answers \/ UpdateWarning \/ Revalidate \/ User \/ Environment

(* Requests are answered or fail, and pending continuations run. *)
Spec == Init /\ [][Next]_vars /\ WF_vars(CheckAuth) /\ WF_vars(Login) /\ WF_vars(Answers)

-----------------------------------------------------------------------------
TypeOK ==
  /\ jar \in 0..Len(tokens) /\ expiry \in 0..Len(tokens)
  /\ refreshing # 0 => \E r \in net : r.id = refreshing /\ r.kind = "refresh"
  /\ \A r, q \in net : r.id = q.id => r = q
  /\ ui.user \in Accounts \cup {None} /\ (ui.auth => ui.user # None)
  /\ call.state \in {"no", "ensuring", "sent", "renewing", "retried"}

Gone ==
  /\ expiry = 0 /\ cached = None /\ ~drafts /\ ~ui.auth
  /\ leaving = Staying /\ ~signedOut.failed => jar = 0

(* "signing out is deliberate and must leave nothing of this account         *)
(* readable to the next person": from the moment of signing out until the    *)
(* next sign-in the page holds no expiry, user or draft, and once the        *)
(* sign-out has ended no session cookie.                                     *)
SignOutLeavesNothing == signedOut.since => Gone

(* The same when no password change, no forgotten renewal and no second      *)
(* sign-in was under way: a renewal the page knows of or a late answer       *)
(* brings nothing back, and neither does a call, unless the sign-out failed. *)
SignOutHolds == signedOut.since /\ ~signedOut.amid => Gone

SessionInvariant == TypeOK /\ SignOutHolds

(* A sign-out never takes away the cookie of a sign-in that came after it:   *)
(* it ends only while the page is signed out, or leaving everywhere.         *)
LoginSurvivesLogout ==
  [][jar # 0 /\ jar' = 0 => signedOut.since \/ signedOut.amid \/ settings = "leaving"]_vars

(* "A network or 5xx failure must not destroy a durable session": the page   *)
(* forgets a session only when the user signs out, when a 401 arrives, or    *)
(* within the last fifteen seconds; a failed renewal after a 401 counts as   *)
(* that 401.                                                                 *)
FailureKeepsSession ==
  [][expiry # 0 /\ expiry' = 0 =>
       \/ signedOut'.since \/ settings' = "leaving"
       \/ \E r \in net \ net' : r.answer = "401"
       \/ call.state = "renewing"
       \/ tokens[expiry].age >= 1]_vars

(* A session is lost to its own user only: by both of the above. *)
SessionSurvives == LoginSurvivesLogout /\ FailureKeepsSession

(* Nothing waits for ever: a sign-out waiting for a renewal reaches the      *)
(* server, also when the renewal fails; the session check ends; a sign-in    *)
(* waiting for that sign-out is sent; and an API call that waits for the     *)
(* same renewal comes to an end.                                             *)
WaitsEnd ==
  /\ leaving.state = "waiting" ~> leaving.state = "sent"
  /\ ui.checking ~> ~ui.checking
  /\ form.state \in {"waiting", "sent", "registering"} ~> form.state = "idle"
  /\ call # NoCall ~> call = NoCall

=============================================================================
