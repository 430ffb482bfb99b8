------------------------ MODULE BrowserSessionProofs ------------------------
(***************************************************************************)
(* Proofs about BrowserSession: its types, that a sign-out holds until the *)
(* next sign-in, and that a session is lost to its own user only when the  *)
(* code means it.  They hold for every set of accounts and every MaxSteps. *)
(*                                                                         *)
(* SessionInvariant is not inductive.  What keeps a late answer from       *)
(* bringing a session back lies in the requests under way: which of them   *)
(* the page still expects (Expected), that a sign-out waits for the only   *)
(* renewal that could set a cookie after it (LeavingOK), and that nothing  *)
(* else on its way carries a session (Quiet).                              *)
(***************************************************************************)
EXTENDS BrowserSession, FiniteSetTheorems, TLAPS

Sessions == [account : Accounts, age : 0..2, revoked : BOOLEAN]

Kinds == {"login", "register", "me", "refresh", "logout", "all", "change", "call"}

Messages == [id : Nat \ {0}, kind : Kinds, cookie : Nat, who : Accounts \cup {None},
             answer : {"none", "ok", "401", "error"}, token : Nat]

Cookies ==
  /\ tokens \in Seq(Sessions)
  /\ jar \in 0..Len(tokens) /\ expiry \in 0..Len(tokens)

(* A request of a browser whose server has issued n sessions. *)
Message(r, n) ==
  /\ r \in Messages /\ r.cookie <= n /\ r.token <= n
  /\ r.answer = "ok" /\ r.kind \in {"login", "refresh", "change"} => r.token # 0
  /\ r.answer = "ok" /\ r.kind = "me" => r.cookie # 0
  /\ r.kind = "login" => r.who \in Accounts

Net ==
  /\ IsFiniteSet(net)
  /\ \A r \in net : Message(r, Len(tokens))
  /\ \A r, q \in net : r.id = q.id => r = q

(* Whoever sent a request still waits for it. *)
Expected(r) ==
  /\ r.kind = "login" => form.state = "sent"
  /\ r.kind = "register" => form.state = "registering"
  /\ r.kind = "call" => call.state \in {"sent", "retried"}
  /\ r.kind = "all" => settings = "sent"
  /\ r.kind = "logout" => leaving.state = "sent"

Single == {"login", "register", "call", "all", "logout", "change"}

Requests ==
  /\ \A r \in net : Expected(r)
  /\ \A r, q \in net : r.kind = q.kind /\ r.kind \in Single => r = q
  /\ refreshing # 0 => \E r \in net : r.id = refreshing /\ r.kind = "refresh"

Waiters == [who : {"check", "success"}, for : Nat]

Hooks == [auth : BOOLEAN, checking : BOOLEAN, due : BOOLEAN, user : Accounts \cup {None},
          error : BOOLEAN, waiters : SUBSET Waiters]

Page ==
  /\ cached \in [request : Nat, user : Accounts \cup {None}] \cup {None}
  /\ refreshing \in Nat /\ drafts \in BOOLEAN
  /\ ui \in Hooks
  /\ ui.auth => ui.user # None

Forms ==
  /\ form \in [view : {"login", "register", "forgot-password"},
               state : {"idle", "waiting", "registering", "sent"}, who : Accounts \cup {None}]
  /\ form.state # "idle" => form.who \in Accounts
  /\ call \in [kind : {"none", "read", "write", "long"}, request : Nat,
               state : {"no", "ensuring", "sent", "renewing", "retried"}]
  /\ call.state = "no" <=> call = NoCall
  /\ settings \in {"no", "sent", "leaving"}
  /\ signedOut \in [since : BOOLEAN, amid : BOOLEAN, failed : BOOLEAN]
  /\ leaving \in [state : {"no", "waiting", "sent"}, for : Nat]

WaitingFor(id) == [state |-> "waiting", for |-> id]

(* A sign-out waits for the renewal the page knows of, and keeps the        *)
(* sign-in form from sending.                                               *)
LeavingOK ==
  /\ leaving.state = "waiting" => \E r \in net : r.kind = "refresh" /\ r.id = leaving.for
  /\ refreshing # 0 /\ leaving # Staying => leaving = WaitingFor(refreshing)
  /\ leaving # Staying /\ ~signedOut.amid /\ settings # "leaving" =>
       signedOut.since /\ form.state # "sent"

(* After a sign-out the page holds nothing, nothing on its way brings a     *)
(* session except the renewal the sign-out waits for, and the cookie is     *)
(* gone with the sign-out's answer.                                         *)
Harmless(r) ==
  /\ r.kind # "change"
  /\ r.kind = "refresh" => leaving = WaitingFor(r.id) \/ (r.cookie = 0 /\ r.answer # "ok")

Quiet ==
  signedOut.since /\ ~signedOut.amid =>
    /\ expiry = 0 /\ cached = None /\ ~drafts /\ ~ui.auth /\ ui.waiters = {}
    /\ \A r \in net : Harmless(r)
    /\ leaving = Staying => jar = 0 \/ (signedOut.failed /\ call = NoCall)

IInv == Cookies /\ Net /\ Requests /\ Page /\ Forms /\ LeavingOK /\ Quiet

-----------------------------------------------------------------------------
(* Requests *)

(* There is always an identifier no request under way has. *)
LEMMA FreeIdIsNew ==
  ASSUME Net
  PROVE  FreeId \in Nat \ {0} /\ \A r \in net : r.id # FreeId
<1> DEFINE n == Cardinality(net)
           ids == 1..(n + 1)
<1>1. IsFiniteSet(net) /\ n \in Nat
  BY FS_CardinalityType DEF Net
<1>2. IsFiniteSet(ids) /\ Cardinality(ids) = n + 1
  <2>1. n + 1 \in Int /\ ~(1 > n + 1) /\ (n + 1) - 1 + 1 = n + 1
    BY <1>1
  <2> QED BY <2>1, FS_Interval
<1>3. \E i \in ids : \A r \in net : r.id # i
  <2> SUFFICES ASSUME \A i \in ids : \E r \in net : r.id = i
               PROVE  FALSE
    OBVIOUS
  <2> DEFINE f == [i \in ids |-> CHOOSE r \in net : r.id = i]
  <2>1. \A i \in ids : f[i] \in net /\ f[i].id = i
    OBVIOUS
  <2>2. f \in [ids -> net]
    BY <2>1
  <2> HIDE DEF f
  <2>3. PICK x, y \in ids : x # y /\ f[x] = f[y]
    <3>1. Cardinality(net) < Cardinality(ids)
      BY <1>1, <1>2
    <3> HIDE DEF ids
    <3> QED BY <1>1, <1>2, <2>2, <3>1, FS_PigeonHole
  <2> QED BY <2>1, <2>3
<1>4. FreeId \in ids /\ \A r \in net : r.id # FreeId
  BY <1>3 DEF FreeId
<1> QED BY <1>1, <1>4

(* Issuing sessions leaves a request what it is. *)
LEMMA MessageKept ==
  ASSUME NEW r, NEW n \in Nat, NEW m \in Nat, n <= m, Message(r, n)
  PROVE  Message(r, m)
BY DEF Message, Messages

LEMMA NetShrinks ==
  ASSUME Cookies, Net, NEW r, UNCHANGED tokens, net' = net \ {r}
  PROVE  Net'
<1>1. IsFiniteSet(net \ {r})
  BY FS_Subset DEF Net
<1> QED BY <1>1 DEF Net

LEMMA NetGrows ==
  ASSUME Cookies, Net, UNCHANGED tokens,
         NEW kind \in Kinds, NEW who \in Accounts \cup {None}, kind = "login" => who \in Accounts,
         net' = Sending(kind, who)
  PROVE  Net'
<1> DEFINE q == Request(kind, who)
<1>1. q.id = FreeId /\ FreeId \in Nat \ {0} /\ \A r \in net : r.id # FreeId
  BY FreeIdIsNew DEF Request
<1>2. Message(q, Len(tokens))
  BY <1>1 DEF Message, Messages, Request, Cookies
<1> HIDE DEF q
<1>3. net' = (net \ {}) \cup {q}
  BY DEF Sending, q
<1>4. IsFiniteSet(net')
  BY <1>3, FS_AddElement DEF Net
<1> QED BY <1>1, <1>2, <1>3, <1>4 DEF Net

(* A request is replaced by its answer, or by one sent in its place. *)
LEMMA NetAnswers ==
  ASSUME Cookies, Net, Cookies', Len(tokens) <= Len(tokens'),
         NEW r \in net, NEW q, q.id = r.id, Message(q, Len(tokens')),
         net' = (net \ {r}) \cup {q}
  PROVE  Net'
<1>1. IsFiniteSet(net')
  BY FS_RemoveElement, FS_AddElement DEF Net
<1>2. Len(tokens) \in Nat /\ Len(tokens') \in Nat
  BY DEF Cookies
<1>3. \A s \in net' : Message(s, Len(tokens'))
  BY <1>2, MessageKept DEF Net
<1> QED BY <1>1, <1>3 DEF Net

(* What waited for a renewal goes on in its place. *)
LEMMA NetContinues ==
  ASSUME Cookies, Net, Cookies', UNCHANGED tokens,
         NEW r \in net, NEW sendCall \in BOOLEAN, Continue(r, sendCall)
  PROVE  Net'
<1> DEFINE c == [r EXCEPT !.kind = "call", !.cookie = jar', !.answer = "none", !.token = 0]
           l == [Request("logout", None) EXCEPT !.cookie = jar']
<1>1. c.id = r.id /\ l.id = FreeId /\ FreeId \in Nat \ {0} /\ \A q \in net : q.id # FreeId
  BY FreeIdIsNew DEF Request, Net, Message, Messages
<1>2. Message(c, Len(tokens')) /\ Message(l, Len(tokens'))
  <2>1. r \in Messages /\ jar' \in Nat /\ jar' <= Len(tokens') /\ Len(tokens') \in Nat
    BY DEF Net, Message, Cookies
  <2>2. l = [id |-> FreeId, kind |-> "logout", cookie |-> jar', who |-> None,
             answer |-> "none", token |-> 0]
    BY DEF Request
  <2>3. Message(l, Len(tokens'))
    BY <1>1, <2>1, <2>2 DEF Message, Messages, Kinds
  <2>4. c \in Messages /\ c.kind = "call" /\ c.cookie = jar' /\ c.answer = "none" /\ c.token = 0
    BY <2>1 DEF Messages, Kinds
  <2>5. Message(c, Len(tokens'))
    BY <2>1, <2>4 DEF Message
  <2> QED BY <2>3, <2>5
<1>3. net' \in SUBSET ((net \ {r}) \cup {c, l})
  BY DEF Continue
<1> HIDE DEF c, l
<1>4. IsFiniteSet(net')
  <2>1. IsFiniteSet((net \ {r}) \cup {c, l})
    <3>1. (net \ {r}) \cup {c, l} = ((net \ {r}) \cup {c}) \cup {l}
      OBVIOUS
    <3> QED BY <3>1, FS_RemoveElement, FS_AddElement DEF Net
  <2> QED BY <2>1, <1>3, FS_Subset
<1> QED BY <1>1, <1>2, <1>3, <1>4 DEF Net

(* The server or the connection answers a request: nobody has read it yet. *)
LEMMA Answering ==
  ASSUME IInv, Cookies', Len(tokens) <= Len(tokens'),
         NEW r \in net, NEW q, Message(q, Len(tokens')),
         q.id = r.id, q.kind = r.kind, q.cookie = r.cookie,
         q.kind = "refresh" /\ q.answer = "ok" => q.cookie # 0,
         net' = (net \ {r}) \cup {q},
         UNCHANGED <<jar, service, ui, form, call, settings, signedOut>>
  PROVE  IInv'
<1>1. Net'
  BY NetAnswers DEF IInv
<1>2. Requests'
  <2>1. \A s \in net' : Expected(s)'
    BY DEF IInv, Requests, Expected, service
  <2>2. \A s, t \in net' : s.kind = t.kind /\ s.kind \in Single => s = t
    BY DEF IInv, Requests
  <2>3. refreshing' # 0 => \E s \in net' : s.id = refreshing' /\ s.kind = "refresh"
    BY DEF IInv, Requests, service
  <2> QED BY <2>1, <2>2, <2>3 DEF Requests
<1>3. Page' /\ Forms'
  BY DEF IInv, Page, Forms, service, NoCall
<1>4. LeavingOK'
  BY DEF IInv, LeavingOK, service, Staying, WaitingFor
<1>5. Quiet'
  BY DEF IInv, Quiet, Harmless, service, Staying, WaitingFor, NoCall
<1> QED BY <1>1, <1>2, <1>3, <1>4, <1>5 DEF IInv

LEMMA RevokeKeeps ==
  ASSUME Cookies, NEW account
  PROVE  Revoke(account) \in Seq(Sessions) /\ Len(Revoke(account)) = Len(tokens)
<1> DEFINE R == Revoke(account)
<1>1. DOMAIN R = 1..Len(tokens) /\ \A t \in 1..Len(tokens) : R[t] \in Sessions
  <2>1. DOMAIN R = 1..Len(tokens)
    BY DEF Cookies, Revoke
  <2>2. ASSUME NEW t \in 1..Len(tokens)
        PROVE  R[t] \in Sessions
    <3>1. tokens[t] \in Sessions /\ t \in DOMAIN tokens
      BY DEF Cookies
    <3>2. R[t] \in {tokens[t], [tokens[t] EXCEPT !.revoked = TRUE]}
      BY <3>1 DEF Revoke
    <3>3. [tokens[t] EXCEPT !.revoked = TRUE] \in Sessions
      BY <3>1 DEF Sessions
    <3> QED BY <3>1, <3>2, <3>3
  <2> QED BY <2>1, <2>2
<1>2. R = [t \in 1..Len(tokens) |-> R[t]]
  BY <1>1 DEF Revoke, Cookies
<1> HIDE DEF R
<1>3. Len(tokens) \in Nat
  BY DEF Cookies
<1>4. R \in [1..Len(tokens) -> Sessions]
  BY <1>1, <1>2
<1>5. R \in Seq(Sessions) /\ Len(R) = Len(tokens)
  BY <1>3, <1>4
<1> QED BY <1>5 DEF R

(* A session is issued and answered with. *)
LEMMA Issuing ==
  ASSUME IInv, NEW r \in net, NEW given, NEW account \in Accounts,
         given \in Seq(Sessions), Len(given) = Len(tokens),
         r.kind # "me", r.kind = "refresh" => r.cookie # 0,
         AnsweredWith(r, given, account),
         UNCHANGED <<jar, service, ui, form, call, settings, signedOut>>
  PROVE  IInv'
<1> DEFINE q == [r EXCEPT !.answer = "ok", !.token = Len(given) + 1]
<1>1. Issued(account) \in Sessions
  BY DEF Issued, Sessions
<1>2. tokens' \in Seq(Sessions) /\ Len(tokens') = Len(tokens) + 1 /\ Len(tokens) \in Nat
  BY <1>1 DEF AnsweredWith, IInv, Cookies
<1>3. Cookies'
  BY <1>2 DEF IInv, Cookies, service
<1>4. r \in Messages /\ r.cookie <= Len(tokens) /\ (r.kind = "login" => r.who \in Accounts)
  BY DEF IInv, Net, Message
<1>5. q \in Messages /\ q.id = r.id /\ q.kind = r.kind /\ q.cookie = r.cookie
      /\ q.who = r.who /\ q.token = Len(tokens) + 1
  <2>1. Len(given) + 1 \in Nat
    BY <1>2
  <2> QED BY <1>4, <2>1 DEF Messages
<1>6. net' = (net \ {r}) \cup {q}
  BY DEF AnsweredWith
<1> HIDE DEF q
<1>7. Message(q, Len(tokens'))
  <2>1. r.cookie \in Nat
    BY <1>4 DEF Messages
  <2> QED BY <1>2, <1>4, <1>5, <2>1 DEF Message
<1>8. Len(tokens) <= Len(tokens')
  BY <1>2
<1>9. q.kind = "refresh" /\ q.answer = "ok" => q.cookie # 0
  BY <1>5
<1> QED BY <1>3, <1>5, <1>6, <1>7, <1>8, <1>9, Answering

LEMMA Replying ==
  ASSUME IInv, NEW r \in net, NEW answer \in {"ok", "401", "error"},
         answer = "ok" => r.kind \notin {"login", "refresh", "change"} /\ (r.kind = "me" => r.cookie # 0),
         Answered(r, answer), tokens' \in Seq(Sessions), Len(tokens') = Len(tokens),
         UNCHANGED <<jar, service, ui, form, call, settings, signedOut>>
  PROVE  IInv'
<1> DEFINE q == [r EXCEPT !.answer = answer]
<1>1. Cookies' /\ Len(tokens) <= Len(tokens')
  BY DEF IInv, Cookies, service
<1>2. Message(q, Len(tokens'))
  BY DEF IInv, Net, Message, Messages
<1>3. q.id = r.id /\ q.kind = r.kind /\ q.cookie = r.cookie /\ q.answer = answer
  BY DEF IInv, Net, Message, Messages
<1>4. net' = (net \ {r}) \cup {q}
  BY DEF Answered
<1> HIDE DEF q
<1> QED BY <1>1, <1>2, <1>3, <1>4, Answering

LEMMA Serving ==
  ASSUME IInv, NEW r \in net, Serve(r)
  PROVE  IInv'
<1>1. r.kind \in Kinds /\ tokens \in Seq(Sessions) /\ r.cookie \in 0..Len(tokens)
  BY DEF IInv, Net, Message, Messages, Cookies
<1>2. ASSUME Valid(r.cookie)
      PROVE  r.cookie # 0 /\ tokens[r.cookie].account \in Accounts
  <2>1. r.cookie # 0
    BY <1>2 DEF Valid
  <2>2. tokens[r.cookie] \in Sessions
    BY <1>1, <2>1
  <2> QED BY <2>1, <2>2 DEF Sessions
<1>3. \A account : Revoke(account) \in Seq(Sessions) /\ Len(Revoke(account)) = Len(tokens)
  BY RevokeKeeps DEF IInv
<1>4. UNCHANGED <<jar, service, ui, form, call, settings, signedOut>>
  BY DEF Serve
<1>5. CASE r.kind = "login"
  <2>1. AnsweredWith(r, tokens, r.who) /\ r.who \in Accounts
    BY <1>5 DEF Serve, IInv, Net, Message
  <2> QED BY <1>1, <1>4, <1>5, <2>1, Issuing
<1>6. CASE r.kind = "refresh" /\ Valid(r.cookie)
  <2>1. CASE AnsweredWith(r, tokens, tokens[r.cookie].account)
    BY <1>1, <1>2, <1>4, <1>6, <2>1, Issuing
  <2>2. CASE Answered(r, "401") /\ UNCHANGED tokens
    BY <1>1, <1>4, <2>2, Replying
  <2> QED BY <1>6, <2>1, <2>2 DEF Serve
<1>7. CASE r.kind = "change" /\ Valid(r.cookie)
  <2>1. AnsweredWith(r, Revoke(tokens[r.cookie].account), tokens[r.cookie].account)
    BY <1>7 DEF Serve
  <2> QED BY <1>2, <1>3, <1>4, <1>7, <2>1, Issuing
<1>8. CASE r.kind = "all" /\ Valid(r.cookie)
  <2>1. Answered(r, "ok") /\ tokens' = Revoke(tokens[r.cookie].account)
    BY <1>8 DEF Serve
  <2> QED BY <1>3, <1>4, <1>8, <2>1, Replying
<1>9. CASE r.kind \in {"logout", "register"} \/ (r.kind \in {"me", "call"} /\ Valid(r.cookie))
  <2>1. Answered(r, "ok") /\ UNCHANGED tokens
    BY <1>9 DEF Serve
  <2> QED BY <1>1, <1>2, <1>4, <1>9, <2>1, Replying
<1>10. CASE r.kind \in {"refresh", "change", "all", "me", "call"} /\ ~Valid(r.cookie)
  <2>1. Answered(r, "401") /\ UNCHANGED tokens
    BY <1>10 DEF Serve
  <2> QED BY <1>1, <1>4, <2>1, Replying
<1> QED BY <1>1, <1>5, <1>6, <1>7, <1>8, <1>9, <1>10 DEF Kinds

(* Time passes, or another device revokes. *)
LEMMA SessionsChange ==
  ASSUME IInv, tokens' \in Seq(Sessions), Len(tokens') = Len(tokens),
         UNCHANGED <<jar, net, service, ui, form, call, settings, signedOut>>
  PROVE  IInv'
<1>1. Cookies' /\ Net'
  BY DEF IInv, Cookies, Net, service
<1>2. Requests' /\ LeavingOK' /\ Quiet'
  BY DEF IInv, Requests, Expected, LeavingOK, Quiet, Harmless, service, NoCall, Staying, WaitingFor
<1>3. Page' /\ Forms'
  BY DEF IInv, Page, Forms, service, NoCall
<1> QED BY <1>1, <1>2, <1>3 DEF IInv

LEMMA Outside ==
  ASSUME IInv, Environment
  PROVE  IInv'
<1>1. ASSUME NEW r \in net, Lose(r)
      PROVE  IInv'
  <2>1. tokens' \in Seq(Sessions) /\ Len(tokens') = Len(tokens)
    BY <1>1 DEF Lose, IInv, Cookies
  <2> QED BY <1>1, <2>1, Replying DEF Lose
<1>2. ASSUME NEW t \in DOMAIN tokens, Age(t)
      PROVE  IInv'
  <2>1. t \in 1..Len(tokens) /\ tokens \in Seq(Sessions) /\ tokens[t] \in Sessions
    BY DEF IInv, Cookies
  <2>2. [tokens[t] EXCEPT !.age = @ + 1] \in Sessions
    BY <1>2, <2>1 DEF Age, Sessions
  <2>3. tokens' = [tokens EXCEPT ![t] = [tokens[t] EXCEPT !.age = @ + 1]]
    BY <1>2 DEF Age
  <2>4. tokens' \in Seq(Sessions) /\ Len(tokens') = Len(tokens)
    BY <2>1, <2>2, <2>3
  <2> QED BY <1>2, <2>4, SessionsChange DEF Age
<1>3. ASSUME NEW account \in Accounts, RevokedElsewhere(account)
      PROVE  IInv'
  <2>1. tokens' \in Seq(Sessions) /\ Len(tokens') = Len(tokens)
    BY <1>3, RevokeKeeps DEF RevokedElsewhere, IInv
  <2> QED BY <1>3, <2>1, SessionsChange DEF RevokedElsewhere
<1> QED BY <1>1, <1>2, <1>3 DEF Environment

-----------------------------------------------------------------------------
(* Who the page believes is signed in *)

LEMMA WaitingIsTyped ==
  ASSUME NEW u \in Hooks, NEW who \in {"check", "success"}, NEW request \in Nat
  PROVE  /\ Waiting(u, who, request) \in Hooks
         /\ Waiting(u, who, request).auth = u.auth
         /\ Waiting(u, who, request).user = u.user
<1>1. [who |-> who, for |-> request] \in Waiters
  BY DEF Waiters
<1>2. u.waiters \cup {[who |-> who, for |-> request]} \in SUBSET Waiters
  BY <1>1 DEF Hooks
<1> QED BY <1>2 DEF Hooks, Waiting

LEMMA ResumeIsTyped ==
  ASSUME NEW u \in Hooks, NEW r
  PROVE  /\ Resume(u, r) \in Hooks
         /\ Resume(u, r).auth = u.auth /\ Resume(u, r).user = u.user
         /\ u.waiters = {} => Resume(u, r).waiters = {}
<1>1. u.waiters \ Resumed(u, r) \in SUBSET Waiters
  BY DEF Hooks
<1> QED BY <1>1 DEF Hooks, Resume

LEMMA CheckAuthKeeps ==
  ASSUME IInv, CheckAuth
  PROVE  IInv'
<1>1. UNCHANGED <<tokens, jar, expiry, drafts, refreshing, leaving, form, call, settings, signedOut>>
  BY DEF CheckAuth
<1>2. Cookies' /\ Forms'
  BY <1>1 DEF IInv, Cookies, Forms, NoCall
<1>3. (net' = net) \/ (net' = Sending("me", None) /\ expiry # 0)
  BY DEF CheckAuth, GetCurrentUser, IsAuthenticated
<1>4. Net'
  <2>1. CASE net' = net
    BY <1>1, <2>1 DEF IInv, Net
  <2>2. CASE net' = Sending("me", None)
    BY <1>1, <2>2, NetGrows DEF IInv, Kinds
  <2> QED BY <1>3, <2>1, <2>2
<1>5. Requests' /\ LeavingOK'
  <2>1. \A r \in net' : r \in net \/ r.kind = "me"
    BY <1>3 DEF Sending, Request
  <2>2. net \subseteq net'
    BY <1>3 DEF Sending
  <2>3. Requests'
    BY <1>1, <2>1, <2>2 DEF IInv, Requests, Expected, Single
  <2>4. LeavingOK'
    BY <1>1, <2>2 DEF IInv, LeavingOK, Staying, WaitingFor
  <2> QED BY <2>3, <2>4
<1>6. Page'
  <2>1. FreeId \in Nat
    BY FreeIdIsNew DEF IInv
  <2> DEFINE u == [ui EXCEPT !.due = FALSE]
  <2>2. u \in Hooks /\ u.auth = ui.auth /\ u.user = ui.user
    BY DEF IInv, Page, Hooks
  <2>3. CASE IsAuthenticated /\ cached = None
    <3>1. ui' = Waiting(u, "check", FreeId) /\ cached' = [request |-> FreeId, user |-> None]
      BY <2>3 DEF CheckAuth, GetCurrentUser
    <3> HIDE DEF u
    <3> QED BY <1>1, <2>1, <2>2, <3>1, WaitingIsTyped DEF IInv, Page
  <2>4. CASE IsAuthenticated /\ cached # None
    <3>1. cached' = cached /\ cached.request \in Nat /\ cached.user \in Accounts \cup {None}
      BY <2>4 DEF CheckAuth, GetCurrentUser, IInv, Page
    <3>2. ui' = IF cached.user = None THEN Waiting(u, "check", cached.request)
                ELSE SignedIn(u, cached.user)
      BY <2>4 DEF CheckAuth, GetCurrentUser
    <3> HIDE DEF u
    <3>3. CASE cached.user = None
      BY <1>1, <2>2, <3>1, <3>2, <3>3, WaitingIsTyped DEF IInv, Page
    <3>4. CASE cached.user # None
      BY <1>1, <2>2, <3>1, <3>2, <3>4 DEF IInv, Page, Hooks, SignedIn
    <3> QED BY <3>3, <3>4
  <2>5. CASE ~IsAuthenticated
    <3>1. ui' = [u EXCEPT !.auth = FALSE, !.checking = FALSE] /\ cached' = cached
      BY <2>5 DEF CheckAuth
    <3> HIDE DEF u
    <3> QED BY <1>1, <2>2, <3>1 DEF IInv, Page, Hooks
  <2> QED BY <2>3, <2>4, <2>5
<1>7. Quiet'
  <2> SUFFICES ASSUME signedOut.since /\ ~signedOut.amid
               PROVE  Quiet'
    BY <1>1 DEF Quiet
  <2>1. expiry = 0 /\ cached = None /\ ~drafts /\ ui.waiters = {} /\ net' = net
    BY <1>3 DEF IInv, Quiet
  <2>2. cached' = None /\ ~ui'.auth /\ ui'.waiters = {}
    BY <2>1 DEF CheckAuth, IsAuthenticated, IInv, Page, Hooks
  <2> QED BY <1>1, <2>1, <2>2 DEF IInv, Quiet, Harmless, NoCall, Staying, WaitingFor
<1> QED BY <1>2, <1>4, <1>5, <1>6, <1>7 DEF IInv

(* An answer that no sign-out waits for is read, and perhaps a renewal      *)
(* forgotten.                                                               *)
LEMMA Reading ==
  ASSUME IInv, NEW r, r \in net => r.kind # "refresh", net' = net \ {r},
         refreshing' \in {0, refreshing},
         UNCHANGED <<leaving, form, call, settings, signedOut>>
  PROVE  Requests' /\ LeavingOK'
<1>1. Requests'
  BY DEF IInv, Requests, Expected, Single
<1>2. LeavingOK'
  BY DEF IInv, LeavingOK, Staying, WaitingFor
<1> QED BY <1>1, <1>2

(* The page forgets, and sends nothing. *)
LEMMA StaysQuiet ==
  ASSUME IInv, net' \subseteq net, UNCHANGED <<jar, leaving, call, signedOut>>,
         signedOut.since /\ ~signedOut.amid =>
           expiry' = 0 /\ cached' = None /\ ~drafts' /\ ~ui'.auth /\ ui'.waiters = {}
  PROVE  Quiet'
BY DEF IInv, Quiet, Harmless, Staying, WaitingFor, NoCall

LEMMA RetryCheckKeeps ==
  ASSUME IInv, RetryCheck
  PROVE  IInv'
<1>1. UNCHANGED <<tokens, jar, net, service, form, call, settings, signedOut>>
      /\ ui' = [ui EXCEPT !.checking = TRUE, !.error = FALSE, !.due = TRUE]
  BY DEF RetryCheck
<1>2. ui' \in Hooks /\ ui'.auth = ui.auth /\ ui'.user = ui.user /\ ui'.waiters = ui.waiters
  BY <1>1 DEF IInv, Page, Hooks
<1>3. Cookies' /\ Net' /\ Forms'
  BY <1>1 DEF IInv, Cookies, Net, Forms, NoCall, service
<1>4. Requests' /\ LeavingOK' /\ Quiet'
  BY <1>1, <1>2 DEF IInv, Requests, Expected, LeavingOK, Quiet, Harmless, NoCall, Staying, WaitingFor, service
<1>5. Page'
  BY <1>1, <1>2 DEF IInv, Page, service
<1> QED BY <1>3, <1>4, <1>5 DEF IInv

LEMMA ReadUserKeeps ==
  ASSUME IInv, ReadUser
  PROVE  IInv'
<1>1. UNCHANGED <<tokens, jar, expiry, drafts, refreshing, leaving, ui, form, call, settings, signedOut>>
      /\ net' = Sending("me", None) /\ cached' = [request |-> FreeId, user |-> None] /\ ui.auth
  BY DEF ReadUser
<1>2. Cookies' /\ Net'
  BY <1>1, NetGrows DEF IInv, Cookies, Kinds
<1>3. Page' /\ Forms'
  BY <1>1, FreeIdIsNew DEF IInv, Page, Forms, NoCall
<1>4. Requests' /\ LeavingOK'
  BY <1>1 DEF IInv, Requests, Expected, Single, LeavingOK, Staying, WaitingFor, Sending, Request
<1>5. Quiet'
  BY <1>1 DEF IInv, Quiet
<1> QED BY <1>2, <1>3, <1>4, <1>5 DEF IInv

LEMMA MeAnswerKeeps ==
  ASSUME IInv, NEW r \in net, MeAnswer(r)
  PROVE  IInv'
<1> DEFINE user == tokens[r.cookie].account
<1>1. UNCHANGED <<tokens, jar, expiry, drafts, refreshing, leaving, form, call, settings, signedOut>>
      /\ r.kind = "me" /\ net' = net \ {r}
  BY DEF MeAnswer
<1>2. user \in Accounts /\ user # None
  <2>1. r.cookie \in 1..Len(tokens)
    BY DEF MeAnswer, IInv, Net, Message, Messages, Cookies
  <2>2. tokens[r.cookie] \in Sessions
    BY <2>1 DEF IInv, Cookies
  <2> QED BY <2>2, NoneAssumption DEF Sessions
<1>3. cached' = (IF cached # None /\ cached.request = r.id THEN [request |-> 0, user |-> user] ELSE cached)
      /\ ui' = (IF Resumed(ui, r) = {} THEN ui ELSE SignedIn(Resume(ui, r), user))
  BY DEF MeAnswer
<1> HIDE DEF user
<1>4. ui' \in Hooks /\ (ui'.auth => ui'.user # None)
  <2>1. CASE Resumed(ui, r) = {}
    BY <1>3, <2>1 DEF IInv, Page
  <2>2. CASE Resumed(ui, r) # {}
    <3>1. Resume(ui, r) \in Hooks
      BY ResumeIsTyped DEF IInv, Page
    <3> QED BY <1>2, <1>3, <2>2, <3>1 DEF SignedIn, Hooks
  <2> QED BY <2>1, <2>2
<1>5. Cookies' /\ Net' /\ Forms'
  BY <1>1, NetShrinks DEF IInv, Cookies, Forms, NoCall
<1>6. Page'
  BY <1>1, <1>2, <1>3, <1>4 DEF IInv, Page
<1>7. Requests' /\ LeavingOK'
  BY <1>1, Reading
<1>8. Quiet'
  <2>1. ASSUME signedOut.since, ~signedOut.amid
        PROVE  expiry' = 0 /\ cached' = None /\ ~drafts' /\ ~ui'.auth /\ ui'.waiters = {}
    <3>1. cached = None /\ ui.waiters = {}
      BY <2>1 DEF IInv, Quiet
    <3>2. cached' = None /\ ui' = ui
      BY <1>3, <3>1 DEF Resumed
    <3> QED BY <1>1, <2>1, <3>2 DEF IInv, Quiet
  <2> QED BY <1>1, <2>1, StaysQuiet
<1> QED BY <1>5, <1>6, <1>7, <1>8 DEF IInv

LEMMA HandleExpiredIsTyped ==
  ASSUME NEW u \in Hooks
  PROVE  HandleExpired(u) \in Hooks /\ ~HandleExpired(u).auth /\ HandleExpired(u).waiters = u.waiters
BY DEF HandleExpired, Hooks

LEMMA MeFailsKeeps ==
  ASSUME IInv, NEW r \in net, MeFails(r)
  PROVE  IInv'
<1> DEFINE waited == Resumed(ui, r)
           u == Resume(ui, r)
<1>1. UNCHANGED <<tokens, jar, leaving, form, call, settings, signedOut, drafts>>
      /\ r.kind = "me" /\ net' = net \ {r} /\ refreshing' \in {0, refreshing} /\ expiry' \in {0, expiry}
  BY DEF MeFails, RemoveToken
<1>2. u \in Hooks /\ u.auth = ui.auth /\ u.user = ui.user /\ (ui.waiters = {} => u.waiters = {})
  BY ResumeIsTyped DEF IInv, Page
<1>3. cached' \in {None, cached}
  BY DEF MeFails, RemoveToken
<1>4. ui' = HandleExpired(u) \/ ui' = Unverified(u, waited, \E w \in waited : w.who = "check")
  BY DEF MeFails
<1> HIDE DEF u, waited
<1>5. ui' \in Hooks /\ (ui'.auth => ui.auth) /\ (ui'.auth => ui'.user # None)
      /\ (ui.waiters = {} => ui'.waiters = {})
  <2>1. CASE ui' = HandleExpired(u)
    BY <1>2, <2>1, HandleExpiredIsTyped
  <2>2. CASE ui' = Unverified(u, waited, \E w \in waited : w.who = "check")
    <3>1. ui'.user = u.user /\ ui'.waiters = u.waiters /\ (ui'.auth => u.auth)
      BY <1>2, <2>2 DEF Unverified, Hooks
    <3>2. ui' \in Hooks
      BY <1>2, <2>2 DEF Unverified, Hooks
    <3> QED BY <1>2, <3>1, <3>2 DEF IInv, Page
  <2> QED BY <1>4, <2>1, <2>2
<1>6. Cookies' /\ Net' /\ Forms'
  <2>1. Cookies'
    BY <1>1 DEF IInv, Cookies
  <2>2. Net'
    BY <1>1, NetShrinks DEF IInv
  <2>3. Forms'
    BY <1>1 DEF IInv, Forms, NoCall
  <2> QED BY <2>1, <2>2, <2>3
<1>7. Page'
  BY <1>1, <1>3, <1>5 DEF IInv, Page
<1>8. Requests' /\ LeavingOK'
  BY <1>1, Reading
<1>9. Quiet'
  BY <1>1, <1>3, <1>5, StaysQuiet DEF IInv, Quiet
<1> QED BY <1>6, <1>7, <1>8, <1>9 DEF IInv

(* A request is sent whose sender expects it, and no other of its kind.     *)
LEMMA Sends ==
  ASSUME Requests, NEW kind, NEW who, net' = Sending(kind, who),
         \A r \in net : Expected(r)',
         \A q : q.kind = kind => Expected(q)',
         kind \in Single => \A r \in net : r.kind # kind,
         refreshing' = refreshing \/ (kind = "refresh" /\ refreshing' = FreeId)
  PROVE  Requests'
<1>1. PICK q : q = Request(kind, who)
  OBVIOUS
<1>2. q.kind = kind /\ q.id = FreeId /\ net' = net \cup {q} /\ Expected(q)'
  BY <1>1 DEF Request, Sending
<1>3. \A r, s \in net' : r.kind = s.kind /\ r.kind \in Single => r = s
  BY <1>2 DEF Requests
<1>4. refreshing' # 0 => \E r \in net' : r.id = refreshing' /\ r.kind = "refresh"
  <2>1. CASE refreshing' = refreshing
    BY <1>2, <2>1 DEF Requests
  <2>2. CASE kind = "refresh" /\ refreshing' = FreeId
    BY <1>2, <2>2
  <2> QED BY <2>1, <2>2
<1>5. \A r \in net' : Expected(r)'
  BY <1>2
<1> QED BY <1>3, <1>4, <1>5 DEF Requests

LEMMA RenewKeeps ==
  ASSUME IInv, Renew
  PROVE  IInv'
<1>1. UNCHANGED <<tokens, jar, expiry, drafts, cached, leaving, ui, form, call, settings, signedOut>>
      /\ net' = Sending("refresh", None) /\ refreshing' = FreeId /\ leaving = Staying /\ ui.auth
  BY DEF Renew
<1>2. Cookies' /\ Net'
  BY <1>1, NetGrows DEF IInv, Cookies, Kinds
<1>3. Page' /\ Forms'
  BY <1>1, FreeIdIsNew DEF IInv, Page, Forms, NoCall
<1>4. Requests' /\ LeavingOK'
  <2>1. \A r \in net : Expected(r)'
    BY <1>1 DEF IInv, Requests, Expected
  <2>2. Requests'
    BY <1>1, <2>1, Sends DEF IInv, Expected, Single
  <2>3. LeavingOK'
    BY <1>1 DEF IInv, LeavingOK, Staying
  <2> QED BY <2>2, <2>3
<1>5. Quiet'
  BY <1>1 DEF IInv, Quiet
<1> QED BY <1>2, <1>3, <1>4, <1>5 DEF IInv

LEMMA UpdateWarningKeeps ==
  ASSUME IInv, UpdateWarning
  PROVE  IInv'
<1>1. UNCHANGED <<tokens, jar, net, leaving, form, call, settings, signedOut>>
      /\ cached' = None /\ refreshing' = 0 /\ expiry' = 0 /\ drafts' = drafts
      /\ ui' = HandleExpired(ui) /\ ui.auth
  BY DEF UpdateWarning, RemoveToken
<1>2. ui' \in Hooks /\ ~ui'.auth
  BY <1>1, HandleExpiredIsTyped DEF IInv, Page
<1>3. Cookies' /\ Net' /\ Forms'
  BY <1>1 DEF IInv, Cookies, Net, Forms, NoCall
<1>4. Page'
  BY <1>1, <1>2 DEF IInv, Page
<1>5. Requests' /\ LeavingOK' /\ Quiet'
  BY <1>1 DEF IInv, Requests, Expected, LeavingOK, Quiet, Staying, WaitingFor
<1> QED BY <1>3, <1>4, <1>5 DEF IInv

LEMMA RevalidateKeeps ==
  ASSUME IInv, Revalidate
  PROVE  IInv'
<1>1. UNCHANGED <<tokens, jar, net, service, form, call, settings, signedOut>>
      /\ ui' = [ui EXCEPT !.auth = FALSE, !.user = None] /\ ui.auth
  BY DEF Revalidate
<1>2. Cookies' /\ Net' /\ Forms'
  BY <1>1 DEF IInv, Cookies, Net, Forms, NoCall, service
<1>4. Page'
  BY <1>1 DEF IInv, Page, Hooks, service
<1>3. Requests' /\ LeavingOK' /\ Quiet'
  BY <1>1 DEF IInv, Requests, Expected, LeavingOK, Quiet, Staying, WaitingFor, service
<1> QED BY <1>2, <1>3, <1>4 DEF IInv

LEMMA KeepDraftKeeps ==
  ASSUME IInv, KeepDraft
  PROVE  IInv'
<1>1. UNCHANGED <<tokens, jar, net, expiry, cached, refreshing, leaving, ui, form, call, settings, signedOut>>
      /\ drafts' = TRUE /\ ui.auth
  BY DEF KeepDraft
<1>2. Cookies' /\ Net' /\ Forms' /\ Page'
  BY <1>1 DEF IInv, Cookies, Net, Forms, Page, NoCall
<1>3. Requests' /\ LeavingOK' /\ Quiet'
  BY <1>1 DEF IInv, Requests, Expected, LeavingOK, Quiet, Staying, WaitingFor
<1> QED BY <1>2, <1>3 DEF IInv

-----------------------------------------------------------------------------
(* Signing out *)

(* However the cookies are cleared, a sign-out is then under way: behind    *)
(* the renewal the page knows of, if there is one.                          *)
LEMMA Clearing ==
  ASSUME IInv, NEW requests \in SUBSET net, \A q \in net : q.kind = "refresh" => q \in requests,
         ClearCookies(requests), UNCHANGED <<tokens, jar, refreshing>>
  PROVE  /\ Net' /\ requests \subseteq net'
         /\ \A q \in net' : q \in requests \/ (q.kind = "logout" /\ leaving'.state = "sent")
         /\ \A q, s \in net' : q.kind = "logout" /\ s.kind = "logout" => q = s
         /\ leaving' \in [state : {"no", "waiting", "sent"}, for : Nat] /\ leaving' # Staying
         /\ leaving'.state = "waiting" => \E q \in net' : q.kind = "refresh" /\ q.id = leaving'.for
         /\ refreshing # 0 => leaving' = WaitingFor(refreshing)
         /\ leaving # Staying => leaving' = leaving
<1>1. IsFiniteSet(requests) /\ (\A q \in requests : Message(q, Len(tokens)))
      /\ (\A q, s \in requests : q.id = s.id => q = s)
  BY FS_Subset DEF IInv, Net
<1>2. CASE leaving # Staying
  <2>1. leaving' = leaving /\ net' = requests
    BY <1>2 DEF ClearCookies
  <2>2. Net'
    BY <1>1, <2>1 DEF Net
  <2>3. leaving.state = "waiting" => \E q \in requests : q.kind = "refresh" /\ q.id = leaving.for
    BY DEF IInv, LeavingOK
  <2>4. \A q, s \in net : q.kind = "logout" /\ s.kind = "logout" => q = s
    BY DEF IInv, Requests, Single
  <2>5. refreshing # 0 => leaving = WaitingFor(refreshing)
    BY <1>2 DEF IInv, LeavingOK
  <2>6. leaving \in [state : {"no", "waiting", "sent"}, for : Nat]
    BY DEF IInv, Forms
  <2> QED BY <1>2, <2>1, <2>2, <2>3, <2>4, <2>5, <2>6
<1>3. CASE leaving = Staying /\ refreshing = 0
  <2>1. PICK l : l = Request("logout", None)
    OBVIOUS
  <2>2. l.kind = "logout" /\ l.id = FreeId /\ net' = requests \cup {l}
        /\ leaving' = [state |-> "sent", for |-> 0]
    BY <1>3, <2>1 DEF ClearCookies, Leave, Request
  <2>3. FreeId \in Nat \ {0} /\ \A q \in net : q.id # FreeId
    BY FreeIdIsNew DEF IInv
  <2>4. Message(l, Len(tokens))
    BY <2>1, <2>3 DEF Request, Message, Messages, Kinds, IInv, Cookies
  <2>5. Net'
    <3>1. IsFiniteSet(net')
      BY <1>1, <2>2, FS_AddElement
    <3> QED BY <1>1, <2>2, <2>3, <2>4, <3>1 DEF Net
  <2>6. \A q \in net : q.kind # "logout"
    BY <1>3 DEF IInv, Requests, Expected, Staying
  <2> QED BY <1>3, <2>2, <2>5, <2>6 DEF Staying
<1>4. CASE leaving = Staying /\ refreshing # 0
  <2>1. leaving' = [state |-> "waiting", for |-> refreshing] /\ net' = requests
    BY <1>4 DEF ClearCookies
  <2>2. Net'
    BY <1>1, <2>1 DEF Net
  <2>3. \E q \in requests : q.id = refreshing /\ q.kind = "refresh"
    BY <1>4 DEF IInv, Requests
  <2>4. \A q \in net : q.kind # "logout"
    BY <1>4 DEF IInv, Requests, Expected, Staying
  <2>5. refreshing \in Nat
    BY DEF IInv, Page
  <2> QED BY <1>4, <2>1, <2>2, <2>3, <2>4, <2>5 DEF Staying, WaitingFor
<1> QED BY <1>2, <1>3, <1>4

(* What a sign-out by the user leaves under way. *)
LEMMA NothingElseUnderWay ==
  ASSUME IInv, ~SigningOut.amid
  PROVE  /\ ui.waiters = {} /\ form.state = "idle"
         /\ \A r \in net : r.kind # "change" /\ (r.kind = "refresh" => r.id = refreshing)
<1>1. Unfinished("change") = {} /\ Orphans = {} /\ ui.waiters = {} /\ form.state = "idle"
  BY DEF SigningOut
<1>2. \A r \in net : r.kind # "change"
  BY <1>1 DEF Unfinished
<1>3. \A r \in net : r.kind = "refresh" => r.id = refreshing
  BY <1>1 DEF Unfinished, Orphans
<1> QED BY <1>1, <1>2, <1>3

LEMMA SigningOutIsTyped ==
  ASSUME IInv
  PROVE  /\ SigningOut \in [since : BOOLEAN, amid : BOOLEAN, failed : BOOLEAN]
         /\ SigningOut.since /\ SigningOut.failed = signedOut.failed
<1>1. signedOut.failed \in BOOLEAN
  BY DEF IInv, Forms
<1>2. (Unfinished("change") \cup Orphans \cup ui.waiters # {} \/ form.state # "idle") \in BOOLEAN
  OBVIOUS
<1> QED BY <1>1, <1>2 DEF SigningOut

LEMMA LogoutKeeps ==
  ASSUME IInv, Logout
  PROVE  IInv'
<1>1. UNCHANGED <<tokens, jar, refreshing, form, call, settings>> /\ ClearCookies(net)
      /\ cached' = None /\ expiry' = 0 /\ drafts' = FALSE
      /\ ui' = LeaveApp(ui) /\ signedOut' = SigningOut
  BY DEF Logout, ForgetLocally
<1>2. /\ Net' /\ net \subseteq net'
      /\ \A q \in net' : q \in net \/ (q.kind = "logout" /\ leaving'.state = "sent")
      /\ \A q, s \in net' : q.kind = "logout" /\ s.kind = "logout" => q = s
      /\ leaving' \in [state : {"no", "waiting", "sent"}, for : Nat] /\ leaving' # Staying
      /\ leaving'.state = "waiting" => \E q \in net' : q.kind = "refresh" /\ q.id = leaving'.for
      /\ refreshing # 0 => leaving' = WaitingFor(refreshing)
      /\ leaving # Staying => leaving' = leaving
  BY <1>1, Clearing
<1>3. ui' \in Hooks /\ ~ui'.auth /\ ui'.waiters = ui.waiters
  BY <1>1 DEF IInv, Page, Hooks, LeaveApp
<1>4. Cookies' /\ Page'
  <2>1. Len(tokens) \in Nat
    BY DEF IInv, Cookies
  <2>2. Cookies'
    BY <1>1, <2>1 DEF IInv, Cookies
  <2>3. Page'
    BY <1>1, <1>3 DEF IInv, Page
  <2> QED BY <2>2, <2>3
<1>5. Forms'
  BY <1>1, <1>2, SigningOutIsTyped DEF IInv, Forms, NoCall
<1>6. Requests'
  <2>1. \A q \in net' : Expected(q)'
    BY <1>1, <1>2 DEF IInv, Requests, Expected, Staying
  <2>2. \A q, s \in net' : q.kind = s.kind /\ q.kind \in Single => q = s
    BY <1>2 DEF IInv, Requests
  <2>3. refreshing' # 0 => \E q \in net' : q.id = refreshing' /\ q.kind = "refresh"
    BY <1>1, <1>2 DEF IInv, Requests
  <2> QED BY <2>1, <2>2, <2>3 DEF Requests
<1>7. LeavingOK'
  <2>1. ~signedOut'.amid => signedOut'.since /\ form'.state # "sent"
    BY <1>1, NothingElseUnderWay, SigningOutIsTyped
  <2> QED BY <1>1, <1>2, <2>1 DEF LeavingOK
<1>8. Quiet'
  <2> SUFFICES ASSUME ~signedOut'.amid
               PROVE  Quiet'
    BY DEF Quiet
  <2>1. ui.waiters = {} /\ \A r \in net : r.kind # "change" /\ (r.kind = "refresh" => r.id = refreshing)
    BY <1>1, NothingElseUnderWay
  <2>2. \A r \in net : r.kind = "refresh" => r.id # 0
    BY DEF IInv, Net, Message, Messages
  <2>3. \A r \in net' : Harmless(r)'
    BY <1>2, <2>1, <2>2 DEF Harmless, WaitingFor
  <2> QED BY <1>1, <1>2, <1>3, <2>1, <2>3 DEF Quiet, Staying
<1> QED BY <1>2, <1>4, <1>5, <1>6, <1>7, <1>8 DEF IInv

LEMMA LogoutEverywhereKeeps ==
  ASSUME IInv, LogoutEverywhere
  PROVE  IInv'
<1>1. UNCHANGED <<tokens, jar, service, ui, form, call, signedOut>>
      /\ ui.auth /\ settings = "no" /\ settings' = "sent" /\ net' = Sending("all", None)
  BY DEF LogoutEverywhere
<1>2. Cookies' /\ Page' /\ Forms'
  BY <1>1 DEF IInv, Cookies, Page, Forms, NoCall, service
<1>3. Net'
  BY <1>1, NetGrows DEF IInv, Kinds
<1>4. Requests'
  <2>1. \A r \in net : r.kind # "all" /\ Expected(r)'
    BY <1>1 DEF IInv, Requests, Expected, service
  <2>2. \A q : q.kind = "all" => Expected(q)'
    BY <1>1 DEF Expected
  <2> QED BY <1>1, <2>1, <2>2, Sends DEF IInv, service
<1>5. LeavingOK'
  <2>1. net \subseteq net'
    BY <1>1 DEF Sending
  <2> QED BY <1>1, <2>1 DEF IInv, LeavingOK, Staying, WaitingFor, service
<1>6. Quiet'
  BY <1>1 DEF IInv, Quiet
<1> QED BY <1>2, <1>3, <1>4, <1>5, <1>6 DEF IInv

LEMMA LogoutEverywhereFailsKeeps ==
  ASSUME IInv, NEW r \in net, LogoutEverywhereFails(r)
  PROVE  IInv'
<1>1. UNCHANGED <<tokens, jar, service, ui, form, call, signedOut>>
      /\ r.kind = "all" /\ settings' = "no" /\ net' = net \ {r}
  BY DEF LogoutEverywhereFails
<1>2. Cookies' /\ Page' /\ Forms'
  BY <1>1 DEF IInv, Cookies, Page, Forms, NoCall, service
<1>3. Net'
  BY <1>1, NetShrinks DEF IInv
<1>4. Requests'
  <2>1. \A q \in net' : q.kind # "all"
    BY <1>1 DEF IInv, Requests, Single
  <2> QED BY <1>1, <2>1 DEF IInv, Requests, Expected, service
<1>5. LeavingOK'
  <2>1. settings = "sent"
    BY <1>1 DEF IInv, Requests, Expected
  <2> QED BY <1>1, <2>1 DEF IInv, LeavingOK, Staying, WaitingFor, service
<1>6. Quiet'
  BY <1>1, StaysQuiet DEF IInv, Quiet, service
<1> QED BY <1>2, <1>3, <1>4, <1>5, <1>6 DEF IInv

LEMMA LogoutEverywhereAnswerKeeps ==
  ASSUME IInv, NEW r \in net, LogoutEverywhereAnswer(r)
  PROVE  IInv'
<1>1. UNCHANGED <<tokens, jar, refreshing, ui, form, call, signedOut>>
      /\ ClearCookies(net \ {r}) /\ r.kind = "all"
      /\ cached' = None /\ expiry' = 0 /\ drafts' = FALSE /\ settings' = "leaving"
  BY DEF LogoutEverywhereAnswer, ForgetLocally
<1> DEFINE requests == net \ {r}
<1>2. /\ Net' /\ requests \subseteq net'
      /\ \A q \in net' : q \in requests \/ (q.kind = "logout" /\ leaving'.state = "sent")
      /\ \A q, s \in net' : q.kind = "logout" /\ s.kind = "logout" => q = s
      /\ leaving' \in [state : {"no", "waiting", "sent"}, for : Nat] /\ leaving' # Staying
      /\ leaving'.state = "waiting" => \E q \in net' : q.kind = "refresh" /\ q.id = leaving'.for
      /\ refreshing # 0 => leaving' = WaitingFor(refreshing)
      /\ leaving # Staying => leaving' = leaving
  BY <1>1, Clearing
<1>3. Cookies' /\ Page'
  <2>1. Len(tokens) \in Nat
    BY DEF IInv, Cookies
  <2>2. Cookies'
    BY <1>1, <2>1 DEF IInv, Cookies
  <2>3. Page'
    BY <1>1 DEF IInv, Page
  <2> QED BY <2>2, <2>3
<1>4. Forms'
  BY <1>1, <1>2 DEF IInv, Forms, NoCall
<1>5. Requests'
  <2>1. \A q \in requests : q.kind # "all"
    BY <1>1 DEF IInv, Requests, Single
  <2>2. \A q \in net' : Expected(q)'
    BY <1>1, <1>2, <2>1 DEF IInv, Requests, Expected, Staying
  <2>3. \A q, s \in net' : q.kind = s.kind /\ q.kind \in Single => q = s
    BY <1>2 DEF IInv, Requests
  <2>4. refreshing' # 0 => \E q \in net' : q.id = refreshing' /\ q.kind = "refresh"
    BY <1>1, <1>2 DEF IInv, Requests
  <2> QED BY <2>2, <2>3, <2>4 DEF Requests
<1>6. LeavingOK'
  BY <1>1, <1>2 DEF LeavingOK
<1>7. Quiet'
  <2> SUFFICES ASSUME signedOut.since, ~signedOut.amid
               PROVE  Quiet'
    BY <1>1 DEF Quiet
  <2>1. ~ui.auth /\ ui.waiters = {} /\ \A q \in net : Harmless(q)
    BY DEF IInv, Quiet
  <2>2. \A q \in net' : Harmless(q)'
    BY <1>2, <2>1 DEF Harmless, WaitingFor, Staying
  <2> QED BY <1>1, <1>2, <2>1, <2>2 DEF Quiet
<1> QED BY <1>2, <1>3, <1>4, <1>5, <1>6, <1>7 DEF IInv

(* The sign-out ends. *)
LEMMA SignOutEnds ==
  ASSUME IInv, NEW r \in net, LogoutAnswer(r), settings # "leaving"
  PROVE  IInv'
<1>1. UNCHANGED <<tokens, cached, expiry, drafts, ui, settings, refreshing, form, call>>
      /\ r.kind = "logout" /\ net' = net \ {r} /\ leaving' = Staying
      /\ jar' = (IF r.answer = "ok" THEN 0 ELSE jar)
      /\ signedOut' = [signedOut EXCEPT !.failed = @ \/ r.answer # "ok",
                                        !.amid = @ \/ (r.answer # "ok" /\ call # NoCall)]
  BY DEF LogoutAnswer
<1>2. leaving.state = "sent"
  BY <1>1 DEF IInv, Requests, Expected
<1>3. signedOut' \in [since : BOOLEAN, amid : BOOLEAN, failed : BOOLEAN]
      /\ signedOut'.since = signedOut.since
      /\ signedOut'.failed = (signedOut.failed \/ r.answer # "ok")
      /\ signedOut'.amid = (signedOut.amid \/ (r.answer # "ok" /\ call # NoCall))
  BY <1>1 DEF IInv, Forms
<1>4. Net'
  BY <1>1, NetShrinks DEF IInv
<1>5. Cookies' /\ Page'
  BY <1>1 DEF IInv, Cookies, Page
<1>6. Forms'
  BY <1>1, <1>3 DEF IInv, Forms, NoCall, Staying
<1>7. Requests'
  <2>1. \A q \in net' : q.kind # "logout"
    BY <1>1 DEF IInv, Requests, Single
  <2> QED BY <1>1, <2>1 DEF IInv, Requests, Expected
<1>8. LeavingOK'
  BY <1>1 DEF LeavingOK, Staying
<1>9. Quiet'
  <2> SUFFICES ASSUME signedOut'.since, ~signedOut'.amid
               PROVE  Quiet'
    BY DEF Quiet
  <2>1. /\ expiry = 0 /\ cached = None /\ ~drafts /\ ~ui.auth /\ ui.waiters = {}
        /\ \A q \in net : Harmless(q)
    BY <1>3 DEF IInv, Quiet
  <2>2. \A q \in net' : Harmless(q)'
    BY <1>1, <1>2, <2>1 DEF Harmless, WaitingFor
  <2>3. jar' = 0 \/ (signedOut'.failed /\ call = NoCall)
    BY <1>1, <1>3
  <2> QED BY <1>1, <2>1, <2>2, <2>3 DEF Quiet, NoCall
<1> QED BY <1>4, <1>5, <1>6, <1>7, <1>8, <1>9 DEF IInv

(* Signing out everywhere goes on to a second one: no renewal is under way, *)
(* since the first waited for it.                                           *)
LEMMA SignOutGoesOn ==
  ASSUME IInv, NEW r \in net, LogoutAnswer(r), settings = "leaving"
  PROVE  IInv'
<1>1. UNCHANGED <<tokens, refreshing, form, call>> /\ r.kind = "logout"
      /\ settings' = "no" /\ cached' = None /\ expiry' = 0 /\ drafts' = FALSE /\ ui' = LeaveApp(ui)
      /\ jar' = (IF r.answer = "ok" THEN 0 ELSE jar)
      /\ signedOut' = [SigningOut EXCEPT !.failed = @ \/ r.answer # "ok",
                                         !.amid = @ \/ (r.answer # "ok" /\ call # NoCall)]
  BY DEF LogoutAnswer, ForgetLocally
<1>2. leaving.state = "sent" /\ refreshing = 0
  <2>1. leaving.state = "sent"
    BY <1>1 DEF IInv, Requests, Expected
  <2> QED BY <2>1 DEF IInv, LeavingOK, Staying, WaitingFor
<1>3. signedOut' \in [since : BOOLEAN, amid : BOOLEAN, failed : BOOLEAN]
      /\ signedOut'.since /\ (~signedOut'.amid => ~SigningOut.amid)
  BY <1>1, SigningOutIsTyped
<1>4. PICK q : q = [r EXCEPT !.cookie = jar', !.answer = "none"]
  OBVIOUS
<1>5. leaving' = leaving /\ net' = (net \ {r}) \cup {q}
  BY <1>2, <1>4 DEF LogoutAnswer
<1>6. Cookies'
  BY <1>1 DEF IInv, Cookies
<1>7. q.id = r.id /\ q.kind = "logout" /\ Message(q, Len(tokens'))
  <2>1. r \in Messages /\ r.token <= Len(tokens) /\ jar' \in Nat /\ jar' <= Len(tokens)
    BY <1>1, <1>6 DEF IInv, Net, Message, Cookies
  <2>2. q \in Messages /\ q.id = r.id /\ q.kind = "logout" /\ q.cookie = jar' /\ q.token = r.token
        /\ q.answer = "none"
    BY <1>1, <1>4, <2>1 DEF Messages
  <2> QED BY <1>1, <2>1, <2>2 DEF Message
<1>8. Net'
  <2>1. Len(tokens) <= Len(tokens')
    BY <1>1 DEF IInv, Cookies
  <2> QED BY <1>5, <1>6, <1>7, <2>1, NetAnswers DEF IInv
<1>9. Page'
  BY <1>1 DEF IInv, Page, Hooks, LeaveApp
<1>10. Forms'
  BY <1>1, <1>3, <1>5 DEF IInv, Forms, NoCall
<1>11. Requests'
  <2>1. \A s \in net : s.kind # "all" /\ (s.kind = "logout" => s = r)
    BY <1>1 DEF IInv, Requests, Expected, Single
  <2> QED BY <1>1, <1>2, <1>5, <1>7, <2>1 DEF IInv, Requests, Expected
<1>12. LeavingOK'
  <2>1. ~signedOut'.amid => signedOut'.since /\ form'.state # "sent"
    BY <1>1, <1>3, NothingElseUnderWay
  <2> QED BY <1>1, <1>2, <1>5, <2>1 DEF LeavingOK
<1>13. Quiet'
  <2> SUFFICES ASSUME ~signedOut'.amid
               PROVE  Quiet'
    BY DEF Quiet
  <2>1. ui.waiters = {} /\ \A s \in net : s.kind # "change" /\ (s.kind = "refresh" => s.id = 0)
    BY <1>2, <1>3, NothingElseUnderWay
  <2>2. \A s \in net : s.kind # "refresh"
    BY <2>1 DEF IInv, Net, Message, Messages
  <2>3. \A s \in net' : Harmless(s)'
    BY <1>5, <1>7, <2>1, <2>2 DEF Harmless
  <2>4. ~ui'.auth /\ ui'.waiters = {}
    BY <1>1, <2>1 DEF IInv, Page, Hooks, LeaveApp
  <2> QED BY <1>1, <1>2, <1>5, <2>3, <2>4 DEF Quiet, Staying
<1> QED BY <1>6, <1>8, <1>9, <1>10, <1>11, <1>12, <1>13 DEF IInv

LEMMA ChangePasswordKeeps ==
  ASSUME IInv, ChangePassword
  PROVE  IInv'
<1>1. UNCHANGED <<tokens, jar, service, ui, form, call, settings, signedOut>>
      /\ ui.auth /\ net' = Sending("change", None) /\ \A r \in net : r.kind # "change"
  BY DEF ChangePassword, Unfinished
<1>2. Cookies' /\ Page' /\ Forms'
  BY <1>1 DEF IInv, Cookies, Page, Forms, NoCall, service
<1>3. Net'
  BY <1>1, NetGrows DEF IInv, Kinds
<1>4. Requests'
  <2>1. \A r \in net : Expected(r)'
    BY <1>1 DEF IInv, Requests, Expected, service
  <2>2. \A q : q.kind = "change" => Expected(q)'
    BY DEF Expected
  <2> QED BY <1>1, <2>1, <2>2, Sends DEF IInv, service
<1>5. LeavingOK'
  <2>1. net \subseteq net'
    BY <1>1 DEF Sending
  <2> QED BY <1>1, <2>1 DEF IInv, LeavingOK, Staying, WaitingFor, service
<1>6. Quiet'
  BY <1>1 DEF IInv, Quiet
<1> QED BY <1>2, <1>3, <1>4, <1>5, <1>6 DEF IInv

LEMMA ChangePasswordAnswerKeeps ==
  ASSUME IInv, NEW r \in net, ChangePasswordAnswer(r)
  PROVE  IInv'
<1>1. UNCHANGED <<tokens, drafts, refreshing, leaving, ui, form, call, settings, signedOut>>
      /\ r.kind = "change" /\ net' = net \ {r}
      /\ ((jar' = r.token /\ expiry' = r.token) \/ UNCHANGED <<jar, expiry>>)
      /\ cached' \in {None, cached}
  BY DEF ChangePasswordAnswer, RecordSessionExpiry
<1>2. Cookies'
  <2>1. r.token \in 0..Len(tokens)
    BY DEF IInv, Net, Message, Messages
  <2> QED BY <1>1, <2>1 DEF IInv, Cookies
<1>3. Net'
  BY <1>1, NetShrinks DEF IInv
<1>4. Page' /\ Forms'
  BY <1>1 DEF IInv, Page, Forms, NoCall
<1>5. Requests' /\ LeavingOK'
  BY <1>1, Reading
<1>6. Quiet'
  BY <1>1 DEF IInv, Quiet, Harmless
<1> QED BY <1>2, <1>3, <1>4, <1>5, <1>6 DEF IInv

-----------------------------------------------------------------------------
(* API calls and renewals *)

LEMMA StartCallKeeps ==
  ASSUME IInv, NEW kind \in {"read", "write", "long"}, StartCall(kind)
  PROVE  IInv'
<1>1. UNCHANGED <<tokens, jar, expiry, drafts, cached, leaving, ui, form, settings, signedOut>>
      /\ ui.auth /\ call = NoCall
  BY DEF StartCall
<1>2. FreeId \in Nat \ {0} /\ refreshing \in Nat
  BY FreeIdIsNew DEF IInv, Page
<1>3. \A r \in net : r.kind # "call"
  BY <1>1 DEF IInv, Requests, Expected, NoCall
<1>4. \/ UNCHANGED <<net, refreshing, call>>
      \/ UNCHANGED <<net, refreshing>> /\ call' = [kind |-> kind, state |-> "ensuring", request |-> refreshing]
      \/ /\ net' = Sending("refresh", None) /\ refreshing' = FreeId /\ leaving = Staying
         /\ call' = [kind |-> kind, state |-> "ensuring", request |-> FreeId]
      \/ /\ net' = Sending("call", None) /\ UNCHANGED refreshing
         /\ call' = [kind |-> kind, state |-> "sent", request |-> FreeId]
  BY DEF StartCall, CallSent
<1>5. net \subseteq net'
  BY <1>4 DEF Sending
<1>6. Cookies' /\ Page'
  <2>1. refreshing' \in Nat
    BY <1>2, <1>4
  <2> QED BY <1>1, <2>1 DEF IInv, Cookies, Page
<1>7. Net'
  <2>1. CASE net' = net
    BY <1>1, <2>1 DEF IInv, Net
  <2>2. CASE net' = Sending("refresh", None)
    BY <1>1, <2>2, NetGrows DEF IInv, Kinds
  <2>3. CASE net' = Sending("call", None)
    BY <1>1, <2>3, NetGrows DEF IInv, Kinds
  <2> QED BY <1>4, <2>1, <2>2, <2>3
<1>8. Forms'
  <2>1. call' \in [kind : {"none", "read", "write", "long"}, request : Nat,
                   state : {"no", "ensuring", "sent", "renewing", "retried"}]
        /\ (call'.state = "no" <=> call' = NoCall)
    BY <1>2, <1>4 DEF IInv, Forms, NoCall
  <2> QED BY <1>1, <2>1 DEF IInv, Forms, NoCall
<1>9. Requests'
  <2>1. \A r \in net : Expected(r)'
    BY <1>1, <1>3 DEF IInv, Requests, Expected
  <2>2. CASE net' = net /\ refreshing' = refreshing
    BY <2>1, <2>2 DEF IInv, Requests
  <2>3. CASE net' = Sending("refresh", None) /\ refreshing' = FreeId
    <3>1. \A q : q.kind = "refresh" => Expected(q)'
      BY DEF Expected
    <3> QED BY <2>1, <2>3, <3>1, Sends DEF IInv, Single
  <2>4. CASE net' = Sending("call", None) /\ refreshing' = refreshing /\ call'.state = "sent"
    <3>1. \A q : q.kind = "call" => Expected(q)'
      BY <2>4 DEF Expected
    <3> QED BY <1>3, <2>1, <2>4, <3>1, Sends DEF IInv
  <2> QED BY <1>4, <2>2, <2>3, <2>4
<1>10. LeavingOK'
  BY <1>1, <1>4, <1>5 DEF IInv, LeavingOK, Staying, WaitingFor
<1>11. Quiet'
  BY <1>1 DEF IInv, Quiet
<1> QED BY <1>6, <1>7, <1>8, <1>9, <1>10, <1>11 DEF IInv

LEMMA CallEndsKeeps ==
  ASSUME IInv, NEW r \in net, CallEnds(r)
  PROVE  IInv'
<1>1. UNCHANGED <<tokens, jar, service, ui, form, settings, signedOut>>
      /\ r.kind = "call" /\ net' = net \ {r} /\ call' = NoCall
  BY DEF CallEnds
<1>2. Net'
  BY <1>1, NetShrinks DEF IInv
<1>3. Cookies' /\ Page' /\ Forms'
  BY <1>1 DEF IInv, Cookies, Page, Forms, NoCall, service
<1>4. Requests'
  <2>1. \A q \in net' : q.kind # "call"
    BY <1>1 DEF IInv, Requests, Single
  <2> QED BY <1>1, <2>1 DEF IInv, Requests, Expected, service
<1>5. LeavingOK'
  BY <1>1 DEF IInv, LeavingOK, Staying, WaitingFor, service
<1>6. Quiet'
  BY <1>1 DEF IInv, Quiet, Harmless, Staying, WaitingFor, service
<1> QED BY <1>2, <1>3, <1>4, <1>5, <1>6 DEF IInv

(* A rejected call ends. *)
LEMMA RejectedCallEnds ==
  ASSUME IInv, NEW r \in net, r.kind = "call", net' = net \ {r}, call' = NoCall,
         Rejected(call.kind), UNCHANGED <<tokens, jar, leaving, form, settings, signedOut>>
  PROVE  IInv'
<1>1. cached' \in {None, cached} /\ refreshing' \in {0, refreshing} /\ expiry' \in {0, expiry}
      /\ drafts' = drafts /\ ui' \in {ui, HandleExpired(ui)}
  BY DEF Rejected, RemoveToken
<1>2. ui' \in Hooks /\ (ui'.auth => ui.auth /\ ui'.user # None) /\ ui'.waiters = ui.waiters
  BY <1>1, HandleExpiredIsTyped DEF IInv, Page
<1>3. Net'
  BY NetShrinks DEF IInv
<1>4. Cookies'
  BY <1>1 DEF IInv, Cookies
<1>5. Page' /\ Forms'
  BY <1>1, <1>2 DEF IInv, Page, Forms, NoCall
<1>6. Requests'
  <2>1. \A q \in net' : q.kind # "call"
    BY DEF IInv, Requests, Single
  <2>2. \A q \in net' : Expected(q)'
    BY <2>1 DEF IInv, Requests, Expected
  <2> QED BY <1>1, <2>2 DEF IInv, Requests
<1>7. LeavingOK'
  BY <1>1 DEF IInv, LeavingOK, Staying, WaitingFor
<1>8. Quiet'
  BY <1>1, <1>2 DEF IInv, Quiet, Harmless, Staying, WaitingFor
<1> QED BY <1>3, <1>4, <1>5, <1>6, <1>7, <1>8 DEF IInv

(* A rejected call waits for a renewal under way, or starts one: after a    *)
(* sign-out that ended well it has no cookie to renew with.                 *)
LEMMA RejectedCallRenews ==
  ASSUME IInv, NEW r \in net, r.kind = "call", leaving = Staying,
         UNCHANGED <<tokens, jar, expiry, drafts, cached, ui, leaving, form, settings, signedOut>>,
         call' = [call EXCEPT !.state = "renewing", !.request = IF refreshing = 0 THEN r.id ELSE refreshing],
         \/ refreshing # 0 /\ net' = net \ {r} /\ UNCHANGED refreshing
         \/ /\ refreshing = 0 /\ refreshing' = r.id
            /\ net' = (net \ {r}) \cup {[Request("refresh", None) EXCEPT !.id = r.id]}
  PROVE  IInv'
<1>1. r \in Messages /\ Message(r, Len(tokens)) /\ call.state \in {"sent", "retried"}
  BY DEF IInv, Net, Message, Requests, Expected
<1>2. refreshing' \in Nat /\ r.id \in Nat
  BY <1>1 DEF IInv, Page, Messages
<1>3. Cookies' /\ Page'
  BY <1>2 DEF IInv, Cookies, Page
<1>4. Forms' /\ call'.state = "renewing"
  <2>1. (IF refreshing = 0 THEN r.id ELSE refreshing) \in Nat
    BY <1>2 DEF IInv, Page
  <2>2. call' \in [kind : {"none", "read", "write", "long"}, request : Nat,
                   state : {"no", "ensuring", "sent", "renewing", "retried"}]
        /\ call'.state = "renewing"
    BY <2>1 DEF IInv, Forms
  <2>3. call'.state = "no" <=> call' = NoCall
    BY <2>2 DEF NoCall
  <2>4. UNCHANGED <<form, settings, signedOut, leaving>>
    OBVIOUS
  <2> QED BY <2>2, <2>3, <2>4, Zenon DEF IInv, Forms
<1>5. \A s \in net \ {r} : s.kind # "call" /\ Expected(s)'
  <2>1. \A s \in net \ {r} : s.kind # "call"
    BY DEF IInv, Requests, Single
  <2> QED BY <2>1 DEF IInv, Requests, Expected
<1>6. CASE refreshing # 0 /\ net' = net \ {r} /\ UNCHANGED refreshing
  <2>1. Net'
    BY <1>6, NetShrinks DEF IInv
  <2>2. Requests'
    BY <1>5, <1>6 DEF IInv, Requests
  <2>3. LeavingOK'
    BY DEF IInv, LeavingOK, Staying
  <2>4. Quiet'
    BY <1>1, <1>6 DEF IInv, Quiet, Harmless, Forms, Staying, WaitingFor, NoCall
  <2> QED BY <1>3, <1>4, <2>1, <2>2, <2>3, <2>4 DEF IInv
<1>7. CASE /\ refreshing = 0 /\ refreshing' = r.id
           /\ net' = (net \ {r}) \cup {[Request("refresh", None) EXCEPT !.id = r.id]}
  <2>1. PICK q : q = [Request("refresh", None) EXCEPT !.id = r.id]
    OBVIOUS
  <2>2. q.id = r.id /\ q.kind = "refresh" /\ q.cookie = jar /\ q.answer = "none"
        /\ net' = (net \ {r}) \cup {q}
    BY <1>7, <2>1 DEF Request
  <2>3. Message(q, Len(tokens'))
    <3>1. q = [id |-> r.id, kind |-> "refresh", cookie |-> jar, who |-> None, answer |-> "none", token |-> 0]
      BY <2>1 DEF Request
    <3>2. jar \in Nat /\ jar <= Len(tokens) /\ Len(tokens) \in Nat /\ r.id \in Nat \ {0}
      BY <1>1 DEF IInv, Cookies, Messages
    <3> QED BY <3>1, <3>2 DEF Message, Messages, Kinds
  <2>4. Net'
    <3>1. Len(tokens) <= Len(tokens')
      BY DEF IInv, Cookies
    <3> QED BY <1>3, <2>2, <2>3, <3>1, NetAnswers DEF IInv
  <2>5. Requests'
    <3>1. \A s \in net' : Expected(s)'
      BY <1>5, <2>2 DEF Expected
    <3>2. \A s, t \in net' : s.kind = t.kind /\ s.kind \in Single => s = t
      BY <2>2 DEF IInv, Requests, Single
    <3> QED BY <1>7, <2>2, <3>1, <3>2 DEF Requests
  <2>6. LeavingOK'
    BY DEF IInv, LeavingOK, Staying
  <2>7. Quiet'
    <3> SUFFICES ASSUME signedOut.since, ~signedOut.amid
                 PROVE  Quiet'
      BY DEF Quiet
    <3>1. call # NoCall
      BY <1>1 DEF NoCall
    <3>2. jar = 0 /\ \A s \in net : Harmless(s)
      BY <3>1 DEF IInv, Quiet
    <3>3. Harmless(q)'
      BY <2>2, <3>2 DEF Harmless
    <3>4. \A s \in net' : Harmless(s)'
      BY <2>2, <3>2, <3>3 DEF Harmless
    <3> QED BY <3>2, <3>4 DEF IInv, Quiet
  <2> QED BY <1>3, <1>4, <2>4, <2>5, <2>6, <2>7 DEF IInv
<1> QED BY <1>6, <1>7

LEMMA CallRejectedKeeps ==
  ASSUME IInv, NEW r \in net, CallRejected(r)
  PROVE  IInv'
<1>1. CASE call.kind = "read" \/ call.state = "retried" \/ leaving # Staying
  BY <1>1, RejectedCallEnds DEF CallRejected
<1>2. CASE ~(call.kind = "read" \/ call.state = "retried" \/ leaving # Staying)
  <2>1. r.kind = "call" /\ leaving = Staying
        /\ UNCHANGED <<tokens, jar, expiry, drafts, cached, ui, leaving, form, settings, signedOut>>
        /\ call' = [call EXCEPT !.state = "renewing", !.request = IF refreshing = 0 THEN r.id ELSE refreshing]
        /\ \/ refreshing # 0 /\ net' = net \ {r} /\ UNCHANGED refreshing
           \/ /\ refreshing = 0 /\ refreshing' = r.id
              /\ net' = (net \ {r}) \cup {[Request("refresh", None) EXCEPT !.id = r.id]}
    BY <1>2 DEF CallRejected
  <2> QED BY <2>1, RejectedCallRenews
<1> QED BY <1>1, <1>2

(* A renewal has been answered or has failed: what waited for it goes on.   *)
LEMMA RenewalEnds ==
  ASSUME IInv, NEW r \in net, r.kind = "refresh", NEW sendCall \in BOOLEAN,
         Continue(r, sendCall), Cookies', refreshing' = 0,
         UNCHANGED <<tokens, form, settings, signedOut>>,
         sendCall => Renewed(r) /\ call'.state \in {"sent", "retried"},
         ~sendCall => call' = call \/ (Renewed(r) /\ call' = NoCall)
  PROVE  /\ Net' /\ Requests' /\ LeavingOK'
         /\ leaving' \in [state : {"no", "waiting", "sent"}, for : Nat]
         /\ leaving' = Staying => leaving = Staying
         /\ signedOut.since /\ ~signedOut.amid => \A q \in net' : Harmless(q)'
<1>1. PICK c : c = [r EXCEPT !.kind = "call", !.cookie = jar', !.answer = "none", !.token = 0]
  OBVIOUS
<1>2. PICK l : l = [Request("logout", None) EXCEPT !.cookie = jar']
  OBVIOUS
<1>3. c.kind = "call" /\ l.kind = "logout"
  <2>1. r \in Messages
    BY DEF IInv, Net, Message
  <2> QED BY <1>1, <1>2, <2>1 DEF Messages, Request
<1>4. /\ net' = (net \ {r}) \cup (IF sendCall THEN {c} ELSE {})
                  \cup (IF leaving = WaitingFor(r.id) THEN {l} ELSE {})
      /\ leaving' = (IF leaving = WaitingFor(r.id) THEN [state |-> "sent", for |-> 0] ELSE leaving)
  BY <1>1, <1>2 DEF Continue, WaitingFor
<1>5. Net'
  BY NetContinues DEF IInv
<1>6. leaving' \in [state : {"no", "waiting", "sent"}, for : Nat] /\ (leaving' = Staying => leaving = Staying)
  BY <1>4 DEF IInv, Forms, Staying
<1>7. \A q \in net : q.kind = "call" => ~Renewed(r)
  BY DEF IInv, Requests, Expected, Renewed
<1>8. leaving = WaitingFor(r.id) => \A q \in net : q.kind # "logout"
  BY DEF IInv, Requests, Expected, WaitingFor
<1>9. Requests'
  <2>1. \A q \in net \ {r} : Expected(q)'
    BY <1>4, <1>7, <1>8 DEF IInv, Requests, Expected
  <2>2. sendCall => Expected(c)'
    BY <1>3 DEF Expected
  <2>3. leaving = WaitingFor(r.id) => Expected(l)'
    BY <1>3, <1>4 DEF Expected
  <2>4. \A q \in net' : Expected(q)'
    BY <1>4, <2>1, <2>2, <2>3
  <2>5. \A q, s \in net' : q.kind = s.kind /\ q.kind \in Single => q = s
    BY <1>3, <1>4, <1>7, <1>8 DEF IInv, Requests
  <2> QED BY <2>4, <2>5 DEF Requests
<1>10. LeavingOK'
  <2>1. net \ {r} \subseteq net'
    BY <1>4
  <2>2. leaving'.state = "waiting" => leaving' = leaving /\ leaving # WaitingFor(r.id)
    BY <1>4
  <2>3. leaving'.state = "waiting" => \E q \in net' : q.kind = "refresh" /\ q.id = leaving'.for
    <3> SUFFICES ASSUME leaving'.state = "waiting"
                 PROVE  \E q \in net' : q.kind = "refresh" /\ q.id = leaving'.for
      OBVIOUS
    <3>1. PICK q \in net : q.kind = "refresh" /\ q.id = leaving.for
      BY <2>2 DEF IInv, LeavingOK
    <3>2. leaving = WaitingFor(leaving.for)
      BY <2>2 DEF IInv, Forms, WaitingFor
    <3>3. q # r
      BY <2>2, <3>1, <3>2
    <3> QED BY <2>1, <2>2, <3>1, <3>3
  <2>4. leaving' # Staying => leaving # Staying
    BY <1>4 DEF WaitingFor, Staying
  <2> QED BY <2>3, <2>4 DEF IInv, LeavingOK
<1>11. ASSUME signedOut.since, ~signedOut.amid, NEW q \in net'
       PROVE  Harmless(q)'
  <2>1. CASE q \in net \ {r}
    <3>1. Harmless(q)
      BY <1>11, <2>1 DEF IInv, Quiet
    <3>2. q.id # r.id
      BY <2>1 DEF IInv, Net
    <3> QED BY <1>4, <3>1, <3>2 DEF Harmless, WaitingFor
  <2>2. CASE q.kind \in {"call", "logout"}
    BY <2>2 DEF Harmless
  <2> QED BY <1>3, <1>4, <2>1, <2>2
<1> QED BY <1>5, <1>6, <1>9, <1>10, <1>11

LEMMA RefreshAnswerKeeps ==
  ASSUME IInv, NEW r \in net, RefreshAnswer(r)
  PROVE  IInv'
<1>1. UNCHANGED <<tokens, drafts, ui, form, settings, signedOut>>
      /\ r.kind = "refresh" /\ r.answer = "ok" /\ jar' = r.token /\ refreshing' = 0
      /\ Continue(r, Renewed(r))
      /\ (IF leaving = Staying THEN expiry' = r.token /\ cached' = None ELSE UNCHANGED <<expiry, cached>>)
      /\ call' = (IF Renewed(r) THEN [call EXCEPT !.state = IF @ = "ensuring" THEN "sent" ELSE "retried"]
                  ELSE call)
  BY DEF RefreshAnswer, RefreshDone, RecordSessionExpiry
<1>2. Cookies'
  <2>1. r.token \in 0..Len(tokens)
    BY DEF IInv, Net, Message, Messages
  <2> QED BY <1>1, <2>1 DEF IInv, Cookies
<1>3. Renewed(r) \in BOOLEAN
  BY DEF Renewed
<1>4. call' \in [kind : {"none", "read", "write", "long"}, request : Nat,
                 state : {"no", "ensuring", "sent", "renewing", "retried"}]
      /\ (Renewed(r) => call'.state \in {"sent", "retried"})
      /\ (~Renewed(r) => call' = call)
      /\ (call'.state = "no" <=> call' = NoCall)
  BY <1>1 DEF IInv, Forms, Renewed, NoCall
<1>5. /\ Net' /\ Requests' /\ LeavingOK'
      /\ leaving' \in [state : {"no", "waiting", "sent"}, for : Nat]
      /\ leaving' = Staying => leaving = Staying
      /\ signedOut.since /\ ~signedOut.amid => \A q \in net' : Harmless(q)'
  BY <1>1, <1>2, <1>3, <1>4, RenewalEnds
<1>6. Forms'
  BY <1>1, <1>4, <1>5 DEF IInv, Forms, NoCall
<1>7. Page'
  BY <1>1 DEF IInv, Page
<1>8. Quiet'
  <2> SUFFICES ASSUME signedOut.since, ~signedOut.amid
               PROVE  Quiet'
    BY <1>1 DEF Quiet
  <2>1. leaving = WaitingFor(r.id) /\ expiry = 0 /\ cached = None
        /\ ~drafts /\ ~ui.auth /\ ui.waiters = {}
    BY <1>1 DEF IInv, Quiet, Harmless
  <2>2. leaving # Staying
    BY <2>1 DEF WaitingFor, Staying
  <2> QED BY <1>1, <1>5, <2>1, <2>2 DEF Quiet
<1> QED BY <1>2, <1>5, <1>6, <1>7, <1>8 DEF IInv

LEMMA RefreshFailsKeeps ==
  ASSUME IInv, NEW r \in net, RefreshFails(r)
  PROVE  IInv'
<1>1. UNCHANGED <<tokens, jar, drafts, form, settings, signedOut>>
      /\ r.kind = "refresh" /\ refreshing' = 0 /\ Continue(r, FALSE)
      /\ expiry' \in {0, expiry} /\ cached' \in {None, cached} /\ ui' \in {ui, HandleExpired(ui)}
      /\ call' = (IF Renewed(r) THEN NoCall ELSE call)
  BY DEF RefreshFails, RemoveToken, AfterRefreshFails
<1>2. Cookies'
  BY <1>1 DEF IInv, Cookies
<1>3. ui' \in Hooks /\ (ui'.auth => ui.auth /\ ui'.user # None) /\ ui'.waiters = ui.waiters
  BY <1>1, HandleExpiredIsTyped DEF IInv, Page
<1>4. /\ Net' /\ Requests' /\ LeavingOK'
      /\ leaving' \in [state : {"no", "waiting", "sent"}, for : Nat]
      /\ leaving' = Staying => leaving = Staying
      /\ signedOut.since /\ ~signedOut.amid => \A q \in net' : Harmless(q)'
  BY <1>1, <1>2, RenewalEnds
<1>5. Page'
  BY <1>1, <1>3 DEF IInv, Page
<1>6. Forms'
  BY <1>1, <1>4 DEF IInv, Forms, NoCall
<1>7. Quiet'
  BY <1>1, <1>3, <1>4 DEF IInv, Quiet, NoCall, Staying
<1> QED BY <1>2, <1>4, <1>5, <1>6, <1>7 DEF IInv

-----------------------------------------------------------------------------
(* The sign-in form *)

LEMMA SwitchViewKeeps ==
  ASSUME IInv, NEW view \in {"login", "register", "forgot-password"}, SwitchView(view)
  PROVE  IInv'
<1>1. UNCHANGED <<tokens, jar, net, service, ui, call, settings, signedOut>>
      /\ form' = [form EXCEPT !.view = view]
  BY DEF SwitchView
<1>2. Cookies' /\ Net' /\ Page'
  BY <1>1 DEF IInv, Cookies, Net, Page, service
<1>3. Forms' /\ form'.state = form.state
  BY <1>1 DEF IInv, Forms, NoCall, service
<1>4. Requests' /\ LeavingOK' /\ Quiet'
  BY <1>1, <1>3 DEF IInv, Requests, Expected, LeavingOK, Quiet, Harmless, NoCall, Staying, WaitingFor, service
<1> QED BY <1>2, <1>3, <1>4 DEF IInv

LEMMA SubmitKeeps ==
  ASSUME IInv, NEW account \in Accounts, Submit(account)
  PROVE  IInv'
<1>1. UNCHANGED <<tokens, jar, service, ui, call, settings, signedOut>> /\ form.state = "idle"
  BY DEF Submit, MaySubmit
<1>2. PICK state \in {"idle", "waiting", "registering"} :
        /\ form' = [form EXCEPT !.who = account, !.state = state]
        /\ state = "registering" <=> form.view = "register"
  BY DEF Submit
<1>3. Forms' /\ form'.state = state
  <2>1. form' \in [view : {"login", "register", "forgot-password"},
                  state : {"idle", "waiting", "registering", "sent"}, who : Accounts \cup {None}]
        /\ form'.state = state /\ form'.who = account
    BY <1>2 DEF IInv, Forms
  <2> QED BY <1>1, <2>1 DEF IInv, Forms, NoCall, service
<1>4. net' = net \/ (net' = Sending("register", account) /\ state = "registering")
  BY <1>2 DEF Submit
<1>5. Net'
  <2>1. CASE net' = net
    BY <1>1, <2>1 DEF IInv, Net
  <2>2. CASE net' = Sending("register", account)
    BY <1>1, <2>2, NetGrows DEF IInv, Kinds
  <2> QED BY <1>4, <2>1, <2>2
<1>6. Cookies' /\ Page'
  BY <1>1 DEF IInv, Cookies, Page, service
<1>7. Requests'
  <2>1. \A r \in net : r.kind # "register" /\ Expected(r)'
    BY <1>1 DEF IInv, Requests, Expected, service
  <2>2. CASE net' = net
    BY <1>1, <2>1, <2>2 DEF IInv, Requests, service
  <2>3. CASE net' = Sending("register", account) /\ state = "registering"
    <3>1. \A q : q.kind = "register" => Expected(q)'
      BY <1>3, <2>3 DEF Expected
    <3> QED BY <1>1, <2>1, <2>3, <3>1, Sends DEF IInv, service
  <2> QED BY <1>4, <2>2, <2>3
<1>8. LeavingOK'
  <2>1. net \subseteq net'
    BY <1>4 DEF Sending
  <2> QED BY <1>1, <1>3, <2>1 DEF IInv, LeavingOK, Staying, WaitingFor, service
<1>9. Quiet'
  <2>1. \A r \in net' : r \in net \/ r.kind = "register"
    BY <1>4 DEF Sending, Request
  <2> QED BY <1>1, <2>1 DEF IInv, Quiet, Harmless, NoCall, Staying, WaitingFor, service
<1> QED BY <1>3, <1>5, <1>6, <1>7, <1>8, <1>9 DEF IInv

(* Registration and a failed login: the form goes on, or back to idle.      *)
LEMMA FormGoesOn ==
  ASSUME IInv, NEW r \in net, r.kind \in {"register", "login"}, net' = net \ {r},
         NEW state \in {"idle", "waiting"}, form' = [form EXCEPT !.state = state],
         UNCHANGED <<tokens, jar, service, ui, call, settings, signedOut>>
  PROVE  IInv'
<1>1. form.state \in {"registering", "sent"} /\ form.who \in Accounts
  BY DEF IInv, Requests, Expected, Forms
<1>2. Forms' /\ form'.state = state
  BY <1>1 DEF IInv, Forms, NoCall, service
<1>3. Net'
  BY NetShrinks DEF IInv
<1>4. Cookies' /\ Page'
  BY DEF IInv, Cookies, Page, service
<1>5. Requests'
  <2>1. \A q \in net' : q.kind \notin {"register", "login"}
    BY DEF IInv, Requests, Expected, Single
  <2> QED BY <2>1 DEF IInv, Requests, Expected, service
<1>6. LeavingOK'
  BY <1>2 DEF IInv, LeavingOK, Staying, WaitingFor, service
<1>7. Quiet'
  BY DEF IInv, Quiet, Harmless, NoCall, Staying, WaitingFor, service
<1> QED BY <1>2, <1>3, <1>4, <1>5, <1>6, <1>7 DEF IInv

LEMMA LoginKeeps ==
  ASSUME IInv, Login
  PROVE  IInv'
<1>1. UNCHANGED <<tokens, jar, service, ui, call, settings, signedOut>>
      /\ form.state = "waiting" /\ leaving = Staying
      /\ form' = [form EXCEPT !.state = "sent"] /\ net' = Sending("login", form.who)
  BY DEF Login, MayLogin
<1>2. form.who \in Accounts
  BY <1>1 DEF IInv, Forms
<1>3. Forms' /\ form'.state = "sent"
  BY <1>1, <1>2 DEF IInv, Forms, NoCall, service
<1>4. Net'
  BY <1>1, <1>2, NetGrows DEF IInv, Kinds
<1>5. Cookies' /\ Page'
  BY <1>1 DEF IInv, Cookies, Page, service
<1>6. Requests'
  <2>1. \A r \in net : r.kind # "login" /\ Expected(r)'
    BY <1>1, <1>3 DEF IInv, Requests, Expected, service
  <2>2. \A q : q.kind = "login" => Expected(q)'
    BY <1>3 DEF Expected
  <2> QED BY <1>1, <2>1, <2>2, Sends DEF IInv, service
<1>7. LeavingOK'
  BY <1>1 DEF LeavingOK, Staying, service
<1>8. Quiet'
  <2>1. \A r \in net' : r \in net \/ r.kind = "login"
    BY <1>1 DEF Sending, Request
  <2> QED BY <1>1, <2>1 DEF IInv, Quiet, Harmless, NoCall, Staying, WaitingFor, service
<1> QED BY <1>3, <1>4, <1>5, <1>6, <1>7, <1>8 DEF IInv

LEMMA LoginAnswerKeeps ==
  ASSUME IInv, NEW r \in net, LoginAnswer(r)
  PROVE  IInv'
<1>1. UNCHANGED <<tokens, drafts, refreshing, leaving, call, settings>>
      /\ r.kind = "login" /\ form' = NewForm /\ jar' = r.token /\ expiry' = r.token
      /\ signedOut' = [signedOut EXCEPT !.since = FALSE, !.failed = FALSE]
      /\ cached' = [request |-> r.id, user |-> None] /\ ui' = Waiting(ui, "success", r.id)
  BY DEF LoginAnswer
<1>2. PICK q : q = [r EXCEPT !.kind = "me", !.cookie = r.token, !.answer = "none", !.token = 0]
  OBVIOUS
<1>3. net' = (net \ {r}) \cup {q}
  BY <1>2 DEF LoginAnswer
<1>4. r \in Messages /\ r.token <= Len(tokens) /\ r.id \in Nat /\ r.token \in 0..Len(tokens)
  BY DEF IInv, Net, Message, Messages
<1>5. Cookies'
  BY <1>1, <1>4 DEF IInv, Cookies
<1>6. q.id = r.id /\ q.kind = "me" /\ Message(q, Len(tokens'))
  <2>1. q \in Messages /\ q.id = r.id /\ q.kind = "me" /\ q.cookie = r.token /\ q.token = 0
        /\ q.answer = "none"
    BY <1>2, <1>4 DEF Messages, Kinds
  <2> QED BY <1>1, <1>4, <2>1 DEF Message
<1>7. Net'
  <2>1. Len(tokens) <= Len(tokens')
    BY <1>1 DEF IInv, Cookies
  <2> QED BY <1>3, <1>5, <1>6, <2>1, NetAnswers DEF IInv
<1>8. Page'
  BY <1>1, <1>4, WaitingIsTyped DEF IInv, Page
<1>9. Forms' /\ ~signedOut'.since /\ signedOut'.amid = signedOut.amid
  BY <1>1 DEF IInv, Forms, NewForm, NoCall
<1>10. Requests'
  <2>1. \A s \in net \ {r} : s.kind \notin {"login", "register"}
    BY <1>1 DEF IInv, Requests, Expected, Single
  <2>2. \A s \in net' : Expected(s)'
    BY <1>1, <1>3, <1>6, <2>1 DEF IInv, Requests, Expected
  <2>3. \A s, t \in net' : s.kind = t.kind /\ s.kind \in Single => s = t
    BY <1>3, <1>6 DEF IInv, Requests, Single
  <2>4. refreshing' # 0 => \E s \in net' : s.id = refreshing' /\ s.kind = "refresh"
    BY <1>1, <1>3 DEF IInv, Requests
  <2> QED BY <2>2, <2>3, <2>4 DEF Requests
<1>11. LeavingOK'
  <2>1. form.state = "sent"
    BY <1>1 DEF IInv, Requests, Expected
  <2>2. \A s \in net : s.kind = "refresh" => s \in net'
    BY <1>1, <1>3
  <2> QED BY <1>1, <1>9, <2>1, <2>2 DEF IInv, LeavingOK, Staying, WaitingFor
<1>12. Quiet'
  BY <1>9 DEF Quiet
<1> QED BY <1>5, <1>7, <1>8, <1>9, <1>10, <1>11, <1>12 DEF IInv

-----------------------------------------------------------------------------
(* The theorems *)

LEMMA InitEstablishes == Init => IInv
<1> SUFFICES ASSUME Init
             PROVE  IInv
  OBVIOUS
<1>1. PICK account \in Accounts : tokens = <<Issued(account)>>
  BY DEF Init
<1>2. Issued(account) \in Sessions
  BY DEF Issued, Sessions
<1>3. Cookies
  BY <1>1, <1>2 DEF Init, Cookies
<1>4. Net
  BY FS_EmptySet DEF Init, Net
<1>5. Requests /\ LeavingOK /\ Quiet
  BY DEF Init, Requests, LeavingOK, Quiet, Staying, In
<1>6. Page
  BY DEF Init, Page, Hooks
<1>7. Forms
  BY DEF Init, Forms, NewForm, NoCall, Staying, In
<1> QED BY <1>3, <1>4, <1>5, <1>6, <1>7 DEF IInv

LEMMA AnswersKeep ==
  ASSUME IInv, Answers
  PROVE  IInv'
<1>1. PICK r \in net :
        \/ Serve(r)
        \/ MeAnswer(r) \/ MeFails(r) \/ RefreshAnswer(r) \/ RefreshFails(r)
        \/ LogoutAnswer(r) \/ LogoutEverywhereAnswer(r) \/ LogoutEverywhereFails(r)
        \/ ChangePasswordAnswer(r) \/ CallEnds(r) \/ CallRejected(r)
        \/ RegisterAnswer(r) \/ LoginAnswer(r) \/ LoginFails(r)
  BY DEF Answers
<1>2. CASE Serve(r)
  BY <1>2, Serving
<1>3. CASE MeAnswer(r)
  BY <1>3, MeAnswerKeeps
<1>4. CASE MeFails(r)
  BY <1>4, MeFailsKeeps
<1>5. CASE RefreshAnswer(r)
  BY <1>5, RefreshAnswerKeeps
<1>6. CASE RefreshFails(r)
  BY <1>6, RefreshFailsKeeps
<1>7. CASE LogoutAnswer(r)
  BY <1>7, SignOutEnds, SignOutGoesOn
<1>8. CASE LogoutEverywhereAnswer(r)
  BY <1>8, LogoutEverywhereAnswerKeeps
<1>9. CASE LogoutEverywhereFails(r)
  BY <1>9, LogoutEverywhereFailsKeeps
<1>10. CASE ChangePasswordAnswer(r)
  BY <1>10, ChangePasswordAnswerKeeps
<1>11. CASE CallEnds(r)
  BY <1>11, CallEndsKeeps
<1>12. CASE CallRejected(r)
  BY <1>12, CallRejectedKeeps
<1>13. CASE RegisterAnswer(r)
  BY <1>13, FormGoesOn DEF RegisterAnswer
<1>14. CASE LoginAnswer(r)
  BY <1>14, LoginAnswerKeeps
<1>15. CASE LoginFails(r)
  BY <1>15, FormGoesOn DEF LoginFails
<1> QED BY <1>1, <1>2, <1>3, <1>4, <1>5, <1>6, <1>7, <1>8, <1>9, <1>10, <1>11, <1>12, <1>13, <1>14, <1>15

LEMMA UserKeeps ==
  ASSUME IInv, User
  PROVE  IInv'
BY RetryCheckKeeps, ReadUserKeeps, RenewKeeps, LogoutKeeps, LogoutEverywhereKeeps, ChangePasswordKeeps,
   StartCallKeeps, SwitchViewKeeps, SubmitKeeps, KeepDraftKeeps DEF User

LEMMA StutteringKeeps ==
  ASSUME IInv, UNCHANGED vars
  PROVE  IInv'
<1>1. tokens' \in Seq(Sessions) /\ Len(tokens') = Len(tokens)
      /\ UNCHANGED <<jar, net, service, ui, form, call, settings, signedOut>>
  BY DEF vars, IInv, Cookies
<1> QED BY <1>1, SessionsChange

LEMMA NextKeeps == IInv /\ [Next]_vars => IInv'
<1> SUFFICES ASSUME IInv, [Next]_vars
             PROVE  IInv'
  OBVIOUS
<1>1. CASE CheckAuth
  BY <1>1, CheckAuthKeeps
<1>2. CASE Login
  BY <1>2, LoginKeeps
<1>3. CASE Answers
  BY <1>3, AnswersKeep
<1>4. CASE UpdateWarning
  BY <1>4, UpdateWarningKeeps
<1>5. CASE Revalidate
  BY <1>5, RevalidateKeeps
<1>6. CASE User
  BY <1>6, UserKeeps
<1>7. CASE Environment
  BY <1>7, Outside
<1>8. CASE UNCHANGED vars
  BY <1>8, StutteringKeeps
<1> QED BY <1>1, <1>2, <1>3, <1>4, <1>5, <1>6, <1>7, <1>8 DEF Next

LEMMA InvariantHolds == Spec => []IInv
<1>1. Init => IInv
  BY InitEstablishes
<1>2. IInv /\ [Next]_vars => IInv'
  BY NextKeeps
<1> QED BY <1>1, <1>2, PTL DEF Spec

(* The page never believes a session that was not issued, and from a        *)
(* sign-out until the next sign-in it holds no expiry, user or draft, and   *)
(* no cookie once the sign-out has ended, unless one of the named overlaps  *)
(* was under way: AuthService, useSession and the sign-in form together.    *)
THEOREM SessionHolds == Spec => []SessionInvariant
<1>1. IInv => SessionInvariant
  <2> SUFFICES ASSUME IInv
               PROVE  SessionInvariant
    OBVIOUS
  <2>1. TypeOK
    BY DEF IInv, Cookies, Net, Requests, Page, Hooks, Forms, TypeOK
  <2>2. SignOutHolds
    BY DEF IInv, Quiet, SignOutHolds, Gone
  <2> QED BY <2>1, <2>2 DEF SessionInvariant
<1> QED BY <1>1, InvariantHolds, PTL

(* The cookie leaves the browser only with the answer to a sign-out.        *)
LEMMA CookieLeaves ==
  ASSUME IInv, Next, jar # 0, jar' = 0
  PROVE  signedOut.since \/ signedOut.amid \/ settings = "leaving"
<1>1. \A r \in net : r.token \in Nat
                     /\ (r.answer = "ok" /\ r.kind \in {"login", "refresh", "change"} => r.token # 0)
  BY DEF IInv, Net, Message, Messages
<1>2. UNCHANGED jar \/ (\E r \in net : jar' = r.token /\ r.token # 0) \/ (\E r \in net : LogoutAnswer(r))
  <2>1. CASE CheckAuth \/ Login \/ UpdateWarning \/ Revalidate \/ User \/ Environment
    BY <2>1 DEF CheckAuth, Login, UpdateWarning, Revalidate, User, Environment, RetryCheck, ReadUser,
                Renew, Logout, LogoutEverywhere, ChangePassword, StartCall, SwitchView, Submit, KeepDraft,
                Lose, Age, RevokedElsewhere
  <2>2. CASE Answers
    BY <1>1, <2>2 DEF Answers, Serve, MeAnswer, MeFails, RefreshAnswer, RefreshFails, LogoutEverywhereAnswer,
                      LogoutEverywhereFails, ChangePasswordAnswer, CallEnds, CallRejected, RegisterAnswer,
                      LoginAnswer, LoginFails
  <2> QED BY <2>1, <2>2 DEF Next
<1>3. PICK r \in net : LogoutAnswer(r)
  BY <1>2
<1>4. leaving.state = "sent"
  BY <1>3 DEF IInv, Requests, Expected, LogoutAnswer
<1>5. signedOut.amid \in BOOLEAN
  BY DEF IInv, Forms
<1> QED BY <1>4, <1>5 DEF IInv, LeavingOK, Staying

(* The page forgets when the session ends: by a sign-out, a 401, a renewal  *)
(* that fails after one, or the clock.                                      *)
LEMMA SessionForgotten ==
  ASSUME IInv, Next, expiry # 0, expiry' = 0
  PROVE  \/ signedOut'.since \/ settings' = "leaving"
         \/ \E r \in net \ net' : r.answer = "401"
         \/ call.state = "renewing"
         \/ tokens[expiry].age >= 1
<1>1. \A r \in net : r.answer = "ok" /\ r.kind \in {"login", "refresh", "change"} => r.token # 0
  BY DEF IInv, Net, Message
<1>2. ~UNCHANGED expiry
  OBVIOUS
<1>3. CASE UpdateWarning
  BY <1>3 DEF UpdateWarning
<1>4. CASE Logout
  BY <1>4, SigningOutIsTyped DEF Logout
<1>5. ASSUME NEW r \in net, MeFails(r)
      PROVE  r \in net \ net' /\ r.answer = "401"
  BY <1>2, <1>5 DEF MeFails, DropsSession
<1>6. ASSUME NEW r \in net, CallRejected(r)
      PROVE  r \in net \ net' /\ r.answer = "401"
  BY <1>2, <1>6 DEF CallRejected
<1>7. ASSUME NEW r \in net, RefreshFails(r)
      PROVE  call.state = "renewing" \/ (r \in net \ net' /\ r.answer = "401")
  <2>1. CASE r.answer = "401"
    <3>1. \A q \in net' \ (net \ {r}) : q.kind = "logout"
      BY <1>7 DEF RefreshFails, AfterRefreshFails, Continue, Request
    <3> QED BY <1>7, <2>1, <3>1 DEF RefreshFails
  <2>2. CASE r.answer # "401"
    BY <1>2, <1>7, <2>2 DEF RefreshFails
  <2> QED BY <2>1, <2>2
<1>8. ASSUME NEW r \in net, LogoutAnswer(r)
      PROVE  signedOut'.since
  <2>1. settings = "leaving"
    BY <1>2, <1>8 DEF LogoutAnswer
  <2> QED BY <1>8, <2>1, SigningOutIsTyped DEF LogoutAnswer
<1>9. ASSUME NEW r \in net, LogoutEverywhereAnswer(r)
      PROVE  settings' = "leaving"
  BY <1>9 DEF LogoutEverywhereAnswer
<1>10. CASE Answers
  <2>1. PICK r \in net :
          MeFails(r) \/ CallRejected(r) \/ RefreshFails(r) \/ LogoutAnswer(r) \/ LogoutEverywhereAnswer(r)
    BY <1>1, <1>2, <1>10 DEF Answers, Serve, MeAnswer, RefreshAnswer, RecordSessionExpiry, service,
         LogoutEverywhereFails, ChangePasswordAnswer, CallEnds, RegisterAnswer, LoginAnswer, LoginFails
  <2> QED BY <1>5, <1>6, <1>7, <1>8, <1>9, <2>1
<1>11. CASE CheckAuth \/ Login \/ Revalidate \/ Environment \/ (User /\ ~Logout)
  BY <1>2, <1>11 DEF CheckAuth, Login, Revalidate, User, Environment, RetryCheck, ReadUser, service,
       Renew, LogoutEverywhere, ChangePassword, StartCall, SwitchView, Submit, KeepDraft, Lose, Age,
       RevokedElsewhere
<1> QED BY <1>3, <1>4, <1>10, <1>11 DEF Next, User

(* A sign-out never takes the cookie of a later sign-in, and a lost or      *)
(* failed request never costs the session: the two promises of AuthService  *)
(* and of the transport's renewal.                                          *)
THEOREM SessionIsKept == Spec => SessionSurvives
<1>1. IInv /\ [Next]_vars =>
        [jar # 0 /\ jar' = 0 => signedOut.since \/ signedOut.amid \/ settings = "leaving"]_vars
  BY CookieLeaves
<1>2. IInv /\ [Next]_vars =>
        [expiry # 0 /\ expiry' = 0 =>
           \/ signedOut'.since \/ settings' = "leaving"
           \/ \E r \in net \ net' : r.answer = "401"
           \/ call.state = "renewing"
           \/ tokens[expiry].age >= 1]_vars
  BY SessionForgotten
<1>3. Spec => LoginSurvivesLogout
  BY <1>1, InvariantHolds, PTL DEF LoginSurvivesLogout, Spec
<1>4. Spec => FailureKeepsSession
  BY <1>2, InvariantHolds, PTL DEF FailureKeepsSession, Spec
<1> QED BY <1>3, <1>4 DEF SessionSurvives
=============================================================================
