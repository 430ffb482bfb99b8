---------------------------- MODULE OAuthGrants ----------------------------
(***************************************************************************)
(* The OAuth authorization server for MCP clients                          *)
(* (services/oauth_provider.py): consent, one-time codes, rotating refresh *)
(* tokens, stateless access tokens, revocation and disconnection.          *)
(*                                                                         *)
(* A credential is bound to two counters: the account's token_version,     *)
(* which sign-out-everywhere and password changes bump, and the version of *)
(* the account/client grant, which revocation bumps.  Codes and refresh    *)
(* tokens are rows; access tokens are signed and never stored, so the set  *)
(* `access' is what clients hold, not a table.                             *)
(*                                                                         *)
(* Each endpoint runs in a worker thread.  Its SELECTs are not in a        *)
(* transaction; the first DML takes SQLite's writer lock until commit.     *)
(* The model therefore splits a handler exactly where it reads before its  *)
(* first DML.  The signed consent request and PKCE, which no state records,*)
(* and scopes, redirect URIs and rate limits are left out.                 *)
(***************************************************************************)
EXTENDS Integers, FiniteSets, FiniteSetsExt

CONSTANTS
    Handlers,     \* worker threads
    Users,        \* row ids of users; SQLite hands out the highest one again
    Clients,      \* client ids whose redirect URIs are allowed
    None,         \* no such row
    MaxAccounts,  \* bound: accounts ever created
    MaxBumps,     \* bound: token_version
    MaxGrant,     \* bound: grant version a revocation may start from
    MaxCreds      \* bound: credentials ever issued

ASSUME OAuthAssumptions ==
    /\ Users \subseteq Nat \ {0}
    /\ MaxAccounts \in Nat /\ MaxBumps \in Nat /\ MaxGrant \in Nat /\ MaxCreds \in Nat
    /\ None \notin Nat /\ None \notin [sub : Nat, tv : Nat]

VARIABLES
    users,       \* users: row id -> auth_subject and token_version
    accounts,    \* auth_subjects handed out
    registered,  \* oauth_clients
    grants,      \* oauth_grants: <<user, client>> -> version
    codes,       \* oauth_authorization_codes
    refreshes,   \* oauth_refresh_tokens
    access,      \* access tokens ever signed
    expired,     \* ids of credentials whose lifetime is over
    lastId,      \* ids handed out (secrets.token_urlsafe: never the same twice)
    pc,          \* handler -> what it does next
    task         \* handler -> what it carries between its steps

rowVars == <<users, accounts, registered, grants, codes, refreshes>>
vars == <<users, accounts, registered, grants, codes, refreshes, access, expired,
          lastId, pc, task>>

\* A row of either credential table.  acct and session record, for the
\* properties, the account and the token_version of the approving session.
Credential == [id : Nat, user : Users, client : Clients, tv : Nat, gv : Nat,
               acct : Nat, session : Nat]

AccessToken == [id : Nat, sub : Nat, client : Clients, tv : Nat, gv : Nat,
                from : Nat, acct : Nat, session : Nat]

Task == [user : Users \cup {None}, sub : Nat, client : Clients \cup {None},
         tv : Nat, gv : Nat, cred : Nat]

NoTask == [user |-> None, sub |-> 0, client |-> None, tv |-> 0, gv |-> 0, cred |-> 0]

Steps == {"idle", "approve", "exchange", "rotate", "revoke_refresh", "revoke_access",
          "disconnect"}

Pair(k) == <<k.user, k.client>>

\* The checks of _load_refresh and _issue_tokens: the account is at the
\* token_version and the grant is at the version the credential carries.
MutUsableAfterSignOut(k) ==
    users[k.user] # None /\ grants[Pair(k)] # None /\ k.gv = grants[Pair(k)]
Usable(k) ==
    /\ users[k.user] # None
    /\ k.tv = users[k.user].tv
    /\ grants[Pair(k)] # None
    /\ k.gv = grants[Pair(k)]

\* user_from_mcp_access_token: the account with the token's subject.
Holder(t) == {u \in Users : users[u] # None /\ users[u].sub = t.sub}

VersionsMatch(t) ==
    \E u \in Holder(t) : /\ t.tv = users[u].tv
                         /\ grants[<<u, t.client>>] # None
                         /\ t.gv = grants[<<u, t.client>>]

Valid(t) == t.id \notin expired /\ VersionsMatch(t)

\* connected_apps: clients with a refresh token that can still be used.
ConnectedApps(u) ==
    {c \in Clients : \E r \in refreshes : /\ r.user = u /\ r.client = c
                                         /\ r.id \notin expired /\ Usable(r)}

-----------------------------------------------------------------------------
(* Accounts, as far as credentials depend on them                          *)

Idle(h) == pc' = [pc EXCEPT ![h] = "idle"] /\ task' = [task EXCEPT ![h] = NoTask]

Start(h, step, t) ==
    /\ pc[h] = "idle"
    /\ pc' = [pc EXCEPT ![h] = step]
    /\ task' = [task EXCEPT ![h] = t]

\* register: a fresh auth_subject on the next row id, which is one more than
\* the highest id in the table.
Register(u) ==
    /\ accounts < MaxAccounts
    /\ u = Max({v \in Users : users[v] # None} \cup {0}) + 1
    /\ users' = [users EXCEPT ![u] = [sub |-> accounts + 1, tv |-> 0]]
    /\ accounts' = accounts + 1
    /\ UNCHANGED <<registered, grants, codes, refreshes, access, expired, lastId, pc, task>>

\* delete_account: the foreign keys take grants, codes and refresh tokens along.
DeleteAccount(u) ==
    /\ users[u] # None
    /\ users' = [users EXCEPT ![u] = None]
    /\ grants' = [p \in Users \X Clients |-> IF p[1] = u THEN None ELSE grants[p]]
    /\ codes' = {k \in codes : k.user # u}
    /\ refreshes' = {r \in refreshes : r.user # u}
    /\ UNCHANGED <<accounts, registered, access, expired, lastId, pc, task>>

\* logout_everywhere, change_password and reset_password: an UPDATE by the
\* expression token_version + 1.
MutVersionIsFlag(version) == 1 - version
NextTokenVersion(version) == version + 1

BumpTokenVersion(u) ==
    /\ users[u] # None
    /\ users[u].tv < MaxBumps
    /\ users' = [users EXCEPT ![u].tv = NextTokenVersion(@)]
    /\ UNCHANGED <<accounts, registered, grants, codes, refreshes, access, expired,
                   lastId, pc, task>>

\* register_client
RegisterClient(c) ==
    /\ c \notin registered
    /\ registered' = registered \cup {c}
    /\ UNCHANGED <<users, accounts, grants, codes, refreshes, access, expired, lastId,
                   pc, task>>

-----------------------------------------------------------------------------
(* Consent                                                                 *)

\* decide_consent: get_current_user has loaded the session's account.
StartConsent(h, u, c) ==
    /\ users[u] # None
    /\ c \in registered
    /\ Start(h, "approve", [NoTask EXCEPT !.user = u, !.sub = users[u].sub,
                                          !.tv = users[u].tv, !.client = c])
    /\ UNCHANGED <<rowVars, access, expired, lastId>>

GrantVersion(p) == IF grants[p] = None THEN 0 ELSE grants[p]

Approval(h) ==
    [id |-> lastId + 1, user |-> task[h].user, client |-> task[h].client,
     tv |-> task[h].tv, gv |-> GrantVersion(Pair(task[h])),
     acct |-> task[h].sub, session |-> task[h].tv]

\* The conditional UPDATE of users in approve_authorization.
SessionIsCurrent(h) ==
    users[task[h].user] # None /\ users[task[h].user].tv = task[h].tv

\* approve_authorization: one transaction from the conditional UPDATE on.
Approve(h) ==
    /\ pc[h] = "approve"
    /\ IF SessionIsCurrent(h)
       THEN /\ lastId < MaxCreds
            /\ codes' = codes \cup {Approval(h)}
            /\ grants' = [grants EXCEPT ![Pair(task[h])] = GrantVersion(Pair(task[h]))]
            /\ lastId' = lastId + 1
       ELSE UNCHANGED <<codes, grants, lastId>>
    /\ Idle(h)
    /\ UNCHANGED <<users, accounts, registered, refreshes, access, expired>>

-----------------------------------------------------------------------------
(* The token endpoint                                                      *)

\* create_mcp_access_token, signed for the row's account before the commit.
Signed(k) ==
    [id |-> lastId + 1, sub |-> users[k.user].sub, client |-> k.client,
     tv |-> users[k.user].tv, gv |-> k.gv,
     from |-> k.id, acct |-> k.acct, session |-> k.session]

\* _issue_tokens: the new refresh token inherits what the credential carries.
IssueTokens(k) ==
    /\ lastId + 1 < MaxCreds
    /\ access' = access \cup {Signed(k)}
    /\ lastId' = lastId + 2

Rotated(k) == [k EXCEPT !.id = lastId + 2]

\* load_authorization_code and the SDK's checks.
PresentCode(h, k) ==
    /\ k.id \notin expired
    /\ Start(h, "exchange", [NoTask EXCEPT !.cred = k.id, !.client = k.client])
    /\ UNCHANGED <<rowVars, access, expired, lastId>>

\* The row the DELETE ... RETURNING of a handler finds.
Presented(h, table) == {k \in table : k.id = task[h].cred /\ k.client = task[h].client}

MutCodeStays(k) == codes
ConsumeCode(k) == codes \ {k}

\* _exchange_code and _issue_tokens: one transaction.  Any refusal rolls the
\* DELETE back.
ExchangeCode(h) ==
    /\ pc[h] = "exchange"
    /\ \/ \E k \in Presented(h, codes) :
            /\ k.id \notin expired /\ Usable(k)
            /\ codes' = ConsumeCode(k)
            /\ refreshes' = refreshes \cup {Rotated(k)}
            /\ IssueTokens(k)
       \/ /\ \A k \in Presented(h, codes) : k.id \in expired \/ ~Usable(k)
          /\ UNCHANGED <<codes, refreshes, access, lastId>>
    /\ Idle(h)
    /\ UNCHANGED <<users, accounts, registered, grants, expired>>

\* load_refresh_token, for the token endpoint (which also refuses an expired
\* token) or for the revocation endpoint.
PresentRefresh(h, r, step) ==
    /\ Usable(r)
    /\ step = "rotate" => r.id \notin expired
    /\ Start(h, step, [NoTask EXCEPT !.cred = r.id, !.client = r.client, !.gv = r.gv,
                                     !.sub = users[r.user].sub])
    /\ UNCHANGED <<rowVars, access, expired, lastId>>

Rotate(k) == (refreshes \ {k}) \cup {Rotated(k)}

\* _rotate_refresh and _issue_tokens
RotateRefresh(h) ==
    /\ pc[h] = "rotate"
    /\ \/ \E k \in Presented(h, refreshes) :
            /\ k.id \notin expired /\ Usable(k)
            /\ refreshes' = Rotate(k)
            /\ IssueTokens(k)
       \/ /\ \A k \in Presented(h, refreshes) : k.id \in expired \/ ~Usable(k)
          /\ UNCHANGED <<refreshes, access, lastId>>
    /\ Idle(h)
    /\ UNCHANGED <<users, accounts, registered, grants, codes, expired>>

-----------------------------------------------------------------------------
(* Revocation                                                              *)

\* The three deletions of a revocation, in its transaction.
MutEndAccessTokensOnly(p, version) ==
    /\ grants' = [grants EXCEPT ![p] = version]
    /\ UNCHANGED <<codes, refreshes>>
MutEndUncommitted(p, version) == UNCHANGED <<grants, codes, refreshes>>
EndGrant(p, version) ==
    /\ grants' = [grants EXCEPT ![p] = version]
    /\ codes' = {k \in codes : Pair(k) # p}
    /\ refreshes' = {r \in refreshes : Pair(r) # p}

\* _revoke with a refresh token: the DELETE ... RETURNING finds the row, and
\* the conditional UPDATE of the grant decides whether to keep or roll back.
RevokeRefresh(h) ==
    /\ pc[h] = "revoke_refresh"
    /\ \/ \E k \in Presented(h, refreshes) : /\ Usable(k)
                                            /\ EndGrant(Pair(k), grants[Pair(k)] + 1)
       \/ /\ \A k \in Presented(h, refreshes) : ~Usable(k)
          /\ UNCHANGED <<grants, codes, refreshes>>
    /\ Idle(h)
    /\ UNCHANGED <<users, accounts, registered, access, expired, lastId>>

\* _load_access, and the second look at the token at the start of _revoke.
PresentAccess(h, t) ==
    /\ Valid(t)
    /\ \E u \in Holder(t) :
         /\ grants[<<u, t.client>>] < MaxGrant
         /\ Start(h, "revoke_access",
                  [NoTask EXCEPT !.user = u, !.sub = t.sub, !.tv = t.tv, !.client = t.client,
                                 !.gv = t.gv])
    /\ UNCHANGED <<rowVars, access, expired, lastId>>

\* The conditional UPDATE: the grant of an account with the token's subject
\* and token_version, still at the token's grant version.
MutAnyGrant(h) == {u \in Users : users[u] # None /\ grants[<<u, task[h].client>>] # None}
RevocableGrants(h) ==
    {u \in Users : /\ users[u] # None
                   /\ users[u].sub = task[h].sub /\ users[u].tv = task[h].tv
                   /\ grants[<<u, task[h].client>>] = task[h].gv}

RevokeAccess(h) ==
    /\ pc[h] = "revoke_access"
    /\ LET p == Pair(task[h])
       IN IF RevocableGrants(h) # {}
          THEN EndGrant(p, grants[p] + 1)
          ELSE UNCHANGED <<grants, codes, refreshes>>
    /\ Idle(h)
    /\ UNCHANGED <<users, accounts, registered, access, expired, lastId>>

\* disconnect_app reads the grant in its own statement ...
StartDisconnect(h, u, c) ==
    /\ users[u] # None
    /\ grants[<<u, c>>] # None
    /\ grants[<<u, c>>] < MaxGrant
    /\ Start(h, "disconnect", [NoTask EXCEPT !.user = u, !.sub = users[u].sub, !.client = c,
                                             !.gv = grants[<<u, c>>]])
    /\ UNCHANGED <<rowVars, access, expired, lastId>>

\* ... and writes the version it read plus one.  A grant that is gone by then
\* makes the flush fail.
MutDisconnectKeepsVersion(h) == task[h].gv
NextGrantVersion(h) == task[h].gv + 1

CommitDisconnect(h) ==
    /\ pc[h] = "disconnect"
    /\ LET p == Pair(task[h])
       IN IF grants[p] # None
          THEN EndGrant(p, NextGrantVersion(h))
          ELSE UNCHANGED <<grants, codes, refreshes>>
    /\ Idle(h)
    /\ UNCHANGED <<users, accounts, registered, access, expired, lastId>>

-----------------------------------------------------------------------------
\* The writer lock is not free within busy_timeout, or the process dies before
\* the commit: nothing is written.
CommitFails(h) ==
    /\ pc[h] # "idle"
    /\ Idle(h)
    /\ UNCHANGED <<rowVars, access, expired, lastId>>

\* A lifetime ends: five minutes for a code, an hour for an access token, thirty
\* days for a refresh token, which therefore outlives every access token signed
\* before it.
Expire(k) ==
    /\ k.id \notin expired
    /\ k \in refreshes => \A t \in access : t.id < k.id => t.id \in expired
    /\ expired' = expired \cup {k.id}
    /\ UNCHANGED <<rowVars, access, lastId, pc, task>>

Init ==
    /\ users = [u \in Users |-> None]
    /\ accounts = 0
    /\ registered = {}
    /\ grants = [p \in Users \X Clients |-> None]
    /\ codes = {} /\ refreshes = {} /\ access = {} /\ expired = {}
    /\ lastId = 0
    /\ pc = [h \in Handlers |-> "idle"]
    /\ task = [h \in Handlers |-> NoTask]

AccountStep ==
    \/ \E u \in Users : Register(u) \/ DeleteAccount(u) \/ BumpTokenVersion(u)
    \/ \E c \in Clients : RegisterClient(c)
    \/ \E k \in codes \cup refreshes \cup access : Expire(k)

Begin(h) ==
    \/ \E u \in Users, c \in Clients : StartConsent(h, u, c) \/ StartDisconnect(h, u, c)
    \/ \E k \in codes : PresentCode(h, k)
    \/ \E r \in refreshes, step \in {"rotate", "revoke_refresh"} : PresentRefresh(h, r, step)
    \/ \E t \in access : PresentAccess(h, t)

Finish(h) ==
    \/ Approve(h)
    \/ ExchangeCode(h)
    \/ RotateRefresh(h)
    \/ RevokeRefresh(h)
    \/ RevokeAccess(h)
    \/ CommitDisconnect(h)
    \/ CommitFails(h)

\* No request is being served; nothing has to happen.
Quiescent == (\A h \in Handlers : pc[h] = "idle") /\ UNCHANGED vars

Next == AccountStep \/ (\E h \in Handlers : Begin(h) \/ Finish(h)) \/ Quiescent

Spec == Init /\ [][Next]_vars

-----------------------------------------------------------------------------
(* What holds however the handlers interleave                              *)

\* The tables, tokens and handler locals have the columns' types.
TypeOK ==
    /\ users \in [Users -> [sub : Nat, tv : Nat] \cup {None}]
    /\ accounts \in Nat
    /\ registered \subseteq Clients
    /\ grants \in [Users \X Clients -> Nat \cup {None}]
    /\ codes \subseteq Credential
    /\ refreshes \subseteq Credential
    /\ access \subseteq AccessToken
    /\ expired \subseteq Nat
    /\ lastId \in Nat
    /\ pc \in [Handlers -> Steps]
    /\ task \in [Handlers -> Task]

\* A code or a refresh token is redeemed at most once, even when two requests
\* have loaded it.  (DELETE ... RETURNING in _exchange_code and _rotate_refresh)
RedeemedOnce == \A s, t \in access : s.from = t.from => s = t

\* Every stored code and refresh token is at the version of its grant: whatever
\* moves the version removes the older rows in the same transaction, and a late
\* exchange never stores a token under a version that has passed.
StoredAtGrantVersion ==
    \A k \in codes \cup refreshes : /\ users[k.user] # None
                                    /\ grants[Pair(k)] = k.gv

\* Both hold in every state.
GrantInvariant == TypeOK /\ StoredAtGrantVersion

\* A valid access token goes back to a session that is still valid: "global
\* sign-out, password changes and resets also invalidate previous approvals and
\* tokens, including exchanges already in progress".  (approve_authorization
\* keeps the session's version, _issue_tokens signs before its commit)
ApprovedByCurrentSession ==
    \A t \in access : Valid(t) => \A u \in Holder(t) : users[u].tv = t.session

\* "A delayed revoke must not affect a reauthorized client or a replacement
\* account": a revocation by an access token only removes credentials of the
\* token's own account and grant version.
RevokeIsExact ==
    [][\A h \in Handlers :
          (pc[h] = "revoke_access" /\ pc'[h] = "idle") =>
             \A k \in (codes \cup refreshes) \ (codes' \cup refreshes') :
                /\ users[k.user].sub = task[h].sub
                /\ k.gv = task[h].gv]_vars

-----------------------------------------------------------------------------
(* What holds while handlers do not overlap                                *)

\* "Revoke one client's access to this account, including access tokens already
\* issued": after disconnect_app has committed, no token the client holds works.
DisconnectEndsAccess ==
    [][\A h \in Handlers :
          (CommitDisconnect(h) /\ grants[Pair(task[h])] # None) =>
             \A t \in access :
                (t.sub = task[h].sub /\ t.client = task[h].client) => ~Valid(t)']_vars

\* "without reviving old tokens": an access token that has been revoked never
\* becomes valid again.
RevokedForGood == [][\A t \in access : ~VersionsMatch(t) => ~VersionsMatch(t)']_vars

\* An app that can use the account is listed under connected apps, so that the
\* user can disconnect it.
ValidMeansListed ==
    \A t \in access : Valid(t) => \A u \in Holder(t) : t.client \in ConnectedApps(u)

\* A token cannot become another account's credential when SQLite reuses a
\* deleted user's numeric id: what an account approved gives access to that
\* account only.
ApprovedByHolder == \A t \in access : Valid(t) => t.sub = t.acct

=============================================================================
