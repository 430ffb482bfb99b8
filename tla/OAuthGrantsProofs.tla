------------------------- MODULE OAuthGrantsProofs -------------------------
(***************************************************************************)
(* Theorems about OAuthGrants for every number of worker threads, users,   *)
(* clients and credentials.                                                *)
(***************************************************************************)
EXTENDS OAuthGrants, TLAPS

Stored == codes \cup refreshes

\* auth_subjects are handed out once.
SubjectsUnique ==
    /\ \A u \in Users : users[u] # None => users[u].sub <= accounts
    /\ \A u, v \in Users :
          (users[u] # None /\ users[v] # None /\ users[u].sub = users[v].sub) => u = v

\* Ids of credentials are handed out once, and a row that has been redeemed is
\* in neither table.
IdsUnique ==
    /\ \A k \in Stored \cup access : k.id <= lastId
    /\ \A k, l \in codes : k.id = l.id => k = l
    /\ \A k, l \in refreshes : k.id = l.id => k = l
    /\ \A k \in codes, r \in refreshes : k.id # r.id
    /\ \A t \in access : /\ t.from <= lastId
                         /\ t.sub <= accounts
                         /\ \A k \in Stored : k.id # t.from /\ k.id # t.id

\* A credential carries the token_version of the session that approved it.
SessionsKept == \A k \in Stored \cup access : k.session = k.tv

\* What a handler carries: an account it has seen under its subject, which no
\* other row can have.
TaskOK(h) ==
    /\ pc[h] # "idle" => task[h].client \in Clients
    /\ pc[h] \in {"approve", "revoke_access", "disconnect"} => task[h].user \in Users
    /\ pc[h] = "approve" => task[h].sub \in Nat
    /\ pc[h] \in {"revoke_access", "disconnect"} =>
          /\ task[h].sub <= accounts
          /\ \A u \in Users : (users[u] # None /\ users[u].sub = task[h].sub)
                                 => u = task[h].user

TasksOK == \A h \in Handlers : TaskOK(h)

\* The inductive invariant.
IInv ==
    /\ TypeOK /\ StoredAtGrantVersion /\ RedeemedOnce
    /\ SubjectsUnique /\ IdsUnique /\ SessionsKept /\ TasksOK
-----------------------------------------------------------------------------
(* The records that handlers build                                         *)

LEMMA NoTaskType == NoTask \in Task
  BY DEF NoTask, Task

\* A rotated token differs from the credential it replaces only in its id.
LEMMA RotatedIs ==
    ASSUME NEW k \in Credential, lastId \in Nat
    PROVE  /\ Rotated(k) \in Credential
           /\ Rotated(k).id = lastId + 2
           /\ Rotated(k).gv = k.gv
           /\ Rotated(k).tv = k.tv
           /\ Rotated(k).session = k.session
           /\ Rotated(k).user = k.user
           /\ Rotated(k).client = k.client
  BY DEF Rotated, Credential

\* An access token is signed for the account and the token_version of the row.
LEMMA SignedIs ==
    ASSUME TypeOK, NEW k \in Credential, Usable(k)
    PROVE  /\ Signed(k) \in AccessToken
           /\ Signed(k).id = lastId + 1
           /\ Signed(k).from = k.id
           /\ Signed(k).sub = users[k.user].sub
           /\ Signed(k).tv = k.tv
           /\ Signed(k).gv = k.gv
           /\ Signed(k).client = k.client
           /\ Signed(k).session = k.session
  <1>1. users[k.user] \in [sub : Nat, tv : Nat]
    BY DEF TypeOK, Usable, Credential
  <1> QED BY <1>1 DEF Signed, AccessToken, Credential, TypeOK, Usable

LEMMA PairType == ASSUME NEW k \in Credential PROVE Pair(k) \in Users \X Clients
  BY DEF Pair, Credential

LEMMA StoredType == TypeOK => Stored \subseteq Credential
  BY DEF TypeOK, Stored

-----------------------------------------------------------------------------
(* Steps, by what they do to the tables                                    *)

\* A handler stops, and the accounts are as they were.
LEMMA IdleTasks ==
    ASSUME IInv, NEW h \in Handlers, Idle(h), UNCHANGED <<users, accounts>>
    PROVE  /\ pc' \in [Handlers -> Steps]
           /\ task' \in [Handlers -> Task]
           /\ TasksOK'
  <1>1. pc' \in [Handlers -> Steps] /\ task' \in [Handlers -> Task]
    BY NoTaskType DEF IInv, TypeOK, Idle, Steps
  <1>2. pc'[h] = "idle"
    BY DEF IInv, TypeOK, Idle
  <1>3. ASSUME NEW g \in Handlers, g # h PROVE pc'[g] = pc[g] /\ task'[g] = task[g]
    BY <1>3 DEF IInv, TypeOK, Idle
  <1>4. ASSUME NEW g \in Handlers PROVE TaskOK(g)'
    BY <1>2, <1>3 DEF IInv, TasksOK, TaskOK
  <1> QED BY <1>1, <1>4 DEF TasksOK

\* A handler reads and takes on a task: nothing is written.
LEMMA StartStep ==
    ASSUME IInv, NEW h \in Handlers, NEW step \in Steps, NEW t \in Task, Start(h, step, t),
           UNCHANGED <<rowVars, access, expired, lastId>>,
           t.client \in Clients,
           step \in {"approve", "revoke_access", "disconnect"} => t.user \in Users,
           step \in {"revoke_access", "disconnect"} =>
              /\ t.sub <= accounts
              /\ \A u \in Users : (users[u] # None /\ users[u].sub = t.sub) => u = t.user
    PROVE  IInv'
  <1>1. /\ pc' \in [Handlers -> Steps]
        /\ task' \in [Handlers -> Task]
        /\ pc'[h] = step /\ task'[h] = t
        /\ \A g \in Handlers : g # h => pc'[g] = pc[g] /\ task'[g] = task[g]
    BY DEF IInv, TypeOK, Start
  <1>2. UNCHANGED <<users, accounts, registered, grants, codes, refreshes, access, expired,
                    lastId>>
    BY DEF rowVars
  <1>3. TaskOK(h)'
    BY <1>1, <1>2 DEF TaskOK, Task
  <1>4. \A g \in Handlers : g # h => TaskOK(g)'
    BY <1>1, <1>2 DEF IInv, TasksOK, TaskOK
  <1>5. TypeOK'
    BY <1>1, <1>2 DEF IInv, TypeOK
  <1>6. (StoredAtGrantVersion /\ RedeemedOnce /\ SubjectsUnique /\ IdsUnique /\ SessionsKept)'
    BY <1>2 DEF IInv, StoredAtGrantVersion, RedeemedOnce, SubjectsUnique, IdsUnique,
                SessionsKept, Stored, Pair
  <1> QED BY <1>3, <1>4, <1>5, <1>6 DEF IInv, TasksOK

\* A handler stops and writes nothing.
LEMMA StopStep ==
    ASSUME IInv, NEW h \in Handlers, Idle(h),
           UNCHANGED <<rowVars, access, expired, lastId>>
    PROVE  IInv'
  <1>1. UNCHANGED <<users, accounts, registered, grants, codes, refreshes, access, expired,
                    lastId>>
    BY DEF rowVars
  <1>2. TypeOK' /\ TasksOK'
    BY <1>1, IdleTasks DEF IInv, TypeOK
  <1> QED BY <1>1, <1>2 DEF IInv, StoredAtGrantVersion, RedeemedOnce, SubjectsUnique,
                            IdsUnique, SessionsKept, Stored, Pair

\* A grant moves to another version, and its codes and refresh tokens go: what
\* is left in the tables belongs to other grants.
LEMMA EndGrantStep ==
    ASSUME IInv, NEW h \in Handlers, NEW p \in Users \X Clients, NEW n \in Nat,
           EndGrant(p, n), Idle(h),
           UNCHANGED <<users, accounts, registered, access, expired, lastId>>
    PROVE  IInv'
  <1>1. /\ codes' \subseteq codes /\ refreshes' \subseteq refreshes
        /\ \A k \in Stored' : k \in Stored /\ Pair(k) # p
    BY DEF EndGrant, Stored
  <1>2. TypeOK' /\ TasksOK'
    <2>1. grants' \in [Users \X Clients -> Nat \cup {None}]
      BY DEF IInv, TypeOK, EndGrant
    <2> QED BY <1>1, <2>1, IdleTasks DEF IInv, TypeOK
  <1>3. StoredAtGrantVersion'
    <2> SUFFICES ASSUME NEW k \in Stored'
                 PROVE  users'[k.user] # None /\ grants'[Pair(k)] = k.gv
      BY DEF StoredAtGrantVersion, Stored, Pair
    <2>1. k \in Stored /\ Pair(k) # p /\ Pair(k) \in Users \X Clients
      BY <1>1, StoredType, PairType DEF IInv
    <2>2. users[k.user] # None /\ grants[Pair(k)] = k.gv
      BY <2>1 DEF IInv, StoredAtGrantVersion, Stored
    <2>3. grants'[Pair(k)] = grants[Pair(k)]
      BY <2>1 DEF IInv, TypeOK, EndGrant
    <2> QED BY <2>2, <2>3
  <1>4. IdsUnique' /\ SessionsKept'
    BY <1>1 DEF IInv, IdsUnique, SessionsKept, Stored
  <1> QED BY <1>2, <1>3, <1>4 DEF IInv, RedeemedOnce, SubjectsUnique

\* One credential is consumed for one access token and one refresh token.
LEMMA IssueStep ==
    ASSUME IInv, NEW h \in Handlers, NEW k \in Stored, Usable(k), IssueTokens(k), Idle(h),
           codes' \subseteq codes \ {k},
           refreshes' \subseteq (refreshes \ {k}) \cup {Rotated(k)},
           UNCHANGED <<users, accounts, registered, grants, expired>>
    PROVE  IInv'
  <1> DEFINE r == Rotated(k)
             t == Signed(k)
  <1>1. k \in Credential /\ lastId \in Nat /\ k.id \in Nat /\ k.id <= lastId
    BY StoredType DEF IInv, TypeOK, Credential, IdsUnique
  <1>2. /\ r \in Credential /\ r.id = lastId + 2 /\ r.gv = k.gv /\ r.tv = k.tv
        /\ r.session = k.session /\ r.user = k.user /\ r.client = k.client
    BY <1>1, RotatedIs
  <1>3. /\ t \in AccessToken /\ t.id = lastId + 1 /\ t.from = k.id /\ t.tv = k.tv
        /\ t.session = k.session /\ t.sub = users[k.user].sub
    BY <1>1, SignedIs DEF IInv
  <1>4. access' = access \cup {t} /\ lastId' = lastId + 2
    BY DEF IssueTokens
  <1>5. \A l \in Stored' : l = r \/ (l \in Stored /\ l # k)
    BY DEF Stored
  <1>6. \A l \in Stored : l.id \in Nat /\ l.id <= lastId
    BY StoredType DEF IInv, TypeOK, Credential, IdsUnique
  <1>7. \A a \in access : a.id \in Nat /\ a.from \in Nat /\ a.id <= lastId /\ a.from <= lastId
    BY DEF IInv, TypeOK, AccessToken, IdsUnique
  <1>8. \A l \in Stored : l.id = k.id => l = k
    BY DEF IInv, IdsUnique, Stored
  <1>9. users[k.user] # None /\ k.user \in Users /\ users[k.user].sub <= accounts
    BY <1>1 DEF IInv, SubjectsUnique, Usable, Credential
  <1> HIDE DEF r, t
  <1>10. TypeOK' /\ TasksOK'
    <2>1. codes' \subseteq Credential /\ refreshes' \subseteq Credential
      BY <1>2 DEF IInv, TypeOK, r
    <2>2. access' \subseteq AccessToken /\ lastId' \in Nat
      BY <1>1, <1>3, <1>4 DEF IInv, TypeOK
    <2> QED BY <2>1, <2>2, IdleTasks DEF IInv, TypeOK
  <1>11. StoredAtGrantVersion'
    <2> SUFFICES ASSUME NEW l \in Stored'
                 PROVE  users[l.user] # None /\ grants[Pair(l)] = l.gv
      BY DEF StoredAtGrantVersion, Stored, Pair
    <2>1. CASE l = r
      BY <2>1, <1>2 DEF Usable, Pair
    <2>2. CASE l # r
      BY <2>2, <1>5 DEF IInv, StoredAtGrantVersion, Stored
    <2> QED BY <2>1, <2>2
  <1>12. RedeemedOnce'
    <2>1. \A a \in access : a.from # k.id
      BY DEF IInv, IdsUnique
    <2> QED BY <1>3, <1>4, <2>1 DEF IInv, RedeemedOnce
  <1>13. IdsUnique'
    <2>1. \A l \in Stored' \cup access' : l.id <= lastId'
      BY <1>1, <1>2, <1>3, <1>4, <1>5, <1>6, <1>7
    <2>2. \A l, m \in codes' : l.id = m.id => l = m
      BY DEF IInv, IdsUnique
    <2>3. \A l, m \in refreshes' : l.id = m.id => l = m
      <3>1. \A l \in refreshes' : l = r \/ l \in refreshes
        BY DEF r
      <3>2. \A l \in refreshes : l.id # r.id
        BY <1>1, <1>2, <1>6 DEF Stored
      <3> QED BY <3>1, <3>2 DEF IInv, IdsUnique
    <2>4. \A l \in codes', m \in refreshes' : l.id # m.id
      <3>1. \A m \in refreshes' : m = r \/ m \in refreshes
        BY DEF r
      <3>2. \A l \in codes : l.id # r.id
        BY <1>1, <1>2, <1>6 DEF Stored
      <3> QED BY <3>1, <3>2 DEF IInv, IdsUnique
    <2>5. ASSUME NEW a \in access'
          PROVE  /\ a.from <= lastId' /\ a.sub <= accounts'
                 /\ \A l \in Stored' : l.id # a.from /\ l.id # a.id
      <3>1. CASE a = t
        <4>1. ASSUME NEW l \in Stored' PROVE l.id # k.id /\ l.id # lastId + 1
          BY <1>1, <1>2, <1>5, <1>6, <1>8
        <4> QED BY <3>1, <4>1, <1>1, <1>3, <1>4, <1>9
      <3>2. CASE a # t
        <4>1. a \in access
          BY <3>2, <1>4
        <4>2. \A l \in Stored : l.id # a.from /\ l.id # a.id
          BY <4>1 DEF IInv, IdsUnique
        <4>3. a.sub <= accounts
          BY <4>1 DEF IInv, IdsUnique
        <4> QED BY <4>1, <4>2, <4>3, <1>1, <1>2, <1>4, <1>5, <1>7
      <3> QED BY <3>1, <3>2
    <2> QED BY <2>1, <2>2, <2>3, <2>4, <2>5 DEF IdsUnique, Stored
  <1>14. SessionsKept'
    <2>1. k.session = k.tv
      BY DEF IInv, SessionsKept
    <2> QED BY <2>1, <1>2, <1>3, <1>4, <1>5 DEF IInv, SessionsKept, Stored
  <1> QED BY <1>10, <1>11, <1>12, <1>13, <1>14 DEF IInv, SubjectsUnique
-----------------------------------------------------------------------------
(* Accounts and lifetimes                                                  *)

LEMMA RegisterStep ==
    ASSUME IInv, NEW u \in Users, Register(u)
    PROVE  IInv'
  <1> DEFINE a == [sub |-> accounts + 1, tv |-> 0]
  <1>1. /\ users' \in [Users -> [sub : Nat, tv : Nat] \cup {None}]
        /\ users'[u] # None /\ users'[u].sub = accounts + 1
        /\ \A v \in Users : v # u => users'[v] = users[v]
    <2>1. a \in [sub : Nat, tv : Nat] /\ a.sub = accounts + 1
      BY DEF IInv, TypeOK
    <2>2. users' = [users EXCEPT ![u] = a]
      BY DEF Register
    <2> HIDE DEF a
    <2> QED BY <2>1, <2>2, OAuthAssumptions DEF IInv, TypeOK
  <1>2. /\ accounts \in Nat /\ accounts' = accounts + 1
        /\ UNCHANGED <<registered, grants, codes, refreshes, access, expired, lastId, pc, task>>
    BY DEF IInv, TypeOK, Register
  <1>3. \A v \in Users : users[v] # None => users[v].sub \in Nat /\ users[v].sub <= accounts
    BY DEF IInv, TypeOK, SubjectsUnique
  <1>4. TypeOK'
    BY <1>1, <1>2 DEF IInv, TypeOK
  <1>5. StoredAtGrantVersion'
    <2>1. \A k \in Stored : users'[k.user] # None
      BY <1>1, StoredType DEF IInv, StoredAtGrantVersion, Credential, Stored
    <2> QED BY <2>1, <1>2 DEF IInv, StoredAtGrantVersion, Stored, Pair
  <1>6. SubjectsUnique'
    BY <1>1, <1>2, <1>3 DEF IInv, SubjectsUnique
  <1>7. IdsUnique'
    <2>1. \A t \in access : t.sub \in Nat /\ t.sub <= accounts
      BY DEF IInv, TypeOK, AccessToken, IdsUnique
    <2> QED BY <2>1, <1>2 DEF IInv, IdsUnique, Stored
  <1>8. ASSUME NEW h \in Handlers PROVE TaskOK(h)'
    <2>1. task[h].sub \in Nat
      BY DEF IInv, TypeOK, Task
    <2> QED BY <2>1, <1>1, <1>2 DEF IInv, TasksOK, TaskOK
  <1> QED BY <1>2, <1>4, <1>5, <1>6, <1>7, <1>8
      DEF IInv, TasksOK, RedeemedOnce, SessionsKept, Stored

LEMMA DeleteAccountStep ==
    ASSUME IInv, NEW u \in Users, DeleteAccount(u)
    PROVE  IInv'
  <1>1. /\ users' \in [Users -> [sub : Nat, tv : Nat] \cup {None}]
        /\ users'[u] = None
        /\ \A v \in Users : v # u => users'[v] = users[v]
    BY DEF IInv, TypeOK, DeleteAccount
  <1>2. /\ grants' \in [Users \X Clients -> Nat \cup {None}]
        /\ \A p \in Users \X Clients : p[1] # u => grants'[p] = grants[p]
    BY DEF IInv, TypeOK, DeleteAccount
  <1>3. /\ codes' \subseteq codes /\ refreshes' \subseteq refreshes
        /\ \A k \in Stored' : k \in Stored /\ k.user # u
    BY DEF DeleteAccount, Stored
  <1>4. UNCHANGED <<accounts, registered, access, expired, lastId, pc, task>>
    BY DEF DeleteAccount
  <1>5. TypeOK'
    BY <1>1, <1>2, <1>3, <1>4 DEF IInv, TypeOK
  <1>6. StoredAtGrantVersion'
    <2> SUFFICES ASSUME NEW k \in Stored'
                 PROVE  users'[k.user] # None /\ grants'[Pair(k)] = k.gv
      BY DEF StoredAtGrantVersion, Stored, Pair
    <2>1. k \in Stored /\ k \in Credential /\ k.user # u
      BY <1>3, StoredType DEF IInv
    <2>2. Pair(k) \in Users \X Clients /\ Pair(k)[1] = k.user /\ k.user \in Users
      BY <2>1 DEF Pair, Credential
    <2> QED BY <2>1, <2>2, <1>1, <1>2 DEF IInv, StoredAtGrantVersion, Stored
  <1>7. SubjectsUnique' /\ TasksOK'
    BY <1>1, <1>4 DEF IInv, SubjectsUnique, TasksOK, TaskOK
  <1>8. IdsUnique' /\ SessionsKept' /\ RedeemedOnce'
    BY <1>3, <1>4 DEF IInv, IdsUnique, SessionsKept, RedeemedOnce, Stored
  <1> QED BY <1>5, <1>6, <1>7, <1>8 DEF IInv

LEMMA BumpStep ==
    ASSUME IInv, NEW u \in Users, BumpTokenVersion(u)
    PROVE  IInv'
  <1>1. users[u] \in [sub : Nat, tv : Nat]
    BY DEF IInv, TypeOK, BumpTokenVersion
  <1>2. /\ users' \in [Users -> [sub : Nat, tv : Nat] \cup {None}]
        /\ \A v \in Users : /\ users'[v] # None <=> users[v] # None
                            /\ users[v] # None => users'[v].sub = users[v].sub
    <2>1. /\ [users[u] EXCEPT !.tv = @ + 1] \in [sub : Nat, tv : Nat]
          /\ [users[u] EXCEPT !.tv = @ + 1].sub = users[u].sub
      BY <1>1
    <2>2. /\ users' = [users EXCEPT ![u] = [users[u] EXCEPT !.tv = @ + 1]]
          /\ users[u] # None
      BY DEF BumpTokenVersion, NextTokenVersion
    <2> QED BY <2>1, <2>2, OAuthAssumptions DEF IInv, TypeOK
  <1>3. UNCHANGED <<accounts, registered, grants, codes, refreshes, access, expired, lastId,
                    pc, task>>
    BY DEF BumpTokenVersion
  <1>4. StoredAtGrantVersion'
    <2>1. \A k \in Stored : k.user \in Users
      BY StoredType DEF IInv, Credential
    <2> QED BY <2>1, <1>2, <1>3 DEF IInv, StoredAtGrantVersion, Stored, Pair
  <1>5. SubjectsUnique' /\ TasksOK'
    BY <1>2, <1>3 DEF IInv, SubjectsUnique, TasksOK, TaskOK
  <1> QED BY <1>2, <1>3, <1>4, <1>5
      DEF IInv, TypeOK, IdsUnique, SessionsKept, RedeemedOnce, Stored

\* Registration of a client and the end of a lifetime touch nothing that binds
\* a credential.
LEMMA RegisterClientOrExpireStep ==
    ASSUME IInv,
           \/ \E c \in Clients : RegisterClient(c)
           \/ \E k \in codes \cup refreshes \cup access : Expire(k)
    PROVE  IInv'
  <1>1. UNCHANGED <<users, accounts, grants, codes, refreshes, access, lastId, pc, task>>
    BY DEF RegisterClient, Expire, rowVars
  <1>2. registered' \subseteq Clients /\ expired' \subseteq Nat
    <2>1. \A k \in codes \cup refreshes \cup access : k.id \in Nat
      BY DEF IInv, TypeOK, Credential, AccessToken
    <2> QED BY <2>1 DEF IInv, TypeOK, RegisterClient, Expire, rowVars
  <1> QED BY <1>1, <1>2 DEF IInv, TypeOK, StoredAtGrantVersion, RedeemedOnce, SubjectsUnique,
                            IdsUnique, SessionsKept, TasksOK, TaskOK, Stored, Pair

-----------------------------------------------------------------------------
(* The handlers                                                            *)

LEMMA BeginStep ==
    ASSUME IInv, NEW h \in Handlers, Begin(h)
    PROVE  IInv'
  <1> USE DEF Steps
  <1>1. ASSUME NEW u \in Users, NEW c \in Clients, StartConsent(h, u, c) PROVE IInv'
    <2> DEFINE t == [NoTask EXCEPT !.user = u, !.sub = users[u].sub, !.tv = users[u].tv,
                                   !.client = c]
    <2>1. users[u] \in [sub : Nat, tv : Nat]
      BY <1>1 DEF IInv, TypeOK, StartConsent
    <2>2. t \in Task /\ t.client = c /\ t.user = u
      BY <2>1 DEF NoTask, Task
    <2>3. Start(h, "approve", t) /\ UNCHANGED <<rowVars, access, expired, lastId>>
      BY <1>1 DEF StartConsent
    <2> HIDE DEF t
    <2> QED BY <2>2, <2>3, StartStep
  <1>2. ASSUME NEW u \in Users, NEW c \in Clients, StartDisconnect(h, u, c) PROVE IInv'
    <2> DEFINE t == [NoTask EXCEPT !.user = u, !.sub = users[u].sub, !.client = c,
                                   !.gv = grants[<<u, c>>]]
    <2>1. users[u] \in [sub : Nat, tv : Nat] /\ grants[<<u, c>>] \in Nat
      BY <1>2 DEF IInv, TypeOK, StartDisconnect
    <2>2. t \in Task /\ t.client = c /\ t.user = u /\ t.sub = users[u].sub
      BY <2>1 DEF NoTask, Task
    <2>3. Start(h, "disconnect", t) /\ UNCHANGED <<rowVars, access, expired, lastId>>
      BY <1>2 DEF StartDisconnect
    <2>4. /\ users[u].sub <= accounts
          /\ \A v \in Users : (users[v] # None /\ users[v].sub = users[u].sub) => v = u
      BY <1>2 DEF IInv, SubjectsUnique, StartDisconnect
    <2> HIDE DEF t
    <2> QED BY <2>2, <2>3, <2>4, StartStep
  <1>3. ASSUME NEW k \in codes, PresentCode(h, k) PROVE IInv'
    <2> DEFINE t == [NoTask EXCEPT !.cred = k.id, !.client = k.client]
    <2>1. k \in Credential
      BY DEF IInv, TypeOK
    <2>2. t \in Task /\ t.client \in Clients
      BY <2>1 DEF NoTask, Task, Credential
    <2>3. Start(h, "exchange", t) /\ UNCHANGED <<rowVars, access, expired, lastId>>
      BY <1>3 DEF PresentCode
    <2> HIDE DEF t
    <2> QED BY <2>2, <2>3, StartStep
  <1>4. ASSUME NEW r \in refreshes, NEW step \in {"rotate", "revoke_refresh"},
               PresentRefresh(h, r, step)
        PROVE  IInv'
    <2> DEFINE t == [NoTask EXCEPT !.cred = r.id, !.client = r.client, !.gv = r.gv,
                                   !.sub = users[r.user].sub]
    <2>1. r \in Credential
      BY DEF IInv, TypeOK
    <2>2. users[r.user] \in [sub : Nat, tv : Nat]
      BY <1>4, <2>1 DEF IInv, TypeOK, PresentRefresh, Usable, Credential
    <2>3. t \in Task /\ t.client \in Clients
      BY <2>1, <2>2 DEF NoTask, Task, Credential
    <2>4. Start(h, step, t) /\ UNCHANGED <<rowVars, access, expired, lastId>>
      BY <1>4 DEF PresentRefresh
    <2> HIDE DEF t
    <2> QED BY <2>3, <2>4, StartStep
  <1>5. ASSUME NEW a \in access, PresentAccess(h, a) PROVE IInv'
    <2>1. PICK u \in Holder(a) :
             Start(h, "revoke_access",
                   [NoTask EXCEPT !.user = u, !.sub = a.sub, !.tv = a.tv,
                                  !.client = a.client, !.gv = a.gv])
      BY <1>5 DEF PresentAccess
    <2> DEFINE t == [NoTask EXCEPT !.user = u, !.sub = a.sub, !.tv = a.tv,
                                   !.client = a.client, !.gv = a.gv]
    <2>2. a \in AccessToken /\ u \in Users /\ users[u] # None /\ users[u].sub = a.sub
      BY <2>1 DEF IInv, TypeOK, Holder
    <2>3. t \in Task /\ t.client \in Clients /\ t.user = u /\ t.sub = users[u].sub
      BY <2>2 DEF NoTask, Task, AccessToken
    <2>4. UNCHANGED <<rowVars, access, expired, lastId>>
      BY <1>5 DEF PresentAccess
    <2>5. /\ users[u].sub <= accounts
          /\ \A v \in Users : (users[v] # None /\ users[v].sub = users[u].sub) => v = u
      BY <2>2 DEF IInv, SubjectsUnique
    <2>6. Start(h, "revoke_access", t)
      BY <2>1
    <2> HIDE DEF t
    <2>7. /\ t.sub <= accounts
          /\ \A v \in Users : (users[v] # None /\ users[v].sub = t.sub) => v = t.user
      BY <2>3, <2>5
    <2> QED BY <2>2, <2>3, <2>4, <2>6, <2>7, StartStep
  <1> QED BY <1>1, <1>2, <1>3, <1>4, <1>5 DEF Begin

LEMMA ApproveStep ==
    ASSUME IInv, NEW h \in Handlers, Approve(h)
    PROVE  IInv'
  <1>1. CASE ~SessionIsCurrent(h)
    BY <1>1, StopStep DEF Approve, rowVars
  <1>2. CASE SessionIsCurrent(h)
    <2> DEFINE k == Approval(h)
               p == Pair(task[h])
    <2>1. /\ task[h] \in Task /\ task[h].user \in Users /\ task[h].client \in Clients
          /\ lastId \in Nat
      BY DEF IInv, TypeOK, TasksOK, TaskOK, Approve
    <2>2. p \in Users \X Clients /\ GrantVersion(p) \in Nat
      BY <2>1 DEF IInv, TypeOK, GrantVersion, Pair
    <2>3. /\ k \in Credential /\ k.id = lastId + 1 /\ Pair(k) = p /\ k.user = task[h].user
          /\ k.gv = GrantVersion(p) /\ k.session = k.tv
      BY <2>1, <2>2 DEF Approval, Credential, Task, Pair
    <2>4. /\ codes' = codes \cup {k} /\ lastId' = lastId + 1
          /\ grants' = [grants EXCEPT ![p] = GrantVersion(p)]
          /\ UNCHANGED <<users, accounts, registered, refreshes, access, expired>>
      BY <1>2 DEF Approve
    <2>5. users[k.user] # None
      BY <1>2, <2>3 DEF SessionIsCurrent
    <2>6. \A l \in Stored : l.id \in Nat /\ l.id <= lastId /\ Pair(l) \in Users \X Clients
      BY StoredType, PairType DEF IInv, Credential, IdsUnique
    <2>7. \A a \in access : a.id \in Nat /\ a.from \in Nat /\ a.id <= lastId /\ a.from <= lastId
      BY DEF IInv, TypeOK, AccessToken, IdsUnique
    <2> HIDE DEF k, p
    <2>8. TypeOK' /\ TasksOK'
      <3>1. grants' \in [Users \X Clients -> Nat \cup {None}]
        BY <2>2, <2>4 DEF IInv, TypeOK
      <3>2. pc' \in [Handlers -> Steps] /\ task' \in [Handlers -> Task] /\ TasksOK'
        BY <2>4, IdleTasks DEF Approve
      <3> QED BY <2>1, <2>3, <2>4, <3>1, <3>2 DEF IInv, TypeOK
    <2>9. StoredAtGrantVersion'
      <3> SUFFICES ASSUME NEW l \in Stored'
                   PROVE  users'[l.user] # None /\ grants'[Pair(l)] = l.gv
        BY DEF StoredAtGrantVersion, Stored, Pair
      <3>1. grants'[p] = GrantVersion(p)
        BY <2>2, <2>4 DEF IInv, TypeOK
      <3>2. CASE l = k
        BY <3>1, <3>2, <2>3, <2>4, <2>5
      <3>3. CASE l # k
        <4>1. l \in Stored /\ users[l.user] # None /\ grants[Pair(l)] = l.gv
          BY <3>3, <2>4 DEF IInv, StoredAtGrantVersion, Stored
        <4>2. l.gv # None
          BY <4>1, StoredType, OAuthAssumptions DEF IInv, Credential
        <4>3. grants'[Pair(l)] = grants[Pair(l)]
          BY <4>1, <4>2, <2>2, <2>4, <2>6 DEF IInv, TypeOK, GrantVersion
        <4> QED BY <4>1, <4>3, <2>4
      <3> QED BY <3>2, <3>3
    <2>10. IdsUnique'
      <3>1. \A l \in Stored' : l = k \/ l \in Stored
        BY <2>4 DEF Stored
      <3>2. \A l \in Stored' \cup access' : l.id <= lastId'
        BY <3>1, <2>1, <2>3, <2>4, <2>6, <2>7
      <3>3. \A l, m \in codes' : l.id = m.id => l = m
        BY <2>1, <2>3, <2>4, <2>6 DEF IInv, IdsUnique, Stored
      <3>4. \A l \in codes', r \in refreshes' : l.id # r.id
        BY <2>1, <2>3, <2>4, <2>6 DEF IInv, IdsUnique, Stored
      <3>5. \A a \in access : \A l \in Stored' : l.id # a.from /\ l.id # a.id
        BY <3>1, <2>1, <2>3, <2>7 DEF IInv, IdsUnique
      <3>6. \A a \in access : a.from <= lastId' /\ a.sub <= accounts
        BY <2>1, <2>4, <2>7 DEF IInv, IdsUnique
      <3> QED BY <3>2, <3>3, <3>4, <3>5, <3>6, <2>4 DEF IInv, IdsUnique, Stored
    <2>11. SessionsKept'
      BY <2>3, <2>4 DEF IInv, SessionsKept, Stored
    <2> QED BY <2>4, <2>8, <2>9, <2>10, <2>11 DEF IInv, SubjectsUnique, RedeemedOnce
  <1> QED BY <1>1, <1>2

LEMMA ExchangeStep ==
    ASSUME IInv, NEW h \in Handlers, ExchangeCode(h)
    PROVE  IInv'
  <1>1. ASSUME NEW k \in codes, Usable(k), codes' = codes \ {k},
               refreshes' = refreshes \cup {Rotated(k)}, IssueTokens(k)
        PROVE  IInv'
    <2>1. k \in Stored /\ k \notin refreshes
      BY DEF IInv, IdsUnique, Stored
    <2>2. refreshes' \subseteq (refreshes \ {k}) \cup {Rotated(k)}
      BY <1>1, <2>1
    <2> QED BY <1>1, <2>1, <2>2, IssueStep DEF ExchangeCode
  <1>2. CASE UNCHANGED <<codes, refreshes, access, lastId>>
    BY <1>2, StopStep DEF ExchangeCode, rowVars
  <1> QED BY <1>1, <1>2 DEF ExchangeCode, ConsumeCode, Presented

LEMMA RotateStep ==
    ASSUME IInv, NEW h \in Handlers, RotateRefresh(h)
    PROVE  IInv'
  <1>1. ASSUME NEW k \in refreshes, Usable(k),
               refreshes' = (refreshes \ {k}) \cup {Rotated(k)}, IssueTokens(k)
        PROVE  IInv'
    <2>1. k \in Stored /\ k \notin codes
      BY DEF IInv, IdsUnique, Stored
    <2>2. codes' \subseteq codes \ {k}
      BY <2>1 DEF RotateRefresh
    <2> QED BY <1>1, <2>1, <2>2, IssueStep DEF RotateRefresh
  <1>2. CASE UNCHANGED <<refreshes, access, lastId>>
    BY <1>2, StopStep DEF RotateRefresh, rowVars
  <1> QED BY <1>1, <1>2 DEF RotateRefresh, Rotate, Presented

LEMMA RevokeRefreshStep ==
    ASSUME IInv, NEW h \in Handlers, RevokeRefresh(h)
    PROVE  IInv'
  <1>1. ASSUME NEW k \in refreshes, Usable(k), EndGrant(Pair(k), grants[Pair(k)] + 1)
        PROVE  IInv'
    <2>1. Pair(k) \in Users \X Clients
      BY PairType DEF IInv, TypeOK
    <2>2. grants[Pair(k)] + 1 \in Nat
      BY <1>1, <2>1 DEF IInv, TypeOK, Usable
    <2> QED BY <1>1, <2>1, <2>2, EndGrantStep DEF RevokeRefresh
  <1>2. CASE UNCHANGED <<grants, codes, refreshes>>
    BY <1>2, StopStep DEF RevokeRefresh, rowVars
  <1> QED BY <1>1, <1>2 DEF RevokeRefresh, Presented

\* The grant a revocation by an access token finds is the one the handler
\* looked up, still at the token's version.
LEMMA RevocableIsOwn ==
    ASSUME IInv, NEW h \in Handlers, pc[h] = "revoke_access", RevocableGrants(h) # {}
    PROVE  /\ Pair(task[h]) \in Users \X Clients
           /\ grants[Pair(task[h])] = task[h].gv
           /\ task[h].gv \in Nat
           /\ users[task[h].user] # None
           /\ users[task[h].user].sub = task[h].sub
  <1>1. PICK u \in Users : /\ users[u] # None /\ users[u].sub = task[h].sub
                           /\ grants[<<u, task[h].client>>] = task[h].gv
    BY DEF RevocableGrants
  <1>2. u = task[h].user /\ task[h].client \in Clients /\ task[h] \in Task
    BY <1>1 DEF IInv, TypeOK, TasksOK, TaskOK
  <1> QED BY <1>1, <1>2 DEF Pair, Task

LEMMA RevokeAccessStep ==
    ASSUME IInv, NEW h \in Handlers, RevokeAccess(h)
    PROVE  IInv'
  <1>1. CASE RevocableGrants(h) # {}
    <2>1. /\ Pair(task[h]) \in Users \X Clients /\ grants[Pair(task[h])] + 1 \in Nat
      BY <1>1, RevocableIsOwn DEF RevokeAccess
    <2> QED BY <1>1, <2>1, EndGrantStep DEF RevokeAccess
  <1>2. CASE RevocableGrants(h) = {}
    BY <1>2, StopStep DEF RevokeAccess, rowVars
  <1> QED BY <1>1, <1>2

LEMMA CommitDisconnectStep ==
    ASSUME IInv, NEW h \in Handlers, CommitDisconnect(h)
    PROVE  IInv'
  <1>1. CASE grants[Pair(task[h])] # None
    <2>1. Pair(task[h]) \in Users \X Clients
      BY DEF IInv, TasksOK, TaskOK, CommitDisconnect, Pair
    <2>2. NextGrantVersion(h) \in Nat
      BY DEF IInv, TypeOK, Task, NextGrantVersion
    <2> QED BY <1>1, <2>1, <2>2, EndGrantStep DEF CommitDisconnect
  <1>2. CASE grants[Pair(task[h])] = None
    BY <1>2, StopStep DEF CommitDisconnect, rowVars
  <1> QED BY <1>1, <1>2

-----------------------------------------------------------------------------
(* The theorems                                                            *)

LEMMA InitIInv == Init => IInv
  <1> SUFFICES ASSUME Init PROVE IInv
    OBVIOUS
  <1>1. TypeOK
    BY NoTaskType DEF Init, TypeOK, Steps
  <1> QED BY <1>1 DEF Init, IInv, StoredAtGrantVersion, RedeemedOnce, SubjectsUnique,
                      IdsUnique, SessionsKept, TasksOK, TaskOK, Stored

LEMMA NextIInv == IInv /\ [Next]_vars => IInv'
  <1> SUFFICES ASSUME IInv, [Next]_vars PROVE IInv'
    OBVIOUS
  <1>1. CASE AccountStep
    BY <1>1, RegisterStep, DeleteAccountStep, BumpStep, RegisterClientOrExpireStep
    DEF AccountStep
  <1>2. ASSUME NEW h \in Handlers, Finish(h) PROVE IInv'
    <2>1. CASE CommitFails(h)
      BY <2>1, StopStep DEF CommitFails
    <2> QED BY <1>2, <2>1, ApproveStep, ExchangeStep, RotateStep, RevokeRefreshStep,
               RevokeAccessStep, CommitDisconnectStep DEF Finish
  <1>3. CASE UNCHANGED vars
    BY <1>3 DEF vars, IInv, TypeOK, StoredAtGrantVersion, RedeemedOnce, SubjectsUnique,
                IdsUnique, SessionsKept, TasksOK, TaskOK, Stored, Pair
  <1> QED BY <1>1, <1>2, <1>3, BeginStep DEF Next, Quiescent

LEMMA Inductive == Spec => []IInv
  BY InitIInv, NextIInv, PTL DEF Spec

\* Every reachable state is well typed, and a stored code or refresh token is
\* always at the version of a grant that exists: no revocation, disconnection
\* or deletion leaves a usable row of an earlier grant behind.
THEOREM GrantsAreConsistent == Spec => []GrantInvariant
  <1>1. IInv => GrantInvariant
    BY DEF IInv, GrantInvariant
  <1> QED BY <1>1, Inductive, PTL

\* However many requests have loaded one code or refresh token, it yields at
\* most one access token (_exchange_code, _rotate_refresh).
THEOREM CredentialsAreRedeemedOnce == Spec => []RedeemedOnce
  <1>1. IInv => RedeemedOnce
    BY DEF IInv
  <1> QED BY <1>1, Inductive, PTL

\* An access token that works was approved by a session of the account's
\* current token_version: sign-out-everywhere and password changes end every
\* approval before them, exchanges in progress included.
THEOREM TokensFollowTheSession == Spec => []ApprovedByCurrentSession
  <1>1. IInv => ApprovedByCurrentSession
    <2> SUFFICES ASSUME IInv, NEW t \in access, Valid(t), NEW u \in Holder(t)
                 PROVE  users[u].tv = t.session
      BY DEF ApprovedByCurrentSession
    <2>1. PICK v \in Holder(t) : t.tv = users[v].tv
      BY DEF Valid, VersionsMatch
    <2>2. u = v
      BY DEF IInv, SubjectsUnique, Holder
    <2> QED BY <2>1, <2>2 DEF IInv, SessionsKept
  <1> QED BY <1>1, Inductive, PTL

\* A revocation by an access token removes credentials of the token's account
\* at the token's grant version and no others, however late it commits.
THEOREM RevocationsAreExact == Spec => RevokeIsExact
  <1> DEFINE Exact == \A h \in Handlers :
                         (pc[h] = "revoke_access" /\ pc'[h] = "idle") =>
                            \A k \in (codes \cup refreshes) \ (codes' \cup refreshes') :
                               /\ users[k.user].sub = task[h].sub
                               /\ k.gv = task[h].gv
  <1>1. IInv /\ [Next]_vars => [Exact]_vars
    <2> SUFFICES ASSUME IInv, Next, NEW h \in Handlers,
                        pc[h] = "revoke_access", pc'[h] = "idle",
                        NEW k \in Stored, k \notin Stored'
                 PROVE  users[k.user].sub = task[h].sub /\ k.gv = task[h].gv
      BY DEF Stored, vars
    <2>1. UNCHANGED pc \/ \E g \in Handlers : Begin(g) \/ Finish(g)
      BY DEF Next, AccountStep, Quiescent, vars, Register, DeleteAccount, BumpTokenVersion,
             RegisterClient, Expire
    <2>2. ASSUME NEW g \in Handlers, Begin(g) PROVE FALSE
      <3>1. UNCHANGED <<codes, refreshes>>
        BY <2>2 DEF Begin, StartConsent, StartDisconnect, PresentCode, PresentRefresh,
                    PresentAccess, rowVars
      <3> QED BY <3>1 DEF Stored
    <2>3. ASSUME NEW g \in Handlers, Finish(g) PROVE g = h
      <3>1. Idle(g)
        BY <2>3 DEF Finish, Approve, ExchangeCode, RotateRefresh, RevokeRefresh, RevokeAccess,
                    CommitDisconnect, CommitFails
      <3> QED BY <3>1 DEF Idle, IInv, TypeOK
    <2>4. Finish(h)
      BY <2>1, <2>2, <2>3
    <2>5. RevokeAccess(h)
      <3>1. ~CommitFails(h)
        BY DEF CommitFails, rowVars, Stored
      <3> QED BY <2>4, <3>1 DEF Finish, Approve, ExchangeCode, RotateRefresh, RevokeRefresh,
                                CommitDisconnect
    <2>6. RevocableGrants(h) # {} /\ Pair(k) = Pair(task[h])
      BY <2>5 DEF RevokeAccess, EndGrant, Stored
    <2>7. k.user = task[h].user
      BY <2>6 DEF Pair
    <2>8. k.gv = grants[Pair(k)]
      BY DEF IInv, StoredAtGrantVersion, Stored
    <2> QED BY <2>6, <2>7, <2>8, RevocableIsOwn
  <1> QED BY <1>1, Inductive, PTL DEF Spec, RevokeIsExact

-----------------------------------------------------------------------------
(* What one worker thread adds: no request commits between the read and    *)
(* the commit of a disconnection.  Accounts still come and go, sign out    *)
(* and let credentials expire at any time.                                 *)

\* A token's account and grant are at least at the versions the token carries.
TokensBehind ==
    \A t \in access : \A u \in Holder(t) :
       /\ t.tv <= users[u].tv
       /\ grants[<<u, t.client>>] # None
       /\ t.gv <= grants[<<u, t.client>>]

\* The grant a disconnection has read is as it was, or gone with its account.
DisconnectFresh ==
    \A h \in Handlers :
       pc[h] = "disconnect" => grants[Pair(task[h])] \in {None, task[h].gv}

\* A refresh token of the same account, client and versions that was issued
\* after the access token is still there.
ListedBy(t, u, r) ==
    /\ r.user = u /\ r.client = t.client /\ t.id < r.id
    /\ r.id \notin expired /\ Usable(r)

TokensListed ==
    \A t \in access : Valid(t) => \A u \in Holder(t) : \E r \in refreshes : ListedBy(t, u, r)

ExpiredIssued == \A i \in expired : i <= lastId

SerialInv == IInv /\ TokensBehind /\ DisconnectFresh /\ TokensListed /\ ExpiredIssued

\* Whoever has a subject that was handed out before the step had it before the
\* step, and no version of theirs has gone back.
VersionsAdvance ==
    \A u \in Users : (users'[u] # None /\ users'[u].sub <= accounts) =>
       /\ users[u] # None /\ users'[u].sub = users[u].sub
       /\ users[u].tv <= users'[u].tv
       /\ \A c \in Clients : grants[<<u, c>>] # None =>
             grants'[<<u, c>>] # None /\ grants[<<u, c>>] <= grants'[<<u, c>>]

\* Users and grants as they were.
LEMMA SameAdvance ==
    ASSUME IInv, UNCHANGED <<users, grants>>
    PROVE  VersionsAdvance
  BY DEF IInv, TypeOK, VersionsAdvance

LEMMA EndGrantAdvance ==
    ASSUME IInv, NEW p \in Users \X Clients, NEW n \in Nat, EndGrant(p, n), UNCHANGED users,
           grants[p] = None \/ grants[p] <= n
    PROVE  VersionsAdvance
  <1>1. \A q \in Users \X Clients : grants'[q] = IF q = p THEN n ELSE grants[q]
    BY DEF IInv, TypeOK, EndGrant
  <1>2. n # None
    BY OAuthAssumptions
  <1>3. \A u \in Users, c \in Clients : grants[<<u, c>>] # None =>
             grants'[<<u, c>>] # None /\ grants[<<u, c>>] <= grants'[<<u, c>>]
    BY <1>1, <1>2 DEF IInv, TypeOK
  <1> QED BY <1>3 DEF IInv, TypeOK, VersionsAdvance

LEMMA AccountAdvance ==
    ASSUME IInv, AccountStep
    PROVE  VersionsAdvance
  <1>1. ASSUME NEW u \in Users, Register(u) PROVE VersionsAdvance
    <2> DEFINE a == [sub |-> accounts + 1, tv |-> 0]
    <2>1. users' = [users EXCEPT ![u] = a] /\ UNCHANGED grants /\ a.sub = accounts + 1
      BY <1>1 DEF Register
    <2>2. accounts \in Nat
      BY DEF IInv, TypeOK
    <2> HIDE DEF a
    <2> QED BY <2>1, <2>2 DEF IInv, TypeOK, VersionsAdvance
  <1>2. ASSUME NEW u \in Users, DeleteAccount(u) PROVE VersionsAdvance
    <2>1. /\ users' = [users EXCEPT ![u] = None]
          /\ \A v \in Users, c \in Clients : v # u => grants'[<<v, c>>] = grants[<<v, c>>]
      BY <1>2 DEF DeleteAccount
    <2> QED BY <2>1 DEF IInv, TypeOK, VersionsAdvance
  <1>3. ASSUME NEW u \in Users, BumpTokenVersion(u) PROVE VersionsAdvance
    <2>1. users[u] \in [sub : Nat, tv : Nat]
      BY <1>3 DEF IInv, TypeOK, BumpTokenVersion
    <2>2. /\ [users[u] EXCEPT !.tv = @ + 1].sub = users[u].sub
          /\ [users[u] EXCEPT !.tv = @ + 1].tv = users[u].tv + 1
      BY <2>1
    <2>3. /\ users' = [users EXCEPT ![u] = [users[u] EXCEPT !.tv = @ + 1]]
          /\ users[u] # None /\ UNCHANGED grants
      BY <1>3 DEF BumpTokenVersion, NextTokenVersion
    <2> QED BY <2>1, <2>2, <2>3 DEF IInv, TypeOK, VersionsAdvance
  <1>4. CASE UNCHANGED <<users, grants>>
    BY <1>4, SameAdvance
  <1> QED BY <1>1, <1>2, <1>3, <1>4 DEF AccountStep, RegisterClient, Expire, rowVars

LEMMA ApproveAdvance ==
    ASSUME IInv, NEW h \in Handlers, Approve(h)
    PROVE  VersionsAdvance
  <1>1. CASE UNCHANGED <<users, grants>>
    BY <1>1, SameAdvance
  <1>2. CASE grants' = [grants EXCEPT ![Pair(task[h])] = GrantVersion(Pair(task[h]))]
    <2>1. Pair(task[h]) \in Users \X Clients
      BY DEF IInv, TasksOK, TaskOK, Approve, Pair
    <2>2. \A q \in Users \X Clients : grants[q] # None => grants'[q] = grants[q]
      BY <1>2, <2>1 DEF IInv, TypeOK, GrantVersion
    <2>3. UNCHANGED users
      BY DEF Approve
    <2> QED BY <2>2, <2>3 DEF IInv, TypeOK, VersionsAdvance
  <1> QED BY <1>1, <1>2 DEF Approve

\* No step takes a version back, the commit of a disconnection included.
LEMMA Advance ==
    ASSUME SerialInv, [Next]_vars
    PROVE  VersionsAdvance
  <1>0. IInv
    BY DEF SerialInv
  <1>1. CASE AccountStep
    BY <1>0, <1>1, AccountAdvance
  <1>2. ASSUME NEW h \in Handlers, Begin(h) PROVE VersionsAdvance
    <2>1. UNCHANGED <<users, grants>>
      BY <1>2 DEF Begin, StartConsent, StartDisconnect, PresentCode, PresentRefresh,
                  PresentAccess, rowVars
    <2> QED BY <1>0, <2>1, SameAdvance
  <1>3. ASSUME NEW h \in Handlers, RevokeRefresh(h) PROVE VersionsAdvance
    <2>1. ASSUME NEW k \in refreshes, Usable(k), EndGrant(Pair(k), grants[Pair(k)] + 1)
          PROVE  VersionsAdvance
      <3>1. Pair(k) \in Users \X Clients
        BY <1>0, PairType DEF IInv, TypeOK
      <3>2. grants[Pair(k)] \in Nat
        BY <1>0, <2>1, <3>1 DEF IInv, TypeOK, Usable
      <3> QED BY <1>0, <1>3, <2>1, <3>1, <3>2, EndGrantAdvance DEF RevokeRefresh
    <2> QED BY <1>0, <1>3, <2>1, SameAdvance DEF RevokeRefresh, Presented
  <1>4. ASSUME NEW h \in Handlers, RevokeAccess(h) PROVE VersionsAdvance
    <2>1. CASE RevocableGrants(h) # {}
      <3>1. /\ Pair(task[h]) \in Users \X Clients
            /\ grants[Pair(task[h])] \in Nat /\ UNCHANGED users
        BY <1>0, <1>4, <2>1, RevocableIsOwn DEF RevokeAccess
      <3> QED BY <1>0, <1>4, <2>1, <3>1, EndGrantAdvance DEF RevokeAccess
    <2> QED BY <1>0, <1>4, <2>1, SameAdvance DEF RevokeAccess
  <1>5. ASSUME NEW h \in Handlers, CommitDisconnect(h) PROVE VersionsAdvance
    <2>1. CASE grants[Pair(task[h])] # None
      <3>1. /\ Pair(task[h]) \in Users \X Clients /\ task[h].gv \in Nat
        BY <1>0, <1>5 DEF IInv, TypeOK, Task, TasksOK, TaskOK, CommitDisconnect, Pair
      <3>2. grants[Pair(task[h])] = task[h].gv
        BY <1>5, <2>1 DEF SerialInv, DisconnectFresh, CommitDisconnect
      <3>3. NextGrantVersion(h) \in Nat /\ grants[Pair(task[h])] <= NextGrantVersion(h)
        BY <3>1, <3>2 DEF NextGrantVersion
      <3> QED BY <1>0, <1>5, <2>1, <3>1, <3>3, EndGrantAdvance DEF CommitDisconnect
    <2> QED BY <1>0, <1>5, <2>1, SameAdvance DEF CommitDisconnect
  <1>6. ASSUME NEW h \in Handlers, ExchangeCode(h) \/ RotateRefresh(h) \/ CommitFails(h)
        PROVE  VersionsAdvance
    BY <1>0, <1>6, SameAdvance DEF ExchangeCode, RotateRefresh, CommitFails, rowVars
  <1>7. CASE UNCHANGED vars
    BY <1>0, <1>7, SameAdvance DEF vars
  <1> QED BY <1>0, <1>1, <1>2, <1>3, <1>4, <1>5, <1>6, <1>7, ApproveAdvance
      DEF Next, Finish, Quiescent

\* What VersionsAdvance says of a token: its holder after the step was its
\* holder before, and versions that match after the step matched before.
LEMMA TokenAdvance ==
    ASSUME SerialInv, [Next]_vars, NEW t \in access, NEW u \in Holder(t)'
    PROVE  /\ u \in Holder(t)
           /\ t.tv <= users'[u].tv
           /\ grants'[<<u, t.client>>] # None
           /\ t.gv <= grants'[<<u, t.client>>]
           /\ users'[u].tv = t.tv => users[u].tv = t.tv
           /\ grants'[<<u, t.client>>] = t.gv => grants[<<u, t.client>>] = t.gv
  <1>1. IInv /\ IInv' /\ VersionsAdvance
    BY Advance, NextIInv DEF SerialInv
  <1>2. /\ u \in Users /\ users'[u] # None /\ users'[u].sub = t.sub
        /\ t \in AccessToken /\ t.sub <= accounts
    BY <1>1 DEF Holder, IInv, TypeOK, IdsUnique
  <1>3. /\ users[u] # None /\ users'[u].sub = users[u].sub /\ users[u].tv <= users'[u].tv
        /\ grants[<<u, t.client>>] # None =>
             grants'[<<u, t.client>>] # None /\ grants[<<u, t.client>>] <= grants'[<<u, t.client>>]
    BY <1>1, <1>2 DEF VersionsAdvance, AccessToken
  <1>4. u \in Holder(t)
    BY <1>2, <1>3 DEF Holder
  <1>5. /\ t.tv <= users[u].tv /\ grants[<<u, t.client>>] # None
        /\ t.gv <= grants[<<u, t.client>>]
    BY <1>4 DEF SerialInv, TokensBehind
  <1>6. /\ users[u].tv \in Nat /\ users'[u].tv \in Nat /\ t.tv \in Nat /\ t.gv \in Nat
        /\ grants[<<u, t.client>>] \in Nat /\ grants'[<<u, t.client>>] \in Nat
    BY <1>1, <1>2, <1>3, <1>5 DEF IInv, TypeOK, AccessToken
  <1> QED BY <1>3, <1>4, <1>5, <1>6

\* A step that signs a token stores a refresh token beside it and leaves
\* accounts and grants alone.
LEMMA NewToken ==
    ASSUME IInv, [Next]_vars, NEW t \in access', t \notin access
    PROVE  \E k \in Stored : /\ Usable(k) /\ t = Signed(k)
                            /\ Rotated(k) \in refreshes'
                            /\ UNCHANGED <<users, grants, expired>>
  <1>1. ASSUME NEW h \in Handlers, ExchangeCode(h)
        PROVE  \E k \in Stored : /\ Usable(k) /\ t = Signed(k)
                                /\ Rotated(k) \in refreshes'
                                /\ UNCHANGED <<users, grants, expired>>
    <2>1. PICK k \in Presented(h, codes) :
             Usable(k) /\ refreshes' = refreshes \cup {Rotated(k)} /\ IssueTokens(k)
      BY <1>1 DEF ExchangeCode
    <2> QED BY <1>1, <2>1 DEF ExchangeCode, IssueTokens, Presented, Stored
  <1>2. ASSUME NEW h \in Handlers, RotateRefresh(h)
        PROVE  \E k \in Stored : /\ Usable(k) /\ t = Signed(k)
                                /\ Rotated(k) \in refreshes'
                                /\ UNCHANGED <<users, grants, expired>>
    <2>1. PICK k \in Presented(h, refreshes) :
             Usable(k) /\ refreshes' = Rotate(k) /\ IssueTokens(k)
      BY <1>2 DEF RotateRefresh
    <2> QED BY <1>2, <2>1 DEF RotateRefresh, IssueTokens, Rotate, Presented, Stored
  <1>3. \/ UNCHANGED access
        \/ \E h \in Handlers : ExchangeCode(h) \/ RotateRefresh(h)
    <2>1. ASSUME NEW h \in Handlers, Begin(h) PROVE UNCHANGED access
      BY <2>1 DEF Begin, StartConsent, StartDisconnect, PresentCode, PresentRefresh,
                  PresentAccess
    <2>2. ASSUME NEW h \in Handlers, Finish(h)
          PROVE  UNCHANGED access \/ ExchangeCode(h) \/ RotateRefresh(h)
      BY <2>2 DEF Finish, Approve, RevokeRefresh, RevokeAccess, CommitDisconnect, CommitFails
    <2>3. CASE AccountStep
      BY <2>3 DEF AccountStep, Register, DeleteAccount, BumpTokenVersion, RegisterClient, Expire
    <2> QED BY <2>1, <2>2, <2>3 DEF Next, Quiescent, vars
  <1> QED BY <1>1, <1>2, <1>3

\* The holder of a token that was just signed is the account of the row.
LEMMA NewTokenIs ==
    ASSUME IInv, NEW k \in Stored, Usable(k), NEW u \in Holder(Signed(k))
    PROVE  /\ k \in Credential /\ u = k.user
           /\ Signed(k).client = k.client
           /\ Signed(k).tv = users[u].tv
           /\ Signed(k).gv = grants[<<u, k.client>>]
           /\ grants[<<u, k.client>>] # None
           /\ Signed(k).id = lastId + 1
  <1>1. k \in Credential
    BY StoredType DEF IInv
  <1>2. /\ Signed(k).sub = users[k.user].sub /\ Signed(k).tv = k.tv /\ Signed(k).gv = k.gv
        /\ Signed(k).client = k.client /\ Signed(k).id = lastId + 1
    BY <1>1, SignedIs DEF IInv
  <1>3. u = k.user
    BY <1>1, <1>2 DEF IInv, SubjectsUnique, Holder, Usable, Credential
  <1> QED BY <1>1, <1>2, <1>3 DEF Usable, Pair

LEMMA BehindStep ==
    ASSUME SerialInv, [Next]_vars
    PROVE  TokensBehind'
  <1> SUFFICES ASSUME NEW t \in access', NEW u \in Holder(t)'
               PROVE  /\ t.tv <= users'[u].tv
                      /\ grants'[<<u, t.client>>] # None
                      /\ t.gv <= grants'[<<u, t.client>>]
    BY DEF TokensBehind
  <1>1. CASE t \in access
    BY <1>1, TokenAdvance
  <1>2. CASE t \notin access
    <2>1. PICK k \in Stored : Usable(k) /\ t = Signed(k) /\ UNCHANGED <<users, grants>>
      BY <1>2, NewToken DEF SerialInv
    <2>2. u \in Holder(Signed(k))
      BY <2>1 DEF Holder
    <2>3. /\ k \in Credential /\ u = k.user /\ t.client = k.client /\ t.tv = users[u].tv
          /\ t.gv = grants[<<u, k.client>>] /\ grants[<<u, k.client>>] # None
      BY <2>1, <2>2, NewTokenIs DEF SerialInv
    <2>4. users[u].tv \in Nat /\ grants[<<u, k.client>>] \in Nat
      BY <2>1, <2>3 DEF SerialInv, IInv, TypeOK, Usable, Credential
    <2> QED BY <2>1, <2>3, <2>4
  <1> QED BY <1>1, <1>2

\* What a step does to a refresh token of a grant that stays at its version.
LEMMA RefreshFate ==
    ASSUME SerialInv, [Next]_vars, NEW r \in refreshes,
           users'[r.user] # None, grants'[Pair(r)] = grants[Pair(r)]
    PROVE  \/ r \in refreshes'
           \/ Rotated(r) \in refreshes' /\ UNCHANGED expired
  <1>0. /\ IInv /\ r \in Credential /\ Pair(r) \in Users \X Clients
        /\ grants[Pair(r)] = r.gv /\ r.gv \in Nat
    BY PairType DEF SerialInv, IInv, TypeOK, StoredAtGrantVersion, Credential
  <1>1. CASE AccountStep
    <2>1. ASSUME NEW u \in Users, DeleteAccount(u) PROVE r \in refreshes'
      <3>1. users'[u] = None
        BY <1>0, <2>1 DEF DeleteAccount, IInv, TypeOK
      <3> QED BY <2>1, <3>1 DEF DeleteAccount
    <2> QED BY <1>1, <2>1 DEF AccountStep, Register, BumpTokenVersion, RegisterClient, Expire,
                              rowVars
  <1>2. ASSUME NEW h \in Handlers, Begin(h) PROVE r \in refreshes'
    BY <1>2 DEF Begin, StartConsent, StartDisconnect, PresentCode, PresentRefresh,
                PresentAccess, rowVars
  <1>3. ASSUME NEW p \in Users \X Clients, NEW n \in Nat, EndGrant(p, n), n # r.gv
        PROVE  r \in refreshes'
    <2>1. grants'[p] = n
      BY <1>0, <1>3 DEF EndGrant, IInv, TypeOK
    <2>2. Pair(r) # p
      BY <1>0, <1>3, <2>1
    <2> QED BY <1>3, <2>2 DEF EndGrant
  <1>4. ASSUME NEW h \in Handlers, RevokeRefresh(h) PROVE r \in refreshes'
    <2>1. ASSUME NEW k \in refreshes, Usable(k), EndGrant(Pair(k), grants[Pair(k)] + 1)
          PROVE  r \in refreshes'
      <3>1. Pair(k) \in Users \X Clients /\ grants[Pair(k)] \in Nat
        BY <1>0, <2>1, PairType DEF IInv, TypeOK, Usable
      <3>2. CASE Pair(k) = Pair(r)
        BY <1>0, <1>3, <2>1, <3>1, <3>2
      <3>3. CASE Pair(k) # Pair(r)
        BY <2>1, <3>3 DEF EndGrant
      <3> QED BY <3>2, <3>3
    <2> QED BY <1>4, <2>1 DEF RevokeRefresh, Presented
  <1>5. ASSUME NEW h \in Handlers, RevokeAccess(h) PROVE r \in refreshes'
    <2>1. CASE RevocableGrants(h) # {}
      <3>1. /\ EndGrant(Pair(task[h]), grants[Pair(task[h])] + 1)
            /\ Pair(task[h]) \in Users \X Clients /\ grants[Pair(task[h])] \in Nat
        BY <1>0, <1>5, <2>1, RevocableIsOwn DEF RevokeAccess
      <3>2. CASE Pair(task[h]) = Pair(r)
        BY <1>0, <1>3, <3>1, <3>2
      <3>3. CASE Pair(task[h]) # Pair(r)
        BY <3>1, <3>3 DEF EndGrant
      <3> QED BY <3>2, <3>3
    <2> QED BY <1>5, <2>1 DEF RevokeAccess
  <1>6. ASSUME NEW h \in Handlers, CommitDisconnect(h) PROVE r \in refreshes'
    <2>1. CASE grants[Pair(task[h])] # None
      <3>1. /\ EndGrant(Pair(task[h]), task[h].gv + 1)
            /\ Pair(task[h]) \in Users \X Clients /\ task[h].gv \in Nat
            /\ grants[Pair(task[h])] = task[h].gv
        BY <1>0, <1>6, <2>1 DEF CommitDisconnect, NextGrantVersion, IInv, TypeOK, Task,
                                TasksOK, TaskOK, Pair, SerialInv, DisconnectFresh
      <3>2. CASE Pair(task[h]) = Pair(r)
        BY <1>0, <1>3, <3>1, <3>2
      <3>3. CASE Pair(task[h]) # Pair(r)
        BY <3>1, <3>3 DEF EndGrant
      <3> QED BY <3>2, <3>3
    <2> QED BY <1>6, <2>1 DEF CommitDisconnect
  <1>7. ASSUME NEW h \in Handlers, RotateRefresh(h)
        PROVE  r \in refreshes' \/ (Rotated(r) \in refreshes' /\ UNCHANGED expired)
    BY <1>7 DEF RotateRefresh, Rotate
  <1>8. ASSUME NEW h \in Handlers, Approve(h) \/ ExchangeCode(h) \/ CommitFails(h)
        PROVE  r \in refreshes'
    BY <1>8 DEF Approve, ExchangeCode, CommitFails, rowVars
  <1> QED BY <1>1, <1>2, <1>4, <1>5, <1>6, <1>7, <1>8 DEF Next, Finish, Quiescent, vars

\* Credentials expire one at a time, a refresh token only after the access
\* tokens signed before it.
LEMMA ExpiryFate ==
    ASSUME SerialInv, [Next]_vars
    PROVE  /\ expired \subseteq expired'
           /\ lastId \in Nat /\ lastId' \in Nat /\ lastId <= lastId'
           /\ ExpiredIssued'
           /\ \A t \in access, r \in refreshes :
                 (t.id < r.id /\ t.id \notin expired' /\ r.id \notin expired)
                    => r.id \notin expired'
  <1>0. IInv /\ lastId \in Nat
    BY DEF SerialInv, IInv, TypeOK
  <1>1. ASSUME NEW k \in codes \cup refreshes \cup access, Expire(k)
        PROVE  /\ expired \subseteq expired' /\ lastId' = lastId /\ ExpiredIssued'
               /\ \A t \in access, r \in refreshes :
                     (t.id < r.id /\ t.id \notin expired' /\ r.id \notin expired)
                        => r.id \notin expired'
    <2>1. expired' = expired \cup {k.id} /\ lastId' = lastId
      BY <1>1 DEF Expire
    <2>2. k.id <= lastId
      BY <1>0 DEF IInv, IdsUnique, Stored
    <2>3. ASSUME NEW t \in access, NEW r \in refreshes,
                 t.id < r.id, t.id \notin expired', r.id \notin expired
          PROVE  r.id # k.id
      <3>1. CASE k \in refreshes
        <4>1. k # r
          BY <1>1, <2>1, <2>3 DEF Expire
        <4> QED BY <1>0, <3>1, <4>1 DEF IInv, IdsUnique
      <3>2. CASE k \notin refreshes
        BY <1>0, <3>2 DEF IInv, IdsUnique, Stored
      <3> QED BY <3>1, <3>2
    <2> QED BY <2>1, <2>2, <2>3 DEF SerialInv, ExpiredIssued
  <1>2. \/ UNCHANGED expired
        \/ \E k \in codes \cup refreshes \cup access : Expire(k)
    <2>1. ASSUME NEW h \in Handlers, Begin(h) PROVE UNCHANGED expired
      BY <2>1 DEF Begin, StartConsent, StartDisconnect, PresentCode, PresentRefresh,
                  PresentAccess
    <2>2. ASSUME NEW h \in Handlers, Finish(h) PROVE UNCHANGED expired
      BY <2>2 DEF Finish, Approve, ExchangeCode, RotateRefresh, RevokeRefresh, RevokeAccess,
                  CommitDisconnect, CommitFails
    <2> QED BY <2>1, <2>2 DEF Next, Quiescent, vars, AccountStep, Register, DeleteAccount,
                              BumpTokenVersion, RegisterClient
  <1>3. lastId' \in Nat /\ lastId <= lastId'
    <2>1. ASSUME NEW h \in Handlers, Begin(h) PROVE UNCHANGED lastId
      BY <2>1 DEF Begin, StartConsent, StartDisconnect, PresentCode, PresentRefresh,
                  PresentAccess
    <2>2. ASSUME NEW h \in Handlers, Finish(h) PROVE lastId' \in {lastId, lastId + 1, lastId + 2}
      BY <2>2 DEF Finish, Approve, ExchangeCode, RotateRefresh, RevokeRefresh, RevokeAccess,
                  CommitDisconnect, CommitFails, IssueTokens
    <2>3. lastId' \in {lastId, lastId + 1, lastId + 2}
      BY <2>1, <2>2 DEF Next, Quiescent, vars, AccountStep, Register, DeleteAccount,
                        BumpTokenVersion, RegisterClient, Expire
    <2> QED BY <1>0, <2>3
  <1>4. CASE UNCHANGED expired
    <2>1. \A i \in expired : i \in Nat
      BY <1>0 DEF IInv, TypeOK
    <2> QED BY <1>0, <1>3, <1>4, <2>1 DEF SerialInv, ExpiredIssued
  <1> QED BY <1>0, <1>1, <1>2, <1>3, <1>4

LEMMA ListedStep ==
    ASSUME SerialInv, [Next]_vars
    PROVE  TokensListed'
  <1>0. IInv /\ IInv'
    BY NextIInv DEF SerialInv
  <1> SUFFICES ASSUME NEW t \in access', Valid(t)', NEW u \in Holder(t)'
               PROVE  \E r \in refreshes' : ListedBy(t, u, r)'
    BY DEF TokensListed
  <1>1. CASE t \in access
    <2>1. PICK v \in Holder(t)' : users'[v].tv = t.tv /\ grants'[<<v, t.client>>] = t.gv
      BY DEF Valid, VersionsMatch
    <2>2. u = v
      BY <1>0, <2>1 DEF IInv, SubjectsUnique, Holder
    <2>3. /\ u \in Holder(t)
          /\ users[u].tv = t.tv /\ users'[u].tv = t.tv
          /\ grants[<<u, t.client>>] = t.gv /\ grants'[<<u, t.client>>] = t.gv
          /\ grants'[<<u, t.client>>] # None
      BY <1>1, <2>1, <2>2, TokenAdvance
    <2>4. t.id \notin expired /\ t.id \notin expired'
      BY ExpiryFate DEF Valid
    <2>5. Valid(t)
      BY <2>3, <2>4 DEF Valid, VersionsMatch, SerialInv, TokensBehind
    <2>6. PICK r \in refreshes : ListedBy(t, u, r)
      BY <1>1, <2>3, <2>5 DEF SerialInv, TokensListed
    <2>7. /\ r \in Credential /\ r.user = u /\ r.client = t.client /\ t.id < r.id
          /\ r.id \notin expired /\ r.tv = t.tv /\ r.gv = t.gv /\ Pair(r) = <<u, t.client>>
      BY <1>0, <2>3, <2>6 DEF IInv, TypeOK, ListedBy, Usable, Pair
    <2>8. users'[u] # None
      BY DEF Holder
    <2>9. r.id \notin expired'
      BY <1>1, <2>4, <2>7, ExpiryFate
    <2>10. CASE r \in refreshes'
      BY <2>3, <2>7, <2>8, <2>9, <2>10 DEF ListedBy, Usable, Pair
    <2>11. CASE Rotated(r) \in refreshes' /\ UNCHANGED expired
      <3>0. PICK q \in refreshes' : q = Rotated(r)
        BY <2>11
      <3>1. lastId \in Nat /\ r.id \in Nat /\ t.id \in Nat /\ r.id <= lastId
        BY <1>0, <1>1, <2>7 DEF IInv, TypeOK, IdsUnique, Stored, AccessToken, Credential
      <3>2. /\ q.id = lastId + 2 /\ q.gv = r.gv /\ q.tv = r.tv /\ q.user = r.user
            /\ q.client = r.client
        BY <2>7, <3>0, <3>1, RotatedIs
      <3>4. q.id \notin expired' /\ t.id < q.id
        <4>1. \A i \in expired : i <= lastId
          BY DEF SerialInv, ExpiredIssued
        <4> QED BY <2>7, <2>11, <3>1, <3>2, <4>1
      <3>5. Pair(q) = <<u, t.client>> /\ q.user = u /\ q.client = t.client
        BY <2>7, <3>2 DEF Pair
      <3>6. q.tv = users'[u].tv /\ q.gv = grants'[<<u, t.client>>]
        BY <2>3, <2>7, <3>2
      <3>7. Usable(q)'
        BY <2>3, <2>8, <3>5, <3>6 DEF Usable, Pair
      <3>8. ListedBy(t, u, q)'
        BY <3>4, <3>5, <3>7 DEF ListedBy
      <3> QED BY <3>8
    <2> QED BY <2>3, <2>7, <2>8, <2>10, <2>11, RefreshFate
  <1>2. CASE t \notin access
    <2>1. PICK k \in Stored : /\ Usable(k) /\ t = Signed(k) /\ Rotated(k) \in refreshes'
                              /\ UNCHANGED <<users, grants, expired>>
      BY <1>0, <1>2, NewToken
    <2>2. u \in Holder(Signed(k))
      BY <2>1 DEF Holder
    <2>3. /\ k \in Credential /\ u = k.user /\ t.client = k.client /\ t.id = lastId + 1
      BY <1>0, <2>1, <2>2, NewTokenIs
    <2>4. PICK q \in refreshes' : q = Rotated(k) /\ lastId \in Nat
      BY <1>0, <2>1 DEF IInv, TypeOK
    <2>5. /\ q.id = lastId + 2 /\ q.gv = k.gv /\ q.tv = k.tv /\ q.user = k.user
          /\ q.client = k.client
      BY <2>3, <2>4, RotatedIs
    <2>6. q.id \notin expired
      BY <2>4, <2>5 DEF SerialInv, ExpiredIssued
    <2>7. Usable(q)'
      BY <2>1, <2>5 DEF Usable, Pair
    <2>8. ListedBy(t, u, q)'
      BY <2>1, <2>3, <2>4, <2>5, <2>6, <2>7 DEF ListedBy
    <2> QED BY <2>8
  <1> QED BY <1>1, <1>2

\* With one worker thread, nobody moves a grant between the two statements of
\* a disconnection; its account may still go, and the grant with it.
LEMMA FreshStep ==
    ASSUME SerialInv, [Next]_vars, NEW h \in Handlers, Handlers = {h}
    PROVE  DisconnectFresh'
  <1>0. IInv /\ IInv'
    BY NextIInv DEF SerialInv
  <1> SUFFICES ASSUME pc'[h] = "disconnect"
               PROVE  grants'[Pair(task'[h])] \in {None, task'[h].gv}
    BY DEF DisconnectFresh, Pair
  <1>1. CASE AccountStep
    <2>1. UNCHANGED <<pc, task>>
      BY <1>1 DEF AccountStep, Register, DeleteAccount, BumpTokenVersion, RegisterClient, Expire
    <2>2. Pair(task[h]) \in Users \X Clients
      BY <1>0, <2>1 DEF IInv, TasksOK, TaskOK, Pair
    <2>3. grants'[Pair(task[h])] \in {None, grants[Pair(task[h])]}
      BY <1>1, <2>2 DEF AccountStep, Register, DeleteAccount, BumpTokenVersion, RegisterClient,
                        Expire, rowVars
    <2> QED BY <2>1, <2>3 DEF SerialInv, DisconnectFresh
  <1>2. CASE Begin(h)
    <2>1. PICK u \in Users, c \in Clients : StartDisconnect(h, u, c)
      BY <1>0, <1>2 DEF Begin, StartConsent, PresentCode, PresentRefresh, PresentAccess, Start,
                        IInv, TypeOK
    <2> DEFINE t == [NoTask EXCEPT !.user = u, !.sub = users[u].sub, !.client = c,
                                   !.gv = grants[<<u, c>>]]
    <2>2. t.user = u /\ t.client = c /\ t.gv = grants[<<u, c>>]
      BY DEF NoTask
    <2>3. task'[h] = t /\ UNCHANGED grants
      BY <1>0, <2>1 DEF StartDisconnect, Start, rowVars, IInv, TypeOK
    <2> HIDE DEF t
    <2> QED BY <2>2, <2>3 DEF Pair
  <1>3. ~Finish(h)
    BY <1>0 DEF Finish, Approve, ExchangeCode, RotateRefresh, RevokeRefresh, RevokeAccess,
                CommitDisconnect, CommitFails, Idle, IInv, TypeOK
  <1>4. CASE UNCHANGED vars
    BY <1>4 DEF vars, SerialInv, DisconnectFresh, Pair
  <1> QED BY <1>1, <1>2, <1>3, <1>4 DEF Next, Quiescent

LEMMA InitSerialInv == Init => SerialInv
  BY InitIInv DEF Init, SerialInv, TokensBehind, DisconnectFresh, TokensListed, ExpiredIssued

LEMMA SerialInductive ==
    ASSUME NEW h \in Handlers, Handlers = {h}
    PROVE  Spec => []SerialInv
  <1>1. SerialInv /\ [Next]_vars => SerialInv'
    <2> SUFFICES ASSUME SerialInv, [Next]_vars PROVE SerialInv'
      OBVIOUS
    <2>1. IInv' /\ ExpiredIssued'
      BY NextIInv, ExpiryFate DEF SerialInv
    <2> QED BY <2>1, BehindStep, FreshStep, ListedStep DEF SerialInv
  <1> QED BY <1>1, InitSerialInv, PTL DEF Spec

\* While handlers do not overlap, an access token that has been revoked, by
\* whichever way, never becomes valid again.
THEOREM RevokedStaysRevoked ==
    ASSUME NEW h \in Handlers, Handlers = {h}
    PROVE  Spec => RevokedForGood
  <1>1. SerialInv /\ [Next]_vars =>
           [\A t \in access : ~VersionsMatch(t) => ~VersionsMatch(t)']_vars
    <2> SUFFICES ASSUME SerialInv, [Next]_vars, NEW t \in access, VersionsMatch(t)'
                 PROVE  VersionsMatch(t)
      OBVIOUS
    <2>1. PICK u \in Holder(t)' : t.tv = users'[u].tv /\ t.gv = grants'[<<u, t.client>>]
      BY DEF VersionsMatch
    <2>2. /\ u \in Holder(t) /\ users[u].tv = t.tv /\ grants[<<u, t.client>>] = t.gv
      BY <2>1, TokenAdvance
    <2>3. grants[<<u, t.client>>] # None
      BY <2>2 DEF SerialInv, TokensBehind
    <2> QED BY <2>2, <2>3 DEF VersionsMatch
  <1>2. Spec => []SerialInv
    BY SerialInductive
  <1> QED BY <1>1, <1>2, PTL DEF Spec, RevokedForGood

\* While handlers do not overlap, whoever holds a token that works is listed
\* under the account's connected apps (connected_apps).
THEOREM ValidTokensAreListed ==
    ASSUME NEW h \in Handlers, Handlers = {h}
    PROVE  Spec => []ValidMeansListed
  <1>1. SerialInv => ValidMeansListed
    <2> SUFFICES ASSUME SerialInv, NEW t \in access, Valid(t), NEW u \in Holder(t)
                 PROVE  t.client \in ConnectedApps(u)
      BY DEF ValidMeansListed
    <2>1. PICK r \in refreshes : ListedBy(t, u, r)
      BY DEF SerialInv, TokensListed
    <2>2. r.client \in Clients
      BY DEF SerialInv, IInv, TypeOK, Credential
    <2> QED BY <2>1, <2>2 DEF ConnectedApps, ListedBy
  <1>2. Spec => []SerialInv
    BY SerialInductive
  <1> QED BY <1>1, <1>2, PTL

\* While handlers do not overlap, no token of the client works for the account
\* once disconnect_app has committed.
THEOREM DisconnectionIsFinal ==
    ASSUME NEW h0 \in Handlers, Handlers = {h0}
    PROVE  Spec => DisconnectEndsAccess
  <1>1. SerialInv /\ [Next]_vars =>
           [\A h \in Handlers :
              (CommitDisconnect(h) /\ grants[Pair(task[h])] # None) =>
                 \A t \in access :
                    (t.sub = task[h].sub /\ t.client = task[h].client) => ~Valid(t)']_vars
    <2> SUFFICES ASSUME SerialInv, [Next]_vars, NEW h \in Handlers, CommitDisconnect(h),
                        grants[Pair(task[h])] # None,
                        NEW t \in access, t.sub = task[h].sub, t.client = task[h].client
                 PROVE  ~VersionsMatch(t)'
      BY DEF Valid
    <2> SUFFICES ASSUME NEW u \in Holder(t)', t.gv = grants'[<<u, t.client>>]
                 PROVE  FALSE
      BY DEF VersionsMatch
    <2>1. u \in Holder(t) /\ grants[<<u, t.client>>] = t.gv
      BY TokenAdvance
    <2>2. u = task[h].user
      BY <2>1 DEF SerialInv, IInv, TasksOK, TaskOK, CommitDisconnect, Holder
    <2>3. /\ <<u, t.client>> = Pair(task[h]) /\ Pair(task[h]) \in Users \X Clients
          /\ task[h].gv \in Nat
      BY <2>2 DEF SerialInv, IInv, TypeOK, Task, TasksOK, TaskOK, CommitDisconnect, Pair
    <2>4. grants[Pair(task[h])] = task[h].gv
      BY DEF SerialInv, DisconnectFresh, CommitDisconnect
    <2>5. grants'[Pair(task[h])] = task[h].gv + 1
      BY <2>3 DEF CommitDisconnect, EndGrant, NextGrantVersion, SerialInv, IInv, TypeOK
    <2> QED BY <2>1, <2>3, <2>4, <2>5
  <1>2. Spec => []SerialInv
    BY SerialInductive
  <1> QED BY <1>1, <1>2, PTL DEF Spec, DisconnectEndsAccess

=============================================================================
