------------------------ MODULE PromptLibraryProofs ------------------------
(***************************************************************************)
(* Theorems about PromptLibrary for every set of handlers, clients, bodies *)
(* and clock readings, then about what it keeps of a prompt's past: what   *)
(* holds for any number of worker threads, and what holds while one worker *)
(* thread serves the requests one after another.                           *)
(***************************************************************************)
EXTENDS PromptLibrary, TLAPS

Numbers(p) == {v.number : v \in versions[p]}

\* The numbers of a prompt's versions are an initial segment of 1, 2, ...
NumbersOK ==
    \A p \in PromptIds : /\ CurrentVersionNumber(p) \in Nat
                         /\ Numbers(p) = 1..CurrentVersionNumber(p)

\* Ids up to lastId are spent: live, deleted, and nothing else.
IdsOK ==
    /\ \A p \in PromptIds : Live(p) => p <= lastId
    /\ \A p \in PromptIds : ~Live(p) => versions[p] = {}
    /\ \A p \in deleted : p <= lastId /\ ~Live(p)

\* What each handler carries between its steps.
ServingOK(h) ==
    pc[h] \in {"check", "stamp", "commit"} =>
       /\ req[h].client \in Clients
       /\ next[h] \in Row
       /\ req[h].op # "none"
       /\ req[h].op # "create" => /\ req[h].pid \in 1..lastId
                                  /\ loaded[h] \in Row
       /\ req[h].op = "update" => req[h].body \in UpdateBody

CheckOK(h) ==
    pc[h] = "check" => next[h] = loaded[h] /\ req[h].op # "create"

\* A mark that update_prompt has checked stays within the versions that exist
\* or that its own commit adds, whatever commits in between.
StampOK(h) ==
    (pc[h] = "stamp") =>
       /\ req[h].op \in {"update", "restore"}
       /\ (Live(req[h].pid) /\ next[h].known # loaded[h].known) =>
             next[h].known <= CurrentVersionNumber(req[h].pid) + 1 +
                (IF ContentChanged(loaded[h], next[h]) THEN 1 ELSE 0)

InsertOK(h) ==
    (pc[h] = "commit" /\ req[h].op \in {"create", "duplicate"}) => next[h].known = 0

CommitOK(h) ==
    (pc[h] = "commit" /\ req[h].op \in {"update", "restore"} /\ Live(req[h].pid)) =>
       /\ snap[h] <= CurrentVersionNumber(req[h].pid) + 1
       /\ next[h].known # loaded[h].known =>
             \/ next[h].known <= CurrentVersionNumber(req[h].pid) + 1
             \/ next[h].known <= snap[h] + 1

RespondOK(h) ==
    pc[h] = "respond" => /\ req[h].client \in Clients
                         /\ answer[h] = "ok" => req[h].pid \in 1..lastId

TaskOK(h) ==
    /\ ServingOK(h) /\ CheckOK(h) /\ StampOK(h)
    /\ InsertOK(h) /\ CommitOK(h) /\ RespondOK(h)

TasksOK == \A h \in Handlers : TaskOK(h)

ViewsOK == \A c \in Clients : view[c] # NoRow => view[c].pid <= lastId

\* The inductive invariant.
IInv == TypeOK /\ NumbersOK /\ IdsOK /\ TasksOK /\ ViewsOK /\ KnownGoodExists

-----------------------------------------------------------------------------

\* The greatest element of a set of integers, when there is one.
LEMMA MaxIs ==
    ASSUME NEW S \in SUBSET Int, NEW m \in S, \A y \in S : y <= m
    PROVE  Max(S) = m
<1>1. \A y \in S : m >= y
  OBVIOUS
<1>2. Max(S) \in S /\ \A y \in S : Max(S) >= y
  BY <1>1 DEF Max
<1>3. Max(S) >= m /\ m >= Max(S) /\ Max(S) \in Int
  BY <1>1, <1>2
<1> QED BY <1>3

\* The newest number of an initial segment, and how a new number extends it.
LEMMA TopOfSegment ==
    ASSUME NEW k \in Nat
    PROVE  Max((1..k) \cup {0}) = k
<1>1. (1..k) \cup {0} \in SUBSET Int /\ k \in (1..k) \cup {0}
  OBVIOUS
<1>2. \A y \in (1..k) \cup {0} : y <= k
  OBVIOUS
<1> QED BY <1>1, <1>2, MaxIs

LEMMA ExtendSegment ==
    ASSUME NEW k \in Nat, NEW n \in Nat, n # 0, n <= k + 1
    PROVE  \E j \in Nat : /\ (1..k) \cup {n} = 1..j
                          /\ j >= k /\ j >= n
<1>1. CASE n <= k
  BY <1>1
<1>2. CASE n = k + 1
  BY <1>2
<1> QED BY <1>1, <1>2

\* NextWriteStamp returns a stamp past the one it replaces.
LEMMA StampAdvances ==
    ASSUME NEW previous \in Nat, NEW now \in Nat
    PROVE  /\ NextWriteStamp(previous, now) \in Nat
           /\ NextWriteStamp(previous, now) > previous
<1>1. CASE now >= previous + 1
  <2>1. Max({now, previous + 1}) = now
    <3>1. /\ {now, previous + 1} \in SUBSET Int
          /\ \A y \in {now, previous + 1} : y <= now
      BY <1>1
    <3> QED BY <3>1, MaxIs
  <2> QED BY <1>1, <2>1 DEF NextWriteStamp
<1>2. CASE ~(now >= previous + 1)
  <2>1. Max({now, previous + 1}) = previous + 1
    <3>1. /\ {now, previous + 1} \in SUBSET Int
          /\ \A y \in {now, previous + 1} : y <= previous + 1
      BY <1>2
    <3> QED BY <3>1, MaxIs
  <2> QED BY <1>2, <2>1 DEF NextWriteStamp
<1> QED BY <1>1, <1>2

\* next_id allocates an id past every live and every deleted one.
LEMMA NextIdIsFresh ==
    ASSUME TypeOK, IdsOK
    PROVE  NextId = lastId + 1
<1>1. /\ \A y \in {p \in PromptIds : Live(p)} \cup {lastId} : y <= lastId
      /\ {p \in PromptIds : Live(p)} \cup {lastId} \in SUBSET Int
  BY DEF IdsOK, TypeOK, PromptIds
<1>2. Max({p \in PromptIds : Live(p)} \cup {lastId}) = lastId
  BY <1>1, MaxIs DEF TypeOK
<1> QED BY <1>2 DEF NextId

-----------------------------------------------------------------------------
(* Rows built by the handlers.                                             *)

LEMMA PatchedIsRow ==
    ASSUME NEW old \in Row, NEW b \in UpdateBody
    PROVE  /\ Patched(old, b) \in Row
           /\ Patched(old, b).known = Given(b.known, old.known)
<1>1. /\ Given(b.sections, old.sections) \in Sections
      /\ Given(b.meta, old.meta) \in Metas
      /\ Given(b.name, old.name) \in Seq(Nat)
      /\ Given(b.folder, old.folder) \in Folders \cup {NoFolder}
      /\ Given(b.known, old.known) \in Nat
  BY DEF Given, Row, UpdateBody
<1>2. (IF b.sections # Unset THEN Render[b.sections] ELSE old.text) \in Texts
  BY LibraryAssumptions DEF Row, UpdateBody
<1> QED BY <1>1, <1>2 DEF Patched, Row

LEMMA FlushIsRow ==
    ASSUME NEW current \in Row, NEW old \in Row, NEW new \in Row
    PROVE  /\ Flush(current, old, new) \in Row
           /\ Flush(current, old, new).known = Column(current.known, old.known, new.known)
  BY DEF Flush, Column, Row

LEMMA RestoredIsRow ==
    ASSUME NEW old \in Row, NEW v \in Version,
           NEW s \in SectionsForText(v.text, v.sections)
    PROVE  LET new == [old EXCEPT !.sections = s, !.text = Render[s],
                                  !.meta = Given(v.meta, old.meta)]
           IN new \in Row /\ new.known = old.known
  BY LibraryAssumptions DEF SectionsForText, Given, Row, Version

-----------------------------------------------------------------------------
(* The invariant holds initially and every step keeps it.                  *)

LEMMA EmptyNumbers ==
    ASSUME NEW p \in PromptIds, versions[p] = {}
    PROVE  CurrentVersionNumber(p) = 0 /\ Numbers(p) = {}
<1>1. Numbers(p) = {} /\ {v.number : v \in versions[p]} \cup {0} = (1..0) \cup {0}
  BY DEF Numbers
<1> QED BY <1>1, TopOfSegment DEF CurrentVersionNumber

LEMMA NumbersAre ==
    ASSUME NEW p \in PromptIds, NEW k \in Nat, Numbers(p) = 1..k
    PROVE  CurrentVersionNumber(p) = k
  BY TopOfSegment DEF CurrentVersionNumber, Numbers

LEMMA InitIInv == Init => IInv
<1> SUFFICES ASSUME Init PROVE IInv
  OBVIOUS
<1>1. CASE EmptyDatabase
  <2>1. TypeOK
    BY <1>1, LibraryAssumptions
    DEF Init, TypeOK, EmptyDatabase, Steps, Request, NoRequest, Ops, Answers, PromptIds
  <2>2. NumbersOK
    BY <1>1, EmptyNumbers DEF EmptyDatabase, NumbersOK
  <2>3. IdsOK /\ TasksOK /\ ViewsOK /\ KnownGoodExists
    BY <1>1 DEF Init, EmptyDatabase, IdsOK, Live, TasksOK, TaskOK, ServingOK, CheckOK, StampOK,
                InsertOK, CommitOK, RespondOK, ViewsOK, KnownGoodExists
  <2> QED BY <2>1, <2>2, <2>3 DEF IInv
<1>2. CASE MigratedDatabase
  <2>0. PICK old \in LegacyPrompts, m \in Metas :
           \E s \in SectionsForText(old[2], old[1]) : Migrated(old, m, s)
    BY <1>2 DEF MigratedDatabase
  <2>1. PICK s \in SectionsForText(old[2], old[1]) : Migrated(old, m, s)
    BY <2>0
  <2>2. s \in Sections /\ Render[s] \in Texts /\ old[1] \in Sections /\ old[2] \in Texts
    BY <2>1, LibraryAssumptions DEF SectionsForText
  <2>3. rows[1] \in Row /\ rows[1].known = 0 /\ rows[1] # NoRow
    <3>1. <<1>> \in Seq(Nat)
      OBVIOUS
    <3>2. MigratedRow(s, m) \in Row /\ MigratedRow(s, m).known = 0
      BY <2>2, <3>1 DEF Row, MigratedRow
    <3> QED BY <2>1, <3>2, LibraryAssumptions DEF Migrated
  <2>4. rows \in [PromptIds -> Row \cup {NoRow}]
    BY <2>1, <2>3 DEF Migrated
  <2>5. versions \in [PromptIds -> SUBSET Version]
    BY <2>1, <2>2 DEF Version, Migrated, DriftedVersion
  <2>6. TypeOK
    BY <2>1, <2>4, <2>5, LibraryAssumptions
    DEF Init, Migrated, TypeOK, Steps, Request, NoRequest, Ops, Answers, PromptIds
  <2>7. NumbersOK
    <3> SUFFICES ASSUME NEW p \in PromptIds
                 PROVE  /\ CurrentVersionNumber(p) \in Nat
                        /\ Numbers(p) = 1..CurrentVersionNumber(p)
      BY DEF NumbersOK
    <3>1. CASE versions[p] = {}
      <4>1. CurrentVersionNumber(p) = 0 /\ Numbers(p) = {}
        BY <3>1, EmptyNumbers
      <4> QED BY <4>1
    <3>2. CASE versions[p] # {}
      <4>1. Numbers(p) = 1..1
        BY <2>1, <3>2 DEF Numbers, Migrated, DriftedVersion
      <4>2. CurrentVersionNumber(p) = 1
        BY <4>1, NumbersAre
      <4> QED BY <4>1, <4>2
    <3> QED BY <3>1, <3>2
  <2>8. IdsOK /\ TasksOK /\ ViewsOK
    BY <2>1, <2>3 DEF Init, Migrated, IdsOK, Live, TasksOK, TaskOK, ServingOK, CheckOK, StampOK,
                InsertOK, CommitOK, RespondOK, ViewsOK
  <2>9. KnownGoodExists
    BY <2>1, <2>3, <2>7 DEF Migrated, KnownGoodExists, Live, NumbersOK, LiveVersionNumber
  <2> QED BY <2>6, <2>7, <2>8, <2>9 DEF IInv
<1> QED BY <1>1, <1>2 DEF Init

\* A step that leaves the database alone and moves one handler.
LEMMA LocalStep ==
    ASSUME IInv, NEW h \in Handlers, UNCHANGED <<dbVars, deleted>>,
           TypeOK', ViewsOK', TaskOK(h)',
           \A g \in Handlers \ {h} :
              /\ pc'[g] = pc[g] /\ req'[g] = req[g] /\ loaded'[g] = loaded[g]
              /\ next'[g] = next[g] /\ snap'[g] = snap[g] /\ answer'[g] = answer[g]
    PROVE  IInv'
<1> USE DEF IInv, dbVars
<1>1. \A p : /\ CurrentVersionNumber(p)' = CurrentVersionNumber(p)
             /\ Live(p)' = Live(p) /\ Numbers(p)' = Numbers(p)
  BY DEF CurrentVersionNumber, Live, Numbers
<1>2. NumbersOK' /\ IdsOK' /\ KnownGoodExists'
  BY <1>1 DEF NumbersOK, IdsOK, KnownGoodExists, LiveVersionNumber
<1>3. ASSUME NEW g \in Handlers, g # h PROVE TaskOK(g)'
  BY <1>1, <1>3 DEF TasksOK, TaskOK, ServingOK, CheckOK, StampOK, InsertOK, CommitOK, RespondOK,
                    ContentChanged
<1> QED BY <1>2, <1>3 DEF TasksOK

\* get_owned_prompt and the stale check.
LEMMA LoadStep ==
    ASSUME IInv, NEW h \in Handlers, NEW r \in Request, Load(h, r),
           r.client \in Clients, r.pid \in 1..lastId, r.op \notin {"none", "create"},
           r.op = "update" => r.body \in UpdateBody
    PROVE  IInv'
<1> USE DEF IInv
<1>1. r.pid \in PromptIds
  BY LibraryAssumptions DEF TypeOK, PromptIds
<1>2. req' = [req EXCEPT ![h] = r] /\ issued' \in 0..MaxRequests /\ UNCHANGED view
  <2>1. /\ req' = [req EXCEPT ![h] = r] /\ UNCHANGED view
        /\ issued < MaxRequests /\ issued' = issued + 1
    BY DEF Load
  <2> QED BY <2>1, LibraryAssumptions DEF TypeOK
<1>3. ASSUME NEW outcome \in Answers, outcome # "ok", Fail(h, outcome) PROVE IInv'
  <2>1. TypeOK'
    BY <1>2, <1>3 DEF Fail, dbVars, TypeOK, Steps
  <2>2. TaskOK(h)'
    BY <1>2, <1>3 DEF TypeOK, Fail, dbVars, TaskOK, ServingOK, CheckOK, StampOK, InsertOK, CommitOK, RespondOK
  <2>3. ViewsOK'
    BY <1>2, <1>3 DEF ViewsOK, Fail, dbVars
  <2> QED
    BY <1>2, <1>3, <2>1, <2>2, <2>3, LocalStep DEF Fail, dbVars, TypeOK
<1>4. ASSUME Live(r.pid),
             loaded' = [loaded EXCEPT ![h] = rows[r.pid]],
             next' = [next EXCEPT ![h] = rows[r.pid]],
             pc' = [pc EXCEPT ![h] = IF r.op = "delete" THEN "commit" ELSE "check"],
             UNCHANGED <<dbVars, snap, answer, deleted, everLive>>
      PROVE  IInv'
  <2>1. rows[r.pid] \in Row
    BY <1>1, <1>4 DEF TypeOK, Live
  <2>2. TypeOK'
    BY <1>2, <1>4, <2>1 DEF dbVars, TypeOK, Steps
  <2>3. TaskOK(h)'
    BY <1>2, <1>4, <2>1 DEF TypeOK, dbVars, TaskOK, ServingOK, CheckOK, StampOK, InsertOK, CommitOK, RespondOK
  <2>4. ViewsOK'
    BY <1>2, <1>4 DEF ViewsOK, dbVars
  <2> QED
    BY <1>2, <1>4, <2>2, <2>3, <2>4, LocalStep DEF dbVars, TypeOK
<1> QED
  BY <1>3, <1>4 DEF Load, Answers

LEMMA SendStep ==
    ASSUME IInv, NEW h \in Handlers, Send(h)
    PROVE  IInv'
<1> USE DEF IInv
<1>1. PICK c \in Clients :
         \/ \E b \in CreateBodies : SendCreate(h, c, b)
         \/ \E b \in UpdateBodies : SendUpdate(h, c, b)
         \/ \E p \in 1..lastId :
               \/ \E b \in BlindBodies : SendBlindUpdate(h, c, p, b)
               \/ \E vid \in 1..lastVid : SendRestore(h, c, p, vid)
               \/ SendDelete(h, c, p)
               \/ SendDuplicate(h, c, p)
  BY DEF Send
<1>2. ASSUME NEW b \in CreateBodies, SendCreate(h, c, b) PROVE IInv'
  <2> DEFINE row == [sections |-> b.sections, text |-> Render[b.sections],
                     meta |-> b.meta, note |-> Unset, name |-> b.name,
                     folder |-> b.folder, known |-> 0, stamp |-> 0]
             r == [op |-> "create", client |-> c, pid |-> 0,
                   body |-> Unset, vid |-> 0, seen |-> NoRow]
  <2>1. row \in Row /\ row.known = 0
    BY LibraryAssumptions DEF CreateBody, Row
  <2>2. r \in Request
    BY DEF Request, Ops
  <2>3. /\ req' = [req EXCEPT ![h] = r] /\ next' = [next EXCEPT ![h] = row]
        /\ pc' = [pc EXCEPT ![h] = "commit"]
        /\ UNCHANGED <<dbVars, loaded, snap, answer, view, deleted, everLive>>
        /\ issued < MaxRequests /\ issued' = issued + 1
    BY <1>2 DEF SendCreate
  <2> HIDE DEF row
  <2>4. TypeOK'
    <3>1. issued' \in 0..MaxRequests
      BY <2>3, LibraryAssumptions DEF TypeOK
    <3> HIDE DEF r
    <3> QED BY <2>1, <2>2, <2>3, <3>1 DEF TypeOK, dbVars, Steps
  <2>5. TaskOK(h)'
    BY <2>1, <2>3 DEF TypeOK, dbVars, TaskOK, ServingOK, CheckOK, StampOK, InsertOK, CommitOK, RespondOK
  <2>6. ViewsOK'
    BY <2>3 DEF ViewsOK, dbVars
  <2> QED
    BY <2>3, <2>4, <2>5, <2>6, LocalStep DEF dbVars, TypeOK
<1>3. ASSUME NEW b \in UpdateBodies, SendUpdate(h, c, b) PROVE IInv'
  <2> DEFINE r == [op |-> "update", client |-> c, pid |-> view[c].pid, body |-> b,
                   vid |-> 0, seen |-> view[c].row]
  <2>1. view[c] \in [pid : PromptIds, row : Row] /\ view[c].pid <= lastId
    BY <1>3 DEF SendUpdate, TypeOK, ViewsOK
  <2>2. view[c].pid \in 1..lastId /\ view[c].row \in Row /\ b \in UpdateBody
    BY <2>1, LibraryAssumptions DEF PromptIds, TypeOK
  <2>3. r \in Request
    BY <2>2 DEF Request, Ops, TypeOK
  <2>4. Load(h, r)
    BY <1>3 DEF SendUpdate
  <2>5. r.client \in Clients /\ r.pid \in 1..lastId /\ r.op = "update" /\ r.body \in UpdateBody
    BY <2>2
  <2> HIDE DEF r
  <2> QED BY <2>3, <2>4, <2>5, LoadStep
<1>4. ASSUME NEW p \in 1..lastId, NEW op \in {"update", "restore", "delete", "duplicate"},
             NEW body \in UpdateBody \cup {Unset}, NEW vid \in Nat,
             op = "update" => body \in UpdateBody,
             Load(h, [op |-> op, client |-> c, pid |-> p, body |-> body,
                      vid |-> vid, seen |-> NoRow])
      PROVE  IInv'
  <2> DEFINE r == [op |-> op, client |-> c, pid |-> p, body |-> body,
                   vid |-> vid, seen |-> NoRow]
  <2>1. r \in Request
    BY DEF Request, Ops, TypeOK
  <2>2. /\ r.client \in Clients /\ r.pid \in 1..lastId /\ r.op \notin {"none", "create"}
        /\ r.op = "update" => r.body \in UpdateBody
    BY <1>4
  <2>3. Load(h, r)
    BY <1>4
  <2> HIDE DEF r
  <2> QED BY <2>1, <2>2, <2>3, LoadStep
<1>5. ASSUME NEW p \in 1..lastId, NEW b \in BlindBodies, SendBlindUpdate(h, c, p, b)
      PROVE  IInv'
  <2>1. b \in UpdateBody
    BY LibraryAssumptions
  <2> QED BY <1>4, <1>5, <2>1 DEF SendBlindUpdate
<1>6. ASSUME NEW p \in 1..lastId, NEW vid \in 1..lastVid, SendRestore(h, c, p, vid)
      PROVE  IInv'
  <2>1. vid \in Nat
    BY DEF TypeOK
  <2> QED BY <1>4, <1>6, <2>1 DEF SendRestore
<1>7. ASSUME NEW p \in 1..lastId, SendDelete(h, c, p) \/ SendDuplicate(h, c, p)
      PROVE  IInv'
  BY <1>4, <1>7 DEF SendDelete, SendDuplicate
<1> QED
  BY <1>1, <1>2, <1>3, <1>5, <1>6, <1>7

\* A handler that raises after it has loaded its prompt.
LEMMA FailStep ==
    ASSUME IInv, NEW h \in Handlers, NEW outcome \in Answers, outcome # "ok",
           pc[h] \in {"check", "stamp", "commit"}, Fail(h, outcome),
           UNCHANGED <<req, view, issued>>
    PROVE  IInv'
<1> USE DEF IInv
<1>1. TypeOK'
  BY DEF Fail, dbVars, TypeOK, Steps
<1>2. TaskOK(h)'
  BY DEF TasksOK, TypeOK, Fail, dbVars, TaskOK, ServingOK, CheckOK, StampOK, InsertOK, CommitOK, RespondOK
<1>3. ViewsOK'
  BY DEF ViewsOK, Fail, dbVars
<1> QED
  BY <1>1, <1>2, <1>3, LocalStep DEF Fail, dbVars, TypeOK

\* A handler that moves on with a new row in hand.
LEMMA MoveOnStep ==
    ASSUME IInv, NEW h \in Handlers, NEW row \in Row, NEW step \in {"stamp", "commit"},
           NEW number \in Nat, pc[h] \in {"check", "stamp"},
           next' = [next EXCEPT ![h] = row],
           pc' = [pc EXCEPT ![h] = step],
           snap' = [snap EXCEPT ![h] = number],
           UNCHANGED <<dbVars, req, loaded, answer, view, issued, deleted, everLive>>,
           StampOK(h)', InsertOK(h)', CommitOK(h)'
    PROVE  IInv'
<1> USE DEF IInv
<1>1. TypeOK'
  BY DEF dbVars, TypeOK, Steps
<1>2. TaskOK(h)'
  BY DEF TasksOK, TypeOK, dbVars, TaskOK, ServingOK, CheckOK, RespondOK
<1>3. ViewsOK'
  BY DEF ViewsOK, dbVars
<1> QED
  BY <1>1, <1>2, <1>3, LocalStep DEF dbVars, TypeOK

LEMMA CheckUpdateStep ==
    ASSUME IInv, NEW h \in Handlers, CheckUpdate(h)
    PROVE  IInv'
<1> DEFINE b == req[h].body
           p == req[h].pid
           new == Patched(loaded[h], b)
<1>1. /\ pc[h] = "check" /\ req[h].op = "update" /\ UNCHANGED <<req, view, issued>>
      /\ loaded[h] \in Row /\ b \in UpdateBody /\ p \in PromptIds
  BY LibraryAssumptions
  DEF IInv, CheckUpdate, TasksOK, TaskOK, ServingOK, TypeOK, PromptIds
<1>2. new \in Row /\ new.known = Given(b.known, loaded[h].known)
  BY <1>1, PatchedIsRow
<1>3. CASE Fail(h, "unprocessable")
  BY <1>1, <1>3, FailStep DEF Answers
<1>4. CASE /\ ~(b.known # Unset /\ b.known > Newest(p, loaded[h], new))
           /\ next' = [next EXCEPT ![h] = new]
           /\ pc' = [pc EXCEPT ![h] = "stamp"]
           /\ UNCHANGED <<dbVars, loaded, snap, answer, deleted, everLive>>
  <2> HIDE DEF new
  <2>1. CurrentVersionNumber(p) \in Nat
    BY <1>1 DEF IInv, NumbersOK
  <2>2. new.known # loaded[h].known => new.known = b.known /\ b.known # Unset
    BY <1>2 DEF Given
  <2>3. b.known # Unset => b.known \in Nat
    BY <1>1 DEF UpdateBody
  <2>4. new.known # loaded[h].known => new.known <= Newest(p, loaded[h], new)
    BY <1>4, <2>1, <2>2, <2>3 DEF Newest, LiveVersionNumber
  <2>5. /\ next'[h] = new /\ loaded'[h] = loaded[h] /\ req'[h] = req[h]
        /\ pc'[h] = "stamp"
    BY <1>1, <1>4 DEF IInv, TypeOK
  <2>6. CurrentVersionNumber(p)' = CurrentVersionNumber(p)
    BY <1>1, <1>4, <2>5 DEF CurrentVersionNumber, dbVars
  <2>7. StampOK(h)' /\ InsertOK(h)' /\ CommitOK(h)'
    BY <1>1, <2>4, <2>5, <2>6 DEF StampOK, InsertOK, CommitOK, Newest, LiveVersionNumber, ContentChanged
  <2>8. snap' = [snap EXCEPT ![h] = snap[h]] /\ snap[h] \in Nat
    BY <1>4 DEF IInv, TypeOK
  <2> QED
    BY <1>1, <1>2, <1>4, <2>7, <2>8, MoveOnStep
<1> QED
  BY <1>3, <1>4 DEF CheckUpdate

LEMMA CheckRestoreStep ==
    ASSUME IInv, NEW h \in Handlers, CheckRestore(h)
    PROVE  IInv'
<1> DEFINE p == req[h].pid
<1>0. pc[h] = "check" /\ req[h].op = "restore" /\ UNCHANGED <<req, view, issued>>
  BY DEF CheckRestore
<1>1. /\ pc[h] = "check" /\ req[h].op = "restore" /\ UNCHANGED <<req, view, issued>>
      /\ loaded[h] \in Row /\ p \in PromptIds /\ next[h] = loaded[h]
  BY <1>0, LibraryAssumptions
  DEF IInv, TasksOK, TaskOK, ServingOK, CheckOK, TypeOK, PromptIds
<1>2. CASE Fail(h, "not_found")
  BY <1>1, <1>2, FailStep DEF Answers
<1>3. ASSUME NEW v \in versions[p], NEW s \in SectionsForText(v.text, v.sections),
             next' = [next EXCEPT ![h] =
                          [@ EXCEPT !.sections = s,
                                    !.text = Render[s],
                                    !.meta = Given(v.meta, loaded[h].meta)]],
             pc' = [pc EXCEPT ![h] = "stamp"],
             UNCHANGED <<dbVars, loaded, snap, answer, deleted, everLive>>
      PROVE  IInv'
  <2> DEFINE new == [loaded[h] EXCEPT !.sections = s, !.text = Render[s],
                                      !.meta = Given(v.meta, loaded[h].meta)]
  <2>1. v \in Version
    BY <1>1 DEF IInv, TypeOK
  <2>2. new \in Row /\ new.known = loaded[h].known
    BY <1>1, <2>1, RestoredIsRow
  <2>3. next' = [next EXCEPT ![h] = new]
    BY <1>1, <1>3 DEF IInv, TypeOK
  <2> HIDE DEF new
  <2>4. /\ next'[h] = new /\ loaded'[h] = loaded[h] /\ req'[h] = req[h]
        /\ pc'[h] = "stamp"
    BY <1>1, <1>3, <2>3 DEF IInv, TypeOK
  <2>5. StampOK(h)' /\ InsertOK(h)' /\ CommitOK(h)'
    BY <1>1, <2>2, <2>4 DEF StampOK, InsertOK, CommitOK
  <2>6. snap' = [snap EXCEPT ![h] = snap[h]] /\ snap[h] \in Nat
    BY <1>3 DEF IInv, TypeOK
  <2> QED
    BY <1>1, <1>3, <2>2, <2>3, <2>5, <2>6, MoveOnStep
<1>4. \/ Fail(h, "not_found")
      \/ \E v \in versions[p] :
            /\ \E s \in SectionsForText(v.text, v.sections) :
                  next' = [next EXCEPT ![h] =
                             [@ EXCEPT !.sections = s,
                                       !.text = Render[s],
                                       !.meta = Given(v.meta, loaded[h].meta)]]
            /\ pc' = [pc EXCEPT ![h] = "stamp"]
            /\ UNCHANGED <<dbVars, loaded, snap, answer, deleted, everLive>>
  BY Zenon DEF CheckRestore
<1> QED
  BY <1>2, <1>3, <1>4

LEMMA CheckDuplicateStep ==
    ASSUME IInv, NEW h \in Handlers, CheckDuplicate(h)
    PROVE  IInv'
<1>1. /\ pc[h] = "check" /\ req[h].op = "duplicate" /\ pc' = [pc EXCEPT ![h] = "commit"]
      /\ UNCHANGED <<dbVars, req, loaded, snap, answer, view, issued, deleted, everLive>>
      /\ loaded[h] \in Row /\ next[h] = loaded[h]
  BY DEF IInv, CheckDuplicate, TasksOK, TaskOK, ServingOK, CheckOK
<1>2. PICK k \in 1..MaxPrompts + 1 :
         next' = [next EXCEPT ![h] =
                    [@ EXCEPT !.name = Append(loaded[h].name, k), !.note = Unset, !.known = 0]]
  BY DEF CheckDuplicate
<1> DEFINE new == [loaded[h] EXCEPT !.name = Append(loaded[h].name, k),
                                    !.note = Unset, !.known = 0]
<1>3. new \in Row /\ new.known = 0
  <2>1. k \in Nat /\ loaded[h].name \in Seq(Nat)
    BY <1>1, LibraryAssumptions DEF Row
  <2>2. Append(loaded[h].name, k) \in Seq(Nat)
    BY <2>1
  <2> QED BY <1>1, <2>2 DEF Row
<1>4. next' = [next EXCEPT ![h] = new]
  BY <1>1, <1>2
<1> HIDE DEF new
<1>5. StampOK(h)' /\ InsertOK(h)' /\ CommitOK(h)'
  BY <1>1, <1>3, <1>4 DEF IInv, TypeOK, StampOK, InsertOK, CommitOK
<1>6. snap' = [snap EXCEPT ![h] = snap[h]] /\ snap[h] \in Nat
  BY <1>1 DEF IInv, TypeOK
<1> QED
  BY <1>1, <1>3, <1>4, <1>5, <1>6, MoveOnStep

LEMMA StampWriteStep ==
    ASSUME IInv, NEW h \in Handlers, StampWrite(h)
    PROVE  IInv'
<1> DEFINE p == req[h].pid
           changed == ContentChanged(loaded[h], next[h])
           snapshots == req[h].op = "restore" \/ changed
           number == IF snapshots THEN CurrentVersionNumber(p) + 1 ELSE 0
           note == IF ~snapshots THEN next[h].note
                   ELSE IF req[h].op = "restore" THEN RestoreNote ELSE req[h].body.note
<1>1. /\ pc[h] = "stamp" /\ pc' = [pc EXCEPT ![h] = "commit"]
      /\ UNCHANGED <<dbVars, req, loaded, answer, view, issued, deleted, everLive>>
      /\ snap' = [snap EXCEPT ![h] = number]
  BY DEF StampWrite
<1>2. /\ loaded[h] \in Row /\ next[h] \in Row /\ p \in PromptIds
      /\ req[h].op \in {"update", "restore"}
      /\ req[h].op = "update" => req[h].body \in UpdateBody
  BY <1>1, LibraryAssumptions DEF IInv, TasksOK, TaskOK, ServingOK, StampOK, TypeOK, PromptIds
<1>3. CurrentVersionNumber(p) \in Nat
  BY <1>2 DEF IInv, NumbersOK
<1>4. PICK now \in Instants :
         next' = [next EXCEPT ![h] =
                    [@ EXCEPT !.stamp = NextWriteStamp(loaded[h].stamp, now),
                              !.note = IF ~snapshots THEN next[h].note
                                       ELSE IF req[h].op = "restore" THEN RestoreNote
                                       ELSE req[h].body.note]]
  BY Zenon DEF StampWrite
<1> DEFINE new == [next[h] EXCEPT !.stamp = NextWriteStamp(loaded[h].stamp, now),
                                  !.note = note]
<1>5. next' = [next EXCEPT ![h] = new]
  BY <1>2, <1>4 DEF Row
<1>6. /\ new \in Row /\ new.known = next[h].known
      /\ new.sections = next[h].sections /\ new.meta = next[h].meta
  <2>1. NextWriteStamp(loaded[h].stamp, now) \in Nat
    BY <1>2, LibraryAssumptions, StampAdvances DEF Row
  <2>2. note \in Notes \cup {RestoreNote, Unset}
    BY <1>2 DEF Row, UpdateBody
  <2> QED BY <1>2, <2>1, <2>2 DEF Row
<1> HIDE DEF new
<1>7. /\ next'[h] = new /\ loaded'[h] = loaded[h] /\ req'[h] = req[h]
      /\ pc'[h] = "commit" /\ snap'[h] = number
  BY <1>1, <1>5 DEF IInv, TypeOK
<1>8. CurrentVersionNumber(p)' = CurrentVersionNumber(p) /\ Live(p)' = Live(p)
  BY <1>1, <1>7 DEF CurrentVersionNumber, Live, dbVars
<1>9. Live(p) /\ next[h].known # loaded[h].known =>
         next[h].known <= CurrentVersionNumber(p) + 1 + (IF changed THEN 1 ELSE 0)
  BY <1>1 DEF IInv, TasksOK, TaskOK, StampOK
<1>10. StampOK(h)' /\ InsertOK(h)' /\ CommitOK(h)'
  BY <1>2, <1>3, <1>6, <1>7, <1>8, <1>9 DEF StampOK, InsertOK, CommitOK, Row
<1>11. number \in Nat
  BY <1>3
<1> QED
  BY <1>1, <1>5, <1>6, <1>10, <1>11, MoveOnStep

SameTask(g) ==
    /\ pc'[g] = pc[g] /\ req'[g] = req[g] /\ loaded'[g] = loaded[g]
    /\ next'[g] = next[g] /\ snap'[g] = snap[g] /\ answer'[g] = answer[g]

\* What a handler carries survives the steps of the others: ids are only
\* spent, and the history of a prompt that is still there only grows.
LEMMA OtherTask ==
    ASSUME IInv, NEW g \in Handlers, SameTask(g), lastId' \in Nat, lastId' >= lastId,
           \A q \in 1..lastId :
              Live(q)' => Live(q) /\ CurrentVersionNumber(q)' >= CurrentVersionNumber(q)
                                  /\ CurrentVersionNumber(q)' \in Nat
    PROVE  TaskOK(g)'
<1> USE DEF IInv, SameTask
<1>1. snap[g] \in Nat /\ (pc[g] \in {"check", "stamp", "commit"} => next[g].known \in Nat)
  BY DEF TasksOK, TaskOK, ServingOK, TypeOK, Row
<1>2. ServingOK(g)' /\ CheckOK(g)' /\ InsertOK(g)' /\ RespondOK(g)'
  BY DEF TasksOK, TaskOK, ServingOK, CheckOK, InsertOK, RespondOK, TypeOK
<1>3. \A q \in 1..lastId : q \in PromptIds /\ CurrentVersionNumber(q) \in Nat
  BY LibraryAssumptions DEF NumbersOK, PromptIds, TypeOK
<1>4. StampOK(g)'
  <2> SUFFICES ASSUME pc[g] = "stamp" PROVE StampOK(g)'
    BY DEF StampOK
  <2>1. StampOK(g) /\ req[g].op \in {"update", "restore"} /\ req[g].pid \in 1..lastId
    BY DEF TasksOK, TaskOK, StampOK, ServingOK
  <2>2. PICK q \in 1..lastId : q = req[g].pid
    BY <2>1
  <2> QED BY <1>1, <1>3, <2>1, <2>2 DEF StampOK, ContentChanged
<1>5. CommitOK(g)'
  <2> SUFFICES ASSUME pc[g] = "commit", req[g].op \in {"update", "restore"}
               PROVE  CommitOK(g)'
    BY DEF CommitOK
  <2>1. CommitOK(g) /\ req[g].pid \in 1..lastId
    BY DEF TasksOK, TaskOK, ServingOK
  <2>2. PICK q \in 1..lastId : q = req[g].pid
    BY <2>1
  <2> QED BY <1>1, <1>3, <2>1, <2>2 DEF CommitOK
<1> QED BY <1>2, <1>4, <1>5 DEF TaskOK

\* The commits.  The database may grow the history of one live prompt, which
\* only raises the bounds that the other handlers carry.
LEMMA CommitWriteStep ==
    ASSUME IInv, NEW h \in Handlers, CommitWrite(h)
    PROVE  IInv'
<1>0. /\ pc[h] = "commit" /\ req[h].op \in {"update", "restore"}
      /\ UNCHANGED <<req, view, issued>>
  BY DEF CommitWrite
<1>2. loaded[h] \in Row /\ next[h] \in Row /\ req[h].pid \in PromptIds
      /\ req[h].pid \in 1..lastId /\ req[h].client \in Clients
  BY <1>0, LibraryAssumptions DEF IInv, TasksOK, TaskOK, ServingOK, TypeOK, PromptIds
<1>p. PICK p \in PromptIds : p = req[h].pid
  BY <1>2
<1>1. /\ pc[h] = "commit" /\ req[h].op \in {"update", "restore"}
      /\ UNCHANGED <<req, view, issued>> /\ req[h].pid = p
  BY <1>0, <1>p
<1> DEFINE new == Flush(rows[p], loaded[h], next[h])
           added == IF snap[h] = 0 THEN {} ELSE {Snapshot(h)}
<1>3. CASE ~Live(p)
  <2>1. Fail(h, "error")
    BY <1>1, <1>3 DEF CommitWrite
  <2> QED BY <1>1, <2>1, FailStep DEF Answers
<1>4. CASE Live(p)
  <2>1. /\ rows' = [rows EXCEPT ![p] = new]
        /\ versions' = [versions EXCEPT ![p] = versions[p] \cup added]
        /\ lastVid' \in Nat
        /\ pc' = [pc EXCEPT ![h] = "respond"]
        /\ answer' = [answer EXCEPT ![h] = "ok"]
        /\ UNCHANGED <<lastId, loaded, next, snap, deleted>>
    BY <1>1, <1>2, <1>4 DEF CommitWrite, Done, IInv, TypeOK
  <2>2. rows[p] \in Row
    BY <1>2, <1>4 DEF IInv, TypeOK, Live
  <2>3. new \in Row /\ new.known = Column(rows[p].known, loaded[h].known, next[h].known)
    BY <1>2, <2>2, FlushIsRow
  <2> HIDE DEF new
  <2>4. snap[h] # 0 => Snapshot(h) \in Version /\ Snapshot(h).number = snap[h]
    BY <1>2 DEF Snapshot, Version, Row, IInv, TypeOK
  <2>5. TypeOK'
    <3>1. rows' \in [PromptIds -> Row \cup {NoRow}]
      BY <1>2, <2>1, <2>3 DEF IInv, TypeOK
    <3>2. versions' \in [PromptIds -> SUBSET Version]
      BY <1>2, <2>1, <2>4 DEF IInv, TypeOK
    <3> QED BY <1>1, <2>1, <3>1, <3>2 DEF IInv, TypeOK, Steps, Answers
  <2>6. /\ CurrentVersionNumber(p) \in Nat /\ Numbers(p) = 1..CurrentVersionNumber(p)
        /\ snap[h] \in Nat /\ snap[h] <= CurrentVersionNumber(p) + 1
    BY <1>1, <1>2, <1>4 DEF IInv, NumbersOK, TasksOK, TaskOK, CommitOK, TypeOK
  <2>7. \E k \in Nat : Numbers(p)' = 1..k /\ k >= CurrentVersionNumber(p) /\ k >= snap[h]
    <3>1. CASE snap[h] = 0
      <4>1. Numbers(p)' = Numbers(p)
        BY <1>1, <1>2, <2>1, <3>1 DEF Numbers, IInv, TypeOK
      <4> QED BY <2>6, <3>1, <4>1
    <3>2. CASE snap[h] # 0
      <4>1. Numbers(p)' = Numbers(p) \cup {snap[h]}
        BY <1>1, <1>2, <2>1, <2>4, <3>2 DEF Numbers, IInv, TypeOK
      <4> QED BY <2>6, <3>2, <4>1, ExtendSegment
    <3> QED BY <3>1, <3>2
  <2>8. /\ CurrentVersionNumber(p)' \in Nat
        /\ Numbers(p)' = 1..CurrentVersionNumber(p)'
        /\ CurrentVersionNumber(p)' >= CurrentVersionNumber(p)
        /\ CurrentVersionNumber(p)' >= snap[h]
    <3>1. PICK k \in Nat : Numbers(p)' = 1..k /\ k >= CurrentVersionNumber(p) /\ k >= snap[h]
      BY <2>7
    <3>2. CurrentVersionNumber(p)' = k
      BY <1>1, <1>2, <3>1, TopOfSegment DEF CurrentVersionNumber, Numbers
    <3> QED BY <3>1, <3>2
  <2>9. ASSUME NEW q \in PromptIds, q # p
        PROVE  /\ CurrentVersionNumber(q)' = CurrentVersionNumber(q)
               /\ Numbers(q)' = Numbers(q) /\ Live(q)' = Live(q)
    BY <2>1, <2>9 DEF CurrentVersionNumber, Numbers, Live, IInv, TypeOK
  <2>10. Live(p)' /\ rows'[p] = new
    BY <1>1, <1>2, <2>1, <2>3, LibraryAssumptions DEF Live, IInv, TypeOK
  <2>11. NumbersOK'
    BY <1>1, <2>8, <2>9 DEF IInv, NumbersOK
  <2>12. IdsOK'
    BY <1>1, <1>2, <1>4, <2>1, <2>9, <2>10 DEF IInv, IdsOK, TypeOK
  <2>13. ViewsOK'
    BY <1>1, <2>1 DEF IInv, ViewsOK
  <2>14. ASSUME NEW q \in PromptIds, Live(q)'
         PROVE  /\ CurrentVersionNumber(q)' >= CurrentVersionNumber(q) /\ Live(q)
                /\ CurrentVersionNumber(q)' \in Nat /\ CurrentVersionNumber(q) \in Nat
    <3>1. CASE q = p
      BY <1>4, <2>6, <2>8, <3>1
    <3>2. CASE q # p
      BY <2>9, <2>14, <3>2 DEF IInv, NumbersOK
    <3> QED BY <3>1, <3>2
  <2>15. ASSUME NEW g \in Handlers, g # h PROVE TaskOK(g)'
    <3>1. SameTask(g)
      BY <1>1, <2>1, <2>15 DEF IInv, TypeOK, SameTask
    <3>2. \A q \in 1..lastId :
             Live(q)' => Live(q) /\ CurrentVersionNumber(q)' >= CurrentVersionNumber(q)
                                 /\ CurrentVersionNumber(q)' \in Nat
      BY <2>14, LibraryAssumptions DEF IInv, TypeOK, PromptIds
    <3> QED BY <2>1, <3>1, <3>2, OtherTask DEF IInv, TypeOK
  <2>16. TaskOK(h)'
    BY <1>1, <1>2, <2>1
    DEF IInv, TypeOK, TaskOK, ServingOK, CheckOK, StampOK, InsertOK, CommitOK, RespondOK
  <2>17. KnownGoodExists'
    <3> SUFFICES ASSUME NEW q \in PromptIds, Live(q)'
                 PROVE  rows'[q].known <= LiveVersionNumber(q)'
      BY DEF KnownGoodExists
    <3>1. CASE q # p
      BY <2>1, <2>9, <3>1 DEF IInv, TypeOK, KnownGoodExists, LiveVersionNumber
    <3>2. CASE q = p
      <4>1. rows[p].known <= CurrentVersionNumber(p) + 1
        BY <1>4 DEF IInv, KnownGoodExists, LiveVersionNumber
      <4>2. next[h].known # loaded[h].known =>
              \/ next[h].known <= CurrentVersionNumber(p) + 1
              \/ next[h].known <= snap[h] + 1
        BY <1>1, <1>4 DEF IInv, TasksOK, TaskOK, CommitOK
      <4>3. next[h].known \in Nat /\ rows[p].known \in Nat
        BY <1>2, <2>2 DEF Row
      <4>4. new.known <= CurrentVersionNumber(p)' + 1
        BY <2>3, <2>6, <2>8, <4>1, <4>2, <4>3 DEF Column
      <4> QED BY <1>1, <2>10, <3>2, <4>4 DEF LiveVersionNumber
    <3> QED BY <3>1, <3>2
  <2> QED
    BY <2>5, <2>11, <2>12, <2>13, <2>15, <2>16, <2>17 DEF IInv, TasksOK
<1> QED BY <1>3, <1>4

LEMMA CommitInsertStep ==
    ASSUME IInv, NEW h \in Handlers, CommitInsert(h)
    PROVE  IInv'
<1>1. NextId = lastId + 1
  BY NextIdIsFresh DEF IInv
<1>2. PICK p \in PromptIds, now \in Instants :
        /\ p = lastId + 1
        /\ rows' = [rows EXCEPT ![p] = [next[h] EXCEPT !.stamp = now]]
        /\ req' = [req EXCEPT ![h].pid = p]
        /\ lastId' = p
        /\ pc[h] = "commit" /\ req[h].op \in {"create", "duplicate"}
        /\ pc' = [pc EXCEPT ![h] = "respond"]
        /\ answer' = [answer EXCEPT ![h] = "ok"]
        /\ UNCHANGED <<versions, lastVid, loaded, next, snap, view, issued, deleted>>
  BY <1>1 DEF CommitInsert, Done
<1> DEFINE row == [next[h] EXCEPT !.stamp = now]
<1>3. /\ next[h] \in Row /\ req[h].client \in Clients /\ next[h].known = 0
      /\ lastId \in Nat /\ p \in Nat /\ p \in 1..lastId' /\ lastId' \in Nat
  BY <1>2, LibraryAssumptions
  DEF IInv, TasksOK, TaskOK, ServingOK, InsertOK, TypeOK, PromptIds
<1>4. row \in Row /\ now \in Nat /\ row.known = 0
  BY <1>3, LibraryAssumptions DEF Row
<1>a. rows' = [rows EXCEPT ![p] = row]
  BY <1>2
<1>b. /\ req'[h].client = req[h].client /\ req'[h].pid = p /\ req'[h].op = req[h].op
      /\ pc'[h] = "respond" /\ req' \in [Handlers -> Request]
  <2> DEFINE r == [req[h] EXCEPT !.pid = p]
  <2>1. req[h] \in Request
    BY DEF IInv, TypeOK
  <2>2. r \in Request /\ r.client = req[h].client /\ r.pid = p /\ r.op = req[h].op
    BY <1>3, <2>1 DEF Request
  <2>3. req' = [req EXCEPT ![h] = r]
    BY <1>2
  <2> HIDE DEF r
  <2> QED BY <1>2, <2>2, <2>3 DEF IInv, TypeOK
<1>5. p \notin deleted /\ ~Live(p) /\ versions[p] = {}
  BY <1>2, <1>3 DEF IInv, IdsOK, TypeOK
<1> HIDE DEF row
<1>6. TypeOK'
  <2>1. rows' \in [PromptIds -> Row \cup {NoRow}]
    BY <1>4, <1>a DEF IInv, TypeOK
  <2>3. lastId' \in 0..MaxPrompts
    BY <1>2, LibraryAssumptions DEF PromptIds
  <2> QED BY <1>2, <1>b, <2>1, <2>3 DEF IInv, TypeOK, Steps, Answers
<1>7. \A q : CurrentVersionNumber(q)' = CurrentVersionNumber(q) /\ Numbers(q)' = Numbers(q)
  BY <1>2 DEF CurrentVersionNumber, Numbers
<1>8. \A q \in PromptIds : q # p => Live(q)' = Live(q) /\ rows'[q] = rows[q]
  BY <1>2 DEF Live, IInv, TypeOK
<1>9. rows'[p] = row /\ Live(p)'
  BY <1>4, <1>a, LibraryAssumptions DEF IInv, TypeOK, Live
<1>10. NumbersOK'
  BY <1>7 DEF IInv, NumbersOK
<1>11. IdsOK'
  <2>1. \A q \in PromptIds : Live(q)' => q <= lastId'
    BY <1>2, <1>3, <1>8 DEF IInv, IdsOK, PromptIds
  <2>2. \A q \in PromptIds : ~Live(q)' => versions'[q] = {}
    BY <1>2, <1>8, <1>9 DEF IInv, IdsOK
  <2>3. \A q \in deleted' : q <= lastId' /\ ~Live(q)'
    <3> SUFFICES ASSUME NEW q \in deleted PROVE q <= lastId' /\ ~Live(q)'
      BY <1>2
    <3>1. q \in PromptIds /\ q # p /\ q <= lastId /\ ~Live(q) /\ q \in Nat
      BY <1>5 DEF IInv, IdsOK, TypeOK, PromptIds
    <3>2. ~Live(q)'
      BY <1>8, <3>1
    <3> QED BY <1>2, <1>3, <3>1, <3>2
  <2> QED BY <2>1, <2>2, <2>3 DEF IdsOK
<1>12. ViewsOK'
  BY <1>2, <1>3 DEF IInv, ViewsOK, TypeOK, PromptIds
<1>13. KnownGoodExists'
  <2> SUFFICES ASSUME NEW q \in PromptIds, Live(q)'
               PROVE  rows'[q].known <= LiveVersionNumber(q)'
    BY DEF KnownGoodExists
  <2>1. CASE q # p
    BY <1>7, <1>8, <2>1 DEF IInv, KnownGoodExists, LiveVersionNumber
  <2>2. CASE q = p
    <3>1. CurrentVersionNumber(p)' \in Nat
      BY <1>10 DEF NumbersOK
    <3> QED BY <1>4, <1>9, <2>2, <3>1 DEF LiveVersionNumber
  <2> QED BY <2>1, <2>2
<1>14. TaskOK(h)'
  BY <1>3, <1>b
  DEF TaskOK, ServingOK, CheckOK, StampOK, InsertOK, CommitOK, RespondOK
<1>15. ASSUME NEW g \in Handlers, g # h PROVE TaskOK(g)'
  <2>1. SameTask(g)
    BY <1>2, <1>15 DEF IInv, TypeOK, SameTask
  <2>2. \A q \in 1..lastId :
           Live(q)' => Live(q) /\ CurrentVersionNumber(q)' >= CurrentVersionNumber(q)
                               /\ CurrentVersionNumber(q)' \in Nat
    <3> SUFFICES ASSUME NEW q \in 1..lastId, Live(q)'
                 PROVE  Live(q) /\ CurrentVersionNumber(q)' >= CurrentVersionNumber(q)
                                /\ CurrentVersionNumber(q)' \in Nat
      OBVIOUS
    <3>1. q \in PromptIds /\ q # p
      BY <1>2, <1>3, LibraryAssumptions DEF IInv, TypeOK, PromptIds
    <3>2. CurrentVersionNumber(q) \in Nat /\ CurrentVersionNumber(q)' = CurrentVersionNumber(q)
      BY <1>7, <3>1 DEF IInv, NumbersOK
    <3> QED BY <1>8, <3>1, <3>2
  <2> QED BY <1>2, <1>3, <2>1, <2>2, OtherTask
<1> QED
  BY <1>6, <1>10, <1>11, <1>12, <1>13, <1>14, <1>15 DEF IInv, TasksOK

LEMMA CommitDeleteStep ==
    ASSUME IInv, NEW h \in Handlers, CommitDelete(h)
    PROVE  IInv'
<1>1. /\ pc[h] = "commit" /\ req[h].op = "delete"
      /\ pc' = [pc EXCEPT ![h] = "respond"]
      /\ answer' = [answer EXCEPT ![h] = "ok"]
      /\ UNCHANGED <<lastId, lastVid, req, loaded, next, snap, view, issued>>
  BY DEF CommitDelete, Done
<1>2. req[h].pid \in PromptIds /\ req[h].pid \in 1..lastId /\ req[h].client \in Clients
  BY <1>1, LibraryAssumptions DEF IInv, TasksOK, TaskOK, ServingOK, TypeOK, PromptIds
<1>3. PICK p \in PromptIds : p = req[h].pid
  BY <1>2
<1>4. /\ rows' = [rows EXCEPT ![p] = NoRow] /\ versions' = [versions EXCEPT ![p] = {}]
      /\ deleted' = deleted \cup {p} /\ p <= lastId
  BY <1>2, <1>3 DEF CommitDelete
<1>5. TypeOK'
  <2>1. /\ rows' \in [PromptIds -> Row \cup {NoRow}]
        /\ versions' \in [PromptIds -> SUBSET Version]
        /\ deleted' \subseteq PromptIds
    BY <1>4 DEF IInv, TypeOK
  <2> QED BY <1>1, <2>1 DEF IInv, TypeOK, Steps, Answers
<1>6. ~Live(p)' /\ versions'[p] = {}
  BY <1>4 DEF IInv, TypeOK, Live
<1>7. ASSUME NEW q \in PromptIds, q # p
      PROVE  /\ CurrentVersionNumber(q)' = CurrentVersionNumber(q)
             /\ Numbers(q)' = Numbers(q) /\ Live(q)' = Live(q)
             /\ rows'[q] = rows[q] /\ versions'[q] = versions[q]
  BY <1>4, <1>7 DEF CurrentVersionNumber, Numbers, Live, IInv, TypeOK
<1>8. CurrentVersionNumber(p)' = 0 /\ Numbers(p)' = 1..0
  <2>1. Numbers(p)' = {} /\ {v.number : v \in versions'[p]} \cup {0} = (1..0) \cup {0}
    BY <1>6 DEF Numbers
  <2>2. CurrentVersionNumber(p)' = 0
    BY <2>1, TopOfSegment DEF CurrentVersionNumber
  <2> QED BY <2>1, <2>2
<1>9. NumbersOK'
  <2> SUFFICES ASSUME NEW q \in PromptIds
               PROVE  /\ CurrentVersionNumber(q)' \in Nat
                      /\ Numbers(q)' = 1..CurrentVersionNumber(q)'
    BY DEF NumbersOK
  <2>1. CASE q = p
    BY <1>8, <2>1
  <2>2. CASE q # p
    BY <1>7, <2>2 DEF IInv, NumbersOK
  <2> QED BY <2>1, <2>2
<1>10. IdsOK'
  <2>1. \A q \in PromptIds : Live(q)' => q <= lastId'
    BY <1>1, <1>6, <1>7 DEF IInv, IdsOK
  <2>2. \A q \in PromptIds : ~Live(q)' => versions'[q] = {}
    BY <1>6, <1>7 DEF IInv, IdsOK
  <2>3. \A q \in deleted' : q <= lastId' /\ ~Live(q)'
    BY <1>1, <1>4, <1>6, <1>7 DEF IInv, IdsOK, TypeOK
  <2> QED BY <2>1, <2>2, <2>3 DEF IdsOK
<1>11. ViewsOK'
  BY <1>1 DEF IInv, ViewsOK
<1>12. KnownGoodExists'
  BY <1>6, <1>7 DEF IInv, KnownGoodExists, LiveVersionNumber
<1>13. TaskOK(h)'
  BY <1>1, <1>2
  DEF IInv, TypeOK, TaskOK, ServingOK, CheckOK, StampOK, InsertOK, CommitOK, RespondOK
<1>14. ASSUME NEW g \in Handlers, g # h PROVE TaskOK(g)'
  <2>1. SameTask(g)
    BY <1>1, <1>14 DEF IInv, TypeOK, SameTask
  <2>2. \A q \in 1..lastId :
           Live(q)' => Live(q) /\ CurrentVersionNumber(q)' >= CurrentVersionNumber(q)
                               /\ CurrentVersionNumber(q)' \in Nat
    <3> SUFFICES ASSUME NEW q \in 1..lastId, Live(q)'
                 PROVE  Live(q) /\ CurrentVersionNumber(q)' >= CurrentVersionNumber(q)
                                /\ CurrentVersionNumber(q)' \in Nat
      OBVIOUS
    <3>1. q \in PromptIds /\ q # p
      BY <1>6, LibraryAssumptions DEF IInv, TypeOK, PromptIds
    <3>2. CurrentVersionNumber(q) \in Nat /\ CurrentVersionNumber(q)' = CurrentVersionNumber(q)
      BY <1>7, <3>1 DEF IInv, NumbersOK
    <3> QED BY <1>7, <3>1, <3>2
  <2> QED BY <1>1, <2>1, <2>2, OtherTask DEF IInv, TypeOK
<1> QED
  BY <1>5, <1>9, <1>10, <1>11, <1>12, <1>13, <1>14 DEF IInv, TasksOK

LEMMA AnswerStep ==
    ASSUME IInv, NEW h \in Handlers, Respond(h) \/ LoseAnswer(h)
    PROVE  IInv'
<1>1. /\ pc[h] = "respond"
      /\ pc' = [pc EXCEPT ![h] = "idle"] /\ req' = [req EXCEPT ![h] = NoRequest]
      /\ loaded' = [loaded EXCEPT ![h] = NoRow] /\ next' = [next EXCEPT ![h] = NoRow]
      /\ snap' = [snap EXCEPT ![h] = 0] /\ answer' = [answer EXCEPT ![h] = "none"]
      /\ UNCHANGED <<dbVars, issued, deleted, everLive>>
  BY DEF Respond, LoseAnswer, EndRequest
<1>2. NoRequest \in Request
  BY DEF NoRequest, Request, Ops
<1>3. /\ view' \in [Clients -> [pid : PromptIds, row : Row] \cup {NoRow}]
      /\ ViewsOK'
  <2>1. CASE view' = view
    BY <1>1, <2>1 DEF IInv, TypeOK, ViewsOK, dbVars
  <2>2. CASE /\ answer[h] = "ok" /\ Live(req[h].pid)
             /\ view' = [view EXCEPT ![req[h].client] =
                           [pid |-> req[h].pid, row |-> rows[req[h].pid]]]
    <3>1. req[h].pid \in 1..lastId /\ req[h].pid \in PromptIds /\ req[h].client \in Clients
      BY <1>1, <2>2, LibraryAssumptions
      DEF IInv, TasksOK, TaskOK, RespondOK, TypeOK, PromptIds
    <3>2. rows[req[h].pid] \in Row
      BY <2>2, <3>1 DEF IInv, TypeOK, Live
    <3> DEFINE v == [pid |-> req[h].pid, row |-> rows[req[h].pid]]
    <3>3. v \in [pid : PromptIds, row : Row] /\ v.pid <= lastId
      BY <3>1, <3>2
    <3> HIDE DEF v
    <3>4. view' = [view EXCEPT ![req[h].client] = v]
      BY <2>2 DEF v
    <3> QED BY <1>1, <3>1, <3>3, <3>4 DEF IInv, TypeOK, ViewsOK, dbVars
  <2> QED BY <2>1, <2>2 DEF Respond, LoseAnswer
<1>4. TypeOK'
  BY <1>1, <1>2, <1>3 DEF IInv, TypeOK, dbVars, Steps, Answers
<1>5. TaskOK(h)'
  BY <1>1
  DEF IInv, TypeOK, TaskOK, ServingOK, CheckOK, StampOK, InsertOK, CommitOK, RespondOK
<1> QED
  BY <1>1, <1>3, <1>4, <1>5, LocalStep DEF IInv, TypeOK, dbVars

\* A step that serves no request and at most refiles prompts or answers a GET.
LEMMA FetchStep ==
    ASSUME IInv, NEW c \in Clients, NEW p \in PromptIds, Fetch(c, p)
    PROVE  IInv'
<1> DEFINE v == [pid |-> p, row |-> rows[p]]
<1>1. /\ view' = [view EXCEPT ![c] = v] /\ Live(p)
      /\ UNCHANGED <<dbVars, taskVars, deleted, everLive>>
      /\ issued' \in 0..MaxRequests
  BY LibraryAssumptions DEF IInv, TypeOK, Fetch
<1>2. v \in [pid : PromptIds, row : Row] /\ v.pid <= lastId
  BY <1>1 DEF IInv, TypeOK, Live, IdsOK
<1> HIDE DEF v
<1>3. TypeOK' /\ ViewsOK'
  BY <1>1, <1>2 DEF IInv, TypeOK, ViewsOK, dbVars, taskVars
<1>4. \A q : /\ CurrentVersionNumber(q)' = CurrentVersionNumber(q)
             /\ Live(q)' = Live(q) /\ Numbers(q)' = Numbers(q)
  BY <1>1 DEF CurrentVersionNumber, Live, Numbers, dbVars
<1>5. NumbersOK' /\ IdsOK' /\ KnownGoodExists'
  BY <1>1, <1>4 DEF IInv, NumbersOK, IdsOK, KnownGoodExists, LiveVersionNumber, dbVars
<1>6. ASSUME NEW g \in Handlers PROVE TaskOK(g)'
  <2>1. SameTask(g)
    BY <1>1 DEF SameTask, taskVars
  <2>2. \A q \in 1..lastId : q \in PromptIds /\ CurrentVersionNumber(q) \in Nat
    BY LibraryAssumptions DEF IInv, NumbersOK, TypeOK, PromptIds
  <2> QED BY <1>1, <1>4, <2>1, <2>2, OtherTask DEF IInv, TypeOK, dbVars
<1> QED BY <1>3, <1>5, <1>6 DEF IInv, TasksOK

LEMMA MoveFolderStep ==
    ASSUME IInv, NEW from \in Folders, NEW to \in Folders \cup {NoFolder},
           MoveFolder(from, to)
    PROVE  IInv'
<1>1. /\ rows' = [p \in PromptIds |-> IF Live(p) /\ rows[p].folder = from
                                      THEN [rows[p] EXCEPT !.folder = to] ELSE rows[p]]
      /\ issued' \in 0..MaxRequests
      /\ UNCHANGED <<versions, lastId, lastVid, taskVars, view, deleted, everLive>>
  BY LibraryAssumptions DEF IInv, TypeOK, MoveFolder
<1>2. ASSUME NEW p \in PromptIds
      PROVE  /\ rows'[p] \in Row \cup {NoRow} /\ Live(p)' = Live(p)
             /\ Live(p) => rows'[p].known = rows[p].known
  <2>1. CASE Live(p) /\ rows[p].folder = from
    <3>1. rows[p] \in Row
      BY <2>1 DEF IInv, TypeOK, Live
    <3>2. /\ [rows[p] EXCEPT !.folder = to] \in Row
          /\ [rows[p] EXCEPT !.folder = to].known = rows[p].known
      BY <3>1 DEF Row
    <3>3. rows'[p] = [rows[p] EXCEPT !.folder = to]
      BY <1>1, <2>1
    <3> QED BY <2>1, <3>2, <3>3, LibraryAssumptions DEF Live
  <2>2. CASE ~(Live(p) /\ rows[p].folder = from)
    <3>1. rows'[p] = rows[p]
      BY <1>1, <2>2
    <3> QED BY <3>1 DEF IInv, TypeOK, Live
  <2> QED BY <2>1, <2>2
<1>3. rows' \in [PromptIds -> Row \cup {NoRow}]
  BY <1>1, <1>2
<1>4. TypeOK' /\ ViewsOK'
  BY <1>1, <1>3 DEF IInv, TypeOK, ViewsOK, taskVars
<1>5. \A q : /\ CurrentVersionNumber(q)' = CurrentVersionNumber(q)
             /\ Numbers(q)' = Numbers(q)
  BY <1>1 DEF CurrentVersionNumber, Numbers
<1>6. NumbersOK' /\ IdsOK' /\ KnownGoodExists'
  BY <1>1, <1>2, <1>5 DEF IInv, NumbersOK, IdsOK, KnownGoodExists, LiveVersionNumber, TypeOK
<1>7. ASSUME NEW g \in Handlers PROVE TaskOK(g)'
  <2>1. SameTask(g)
    BY <1>1 DEF SameTask, taskVars
  <2>2. \A q \in 1..lastId : q \in PromptIds /\ CurrentVersionNumber(q) \in Nat
    BY LibraryAssumptions DEF IInv, NumbersOK, TypeOK, PromptIds
  <2>3. lastId' \in Nat /\ lastId' >= lastId
    BY <1>1 DEF IInv, TypeOK
  <2>4. \A q \in 1..lastId :
           Live(q)' => Live(q) /\ CurrentVersionNumber(q)' >= CurrentVersionNumber(q)
                               /\ CurrentVersionNumber(q)' \in Nat
    BY <1>2, <1>5, <2>2
  <2> QED BY <2>1, <2>3, <2>4, OtherTask
<1> QED BY <1>4, <1>6, <1>7 DEF IInv, TasksOK

LEMMA StutterStep ==
    ASSUME IInv, UNCHANGED vars
    PROVE  IInv'
<1> USE DEF IInv, vars
<1>1. \A p : /\ CurrentVersionNumber(p)' = CurrentVersionNumber(p)
             /\ Live(p)' = Live(p) /\ Numbers(p)' = Numbers(p)
  BY DEF CurrentVersionNumber, Live, Numbers
<1>2. TypeOK' /\ ViewsOK'
  BY DEF TypeOK, ViewsOK
<1>3. NumbersOK' /\ IdsOK' /\ KnownGoodExists'
  BY <1>1 DEF NumbersOK, IdsOK, KnownGoodExists, LiveVersionNumber
<1>4. TasksOK'
  BY <1>1 DEF TasksOK, TaskOK, ServingOK, CheckOK, StampOK, InsertOK, CommitOK, RespondOK,
              ContentChanged
<1> QED BY <1>2, <1>3, <1>4

LEMMA NextIInv == IInv /\ [Next]_vars => IInv'
<1> SUFFICES ASSUME IInv, [Next]_vars PROVE IInv'
  OBVIOUS
<1>1. ASSUME NEW h \in Handlers, Send(h) PROVE IInv'
  BY <1>1, SendStep
<1>2. ASSUME NEW h \in Handlers, Serve(h) PROVE IInv'
  <2>1. CASE CommitFails(h)
    BY <2>1, FailStep DEF CommitFails, Answers
  <2> QED
    BY <1>2, <2>1, CheckUpdateStep, CheckRestoreStep, CheckDuplicateStep, StampWriteStep,
       CommitWriteStep, CommitInsertStep, CommitDeleteStep, AnswerStep DEF Serve
<1>3. ASSUME NEW c \in Clients, NEW p \in PromptIds, Fetch(c, p) PROVE IInv'
  BY <1>3, FetchStep
<1>4. ASSUME NEW from \in Folders, NEW to \in Folders \cup {NoFolder}, MoveFolder(from, to)
      PROVE IInv'
  BY <1>4, MoveFolderStep
<1>5. CASE UNCHANGED vars
  BY <1>5, StutterStep
<1>6. CASE Quiescent
  BY <1>6, StutterStep DEF Quiescent
<1> QED BY <1>1, <1>2, <1>3, <1>4, <1>5, <1>6 DEF Next

\* The invariant, for any number of handlers and clients.
LEMMA Inductive == Spec => []IInv
  BY InitIInv, NextIInv, PTL DEF Spec

-----------------------------------------------------------------------------

\* Tables, handler locals and client views keep their types.
THEOREM TypeCorrect == Spec => []TypeOK
<1>1. IInv => TypeOK
  BY DEF IInv
<1> QED BY <1>1, Inductive, PTL

\* next_id never hands out the id of a deleted prompt, and a late commit of
\* another handler never brings a deleted prompt's history back, however the
\* handlers interleave.
THEOREM IdsAreNeverReused == Spec => []IdsNeverReused
<1>1. IInv => IdsNeverReused
  BY DEF IInv, TypeOK, IdsOK, IdsNeverReused
<1> QED BY <1>1, Inductive, PTL

\* snapshot numbers the versions of a prompt without gaps, even when two
\* handlers number their snapshots from the same reading.
THEOREM NumbersAreContiguous == Spec => []VersionNumbersContiguous
<1>1. IInv => VersionNumbersContiguous
  <2> SUFFICES ASSUME IInv, NEW p \in PromptIds, NEW v \in versions[p], v.number # 1
               PROVE  \E w \in versions[p] : w.number + 1 = v.number
    BY DEF VersionNumbersContiguous
  <2>1. /\ CurrentVersionNumber(p) \in Nat /\ Numbers(p) = 1..CurrentVersionNumber(p)
        /\ v.number \in Numbers(p)
    BY DEF IInv, NumbersOK, Numbers
  <2>2. v.number \in Nat /\ v.number - 1 \in Numbers(p)
    BY <2>1
  <2>3. PICK w \in versions[p] : w.number = v.number - 1
    BY <2>2 DEF Numbers
  <2> QED BY <2>2, <2>3
<1> QED BY <1>1, Inductive, PTL

\* The mark that update_prompt validated in an earlier statement still names an
\* existing version when it is committed, whatever other handlers did between.
THEOREM KnownGoodAlwaysExists == Spec => []KnownGoodExists
<1>1. IInv => KnownGoodExists
  BY DEF IInv
<1> QED BY <1>1, Inductive, PTL

-----------------------------------------------------------------------------
(* The past of a prompt *)


Contents == [sections : Sections, text : Texts, meta : Metas \cup {Unset},
             note : Notes \cup {RestoreNote, Unset}]

\* A handler that holds a prompt it is about to write.
Writing(h) ==
    pc[h] \in {"check", "stamp", "commit"} /\ req[h].op \in {"update", "restore"}

\* The live row, every version and every row in a handler's hands is a state
\* the prompt was in.
PastOK ==
    /\ everLive \in [PromptIds -> SUBSET Contents]
    /\ \A p \in PromptIds : Live(p) => Content(rows[p]) \in everLive[p]
    /\ VersionsWereLive
    /\ \A h \in Handlers :
          (Writing(h) /\ Live(req[h].pid)) => Content(loaded[h]) \in everLive[req[h].pid]

PastInv == IInv /\ PastOK

-----------------------------------------------------------------------------

LEMMA ContentIs ==
    ASSUME NEW r \in Row
    PROVE  /\ Content(r) \in Contents
           /\ Content(r).sections = r.sections /\ Content(r).text = r.text
           /\ Content(r).meta = r.meta /\ Content(r).note = r.note
  BY DEF Content, Contents, Row

LEMMA InitPast == Init => PastInv
  <1> SUFFICES ASSUME Init PROVE PastOK
    BY InitIInv DEF PastInv
  <1>1. CASE EmptyDatabase
    BY <1>1 DEF Init, EmptyDatabase, PastOK, VersionsWereLive, Writing, Live
  <1>2. CASE MigratedDatabase
    <2>1. PICK old \in LegacyPrompts, m \in Metas :
             \E s \in SectionsForText(old[2], old[1]) : Migrated(old, m, s)
      BY <1>2 DEF MigratedDatabase
    <2>2. PICK s \in SectionsForText(old[2], old[1]) : Migrated(old, m, s)
      BY <2>1
    <2> DEFINE kept == IF Render[old[1]] # old[2] THEN {DriftedVersion(old)} ELSE {}
               contents == {Content(v) : v \in kept \cup {MigratedRow(s, m)}}
    <2>3. /\ rows = [p \in PromptIds |-> IF p = 1 THEN MigratedRow(s, m) ELSE NoRow]
          /\ versions = [p \in PromptIds |-> IF p = 1 THEN kept ELSE {}]
          /\ everLive = [p \in PromptIds |-> IF p = 1 THEN contents ELSE {}]
      BY <2>2 DEF Migrated
    <2>4. contents \in SUBSET Contents
      <3>1. s \in Sections /\ old[1] \in Sections /\ old[2] \in Texts /\ Render[s] \in Texts
        BY <2>2, LibraryAssumptions DEF SectionsForText
      <3>2. Content(MigratedRow(s, m)) \in Contents
        BY <3>1 DEF Content, MigratedRow, Contents
      <3>3. Content(DriftedVersion(old)) \in Contents
        BY <3>1 DEF Content, DriftedVersion, Contents
      <3> QED BY <3>2, <3>3
    <2>5. /\ Content(MigratedRow(s, m)) \in contents
          /\ \A v \in kept : Content(v) \in contents
      OBVIOUS
    <2> HIDE DEF kept, contents
    <2>6. \A h \in Handlers : ~Writing(h)
      BY DEF Init, Writing
    <2> QED BY <2>3, <2>4, <2>5, <2>6 DEF PastOK, VersionsWereLive, Live
  <1> QED BY <1>1, <1>2 DEF Init

\* A step that leaves prompts and versions alone: a handler keeps the row it
\* has, or takes the live one.
LEMMA QuietPast ==
    ASSUME PastInv, UNCHANGED <<rows, versions, everLive>>,
           \A g \in Handlers : Writing(g)' =>
              \/ Writing(g) /\ req'[g].pid = req[g].pid /\ loaded'[g] = loaded[g]
              \/ req'[g].pid \in PromptIds /\ loaded'[g] = rows[req'[g].pid]
    PROVE  PastOK'
  <1>1. \A p : Live(p)' = Live(p)
    BY DEF Live
  <1>2. \A g \in Handlers : (Writing(g)' /\ Live(req'[g].pid)) =>
           Content(loaded'[g]) \in everLive[req'[g].pid]
    BY DEF PastInv, PastOK
  <1> QED BY <1>1, <1>2 DEF PastInv, PastOK, VersionsWereLive, Content, Live


LEMMA LoadPast ==
    ASSUME PastInv, NEW h \in Handlers, NEW r \in Request, Load(h, r),
           r.pid \in PromptIds
    PROVE  PastOK'
  <1>1. /\ pc[h] = "idle" /\ req' = [req EXCEPT ![h] = r]
        /\ UNCHANGED <<rows, versions, everLive>>
    BY DEF Load, Fail, dbVars
  <1>2. \/ pc' = [pc EXCEPT ![h] = "respond"] /\ UNCHANGED loaded
        \/ /\ loaded' = [loaded EXCEPT ![h] = rows[r.pid]]
           /\ \E step \in Steps : pc' = [pc EXCEPT ![h] = step]
    BY DEF Load, Fail, Steps
  <1>3. ASSUME NEW g \in Handlers, Writing(g)'
        PROVE  \/ Writing(g) /\ req'[g].pid = req[g].pid /\ loaded'[g] = loaded[g]
               \/ req'[g].pid \in PromptIds /\ loaded'[g] = rows[req'[g].pid]
    BY <1>1, <1>2, <1>3 DEF Writing, PastInv, IInv, TypeOK
  <1> QED BY <1>1, <1>3, QuietPast

LEMMA SendPast ==
    ASSUME PastInv, NEW h \in Handlers, Send(h)
    PROVE  PastOK'
  <1> USE DEF PastInv, IInv
  <1>1. PICK c \in Clients :
           \/ \E b \in CreateBodies : SendCreate(h, c, b)
           \/ \E b \in UpdateBodies : SendUpdate(h, c, b)
           \/ \E p \in 1..lastId :
                 \/ \E b \in BlindBodies : SendBlindUpdate(h, c, p, b)
                 \/ \E vid \in 1..lastVid : SendRestore(h, c, p, vid)
                 \/ SendDelete(h, c, p)
                 \/ SendDuplicate(h, c, p)
    BY DEF Send
  <1>2. ASSUME NEW b \in CreateBodies, SendCreate(h, c, b) PROVE PastOK'
    <2>1. /\ UNCHANGED <<rows, versions, everLive, loaded>>
          /\ req'[h].op = "create"
          /\ \A g \in Handlers \ {h} : pc'[g] = pc[g] /\ req'[g] = req[g]
      BY <1>2 DEF SendCreate, dbVars, TypeOK
    <2>2. ASSUME NEW g \in Handlers, Writing(g)'
          PROVE  Writing(g) /\ req'[g].pid = req[g].pid /\ loaded'[g] = loaded[g]
      BY <2>1, <2>2 DEF Writing
    <2> QED BY <2>1, <2>2, QuietPast
  <1>3. ASSUME NEW b \in UpdateBodies, SendUpdate(h, c, b) PROVE PastOK'
    <2> DEFINE r == [op |-> "update", client |-> c, pid |-> view[c].pid, body |-> b,
                     vid |-> 0, seen |-> view[c].row]
    <2>1. /\ view[c].pid \in PromptIds /\ view[c].row \in Row /\ b \in UpdateBody
      BY <1>3, LibraryAssumptions DEF SendUpdate, TypeOK
    <2>2. r \in Request /\ r.pid \in PromptIds
      BY <2>1 DEF Request, Ops, PromptIds
    <2>3. Load(h, r)
      BY <1>3 DEF SendUpdate
    <2> HIDE DEF r
    <2> QED BY <2>2, <2>3, LoadPast
  <1>4. ASSUME NEW p \in 1..lastId, NEW op \in {"update", "restore", "delete", "duplicate"},
               NEW body \in UpdateBody \cup {Unset}, NEW vid \in Nat,
               Load(h, [op |-> op, client |-> c, pid |-> p, body |-> body,
                        vid |-> vid, seen |-> NoRow])
        PROVE  PastOK'
    <2> DEFINE r == [op |-> op, client |-> c, pid |-> p, body |-> body,
                     vid |-> vid, seen |-> NoRow]
    <2>1. p \in PromptIds
      BY LibraryAssumptions DEF TypeOK, PromptIds
    <2>2. r \in Request /\ r.pid \in PromptIds
      BY <2>1 DEF Request, Ops, PromptIds
    <2>3. Load(h, r)
      BY <1>4
    <2> HIDE DEF r
    <2> QED BY <2>2, <2>3, LoadPast
  <1>5. ASSUME NEW p \in 1..lastId, NEW b \in BlindBodies, SendBlindUpdate(h, c, p, b)
        PROVE  PastOK'
    <2>1. b \in UpdateBody
      BY LibraryAssumptions
    <2> QED BY <1>4, <1>5, <2>1 DEF SendBlindUpdate
  <1>6. ASSUME NEW p \in 1..lastId, NEW vid \in 1..lastVid, SendRestore(h, c, p, vid)
        PROVE  PastOK'
    <2>1. vid \in Nat
      BY DEF TypeOK
    <2> QED BY <1>4, <1>6, <2>1 DEF SendRestore
  <1>7. ASSUME NEW p \in 1..lastId, SendDelete(h, c, p) \/ SendDuplicate(h, c, p)
        PROVE  PastOK'
    BY <1>4, <1>7 DEF SendDelete, SendDuplicate
  <1> QED BY <1>1, <1>2, <1>3, <1>5, <1>6, <1>7

\* The steps of a handler that neither load nor commit.
LEMMA ServePast ==
    ASSUME PastInv, NEW h \in Handlers,
           \/ CheckUpdate(h) \/ CheckRestore(h) \/ CheckDuplicate(h) \/ StampWrite(h)
           \/ CommitFails(h) \/ Respond(h) \/ LoseAnswer(h)
    PROVE  PastOK'
  <1>1. UNCHANGED <<rows, versions, everLive>>
    BY DEF CheckUpdate, CheckRestore, CheckDuplicate, StampWrite, CommitFails, Respond,
           LoseAnswer, EndRequest, Fail, dbVars
  <1>2. \/ UNCHANGED <<req, loaded>> /\ pc[h] \in {"check", "stamp"}
           /\ \E step \in Steps : pc' = [pc EXCEPT ![h] = step]
        \/ UNCHANGED <<req, loaded>> /\ pc' = [pc EXCEPT ![h] = "respond"]
        \/ /\ pc' = [pc EXCEPT ![h] = "idle"]
           /\ req' = [req EXCEPT ![h] = NoRequest] /\ loaded' = [loaded EXCEPT ![h] = NoRow]
    BY DEF CheckUpdate, CheckRestore, CheckDuplicate, StampWrite, CommitFails, Respond,
           LoseAnswer, EndRequest, Fail, Steps
  <1>3. ASSUME NEW g \in Handlers, Writing(g)'
        PROVE  Writing(g) /\ req'[g].pid = req[g].pid /\ loaded'[g] = loaded[g]
    BY <1>2, <1>3 DEF Writing, PastInv, IInv, TypeOK
  <1> QED BY <1>1, <1>3, QuietPast

-----------------------------------------------------------------------------
(* The steps that write.                                                   *)

LEMMA CommitWritePast ==
    ASSUME PastInv, NEW h \in Handlers, CommitWrite(h)
    PROVE  PastOK'
  <1> USE DEF PastInv
  <1>1. /\ pc[h] = "commit" /\ req[h].op \in {"update", "restore"}
        /\ UNCHANGED <<req, view, issued>>
    BY DEF CommitWrite
  <1>2. loaded[h] \in Row /\ next[h] \in Row /\ req[h].pid \in PromptIds
    BY <1>1, LibraryAssumptions DEF IInv, TasksOK, TaskOK, ServingOK, TypeOK, PromptIds
  <1>3. CASE ~Live(req[h].pid)
    <2>1. Fail(h, "error")
      BY <1>1, <1>3 DEF CommitWrite
    <2> QED BY <1>1, <2>1, ServePast DEF CommitFails
  <1>4. CASE Live(req[h].pid)
    <2>0. PICK p \in PromptIds : p = req[h].pid
      BY <1>2
    <2> DEFINE new == Flush(rows[p], loaded[h], next[h])
               added == IF snap[h] = 0 THEN {} ELSE {Snapshot(h)}
    <2>1. /\ rows' = [rows EXCEPT ![p] = new]
          /\ versions' = [versions EXCEPT ![p] = versions[p] \cup added]
          /\ everLive' = [everLive EXCEPT ![p] = everLive[p] \cup {Content(new)}]
          /\ pc' = [pc EXCEPT ![h] = "respond"]
          /\ UNCHANGED <<loaded, req>>
      BY <1>1, <1>4, <2>0 DEF CommitWrite, Done, IInv, TypeOK, PastOK
    <2>2. new \in Row /\ Content(new) \in Contents
      <3>1. rows[p] \in Row
        BY <1>4, <2>0 DEF IInv, TypeOK, Live
      <3>2. new \in Row
        BY <1>2, <3>1, FlushIsRow
      <3> HIDE DEF new
      <3> QED BY <3>2, ContentIs
    <2>3. \A v \in added : Content(v) \in everLive[p]
      <3>1. Content(Snapshot(h)) = Content(loaded[h])
        BY DEF Content, Snapshot
      <3>2. Content(loaded[h]) \in everLive[p]
        BY <1>1, <1>4, <2>0 DEF PastOK, Writing
      <3> QED BY <3>1, <3>2
    <2> HIDE DEF new, added
    <2>4. everLive' \in [PromptIds -> SUBSET Contents]
      BY <2>1, <2>2 DEF PastOK
    <2>5. /\ \A q \in PromptIds : everLive[q] \subseteq everLive'[q]
          /\ Content(new) \in everLive'[p]
      BY <2>1 DEF PastOK
    <2>6. \A q \in PromptIds : Live(q)' => Content(rows'[q]) \in everLive'[q]
      BY <2>1, <2>5 DEF PastOK, IInv, TypeOK, Live
    <2>7. VersionsWereLive'
      <3>1. \A q \in PromptIds : \A v \in versions'[q] : Content(v) \in everLive'[q]
        BY <2>1, <2>3, <2>5 DEF PastOK, VersionsWereLive, IInv, TypeOK
      <3> QED BY <3>1 DEF VersionsWereLive, Content
    <2>8. ASSUME NEW g \in Handlers, Writing(g)', Live(req[g].pid)'
          PROVE  Content(loaded'[g]) \in everLive'[req'[g].pid]
      <3>1. Writing(g) /\ req'[g] = req[g] /\ loaded'[g] = loaded[g]
        BY <2>1, <2>8 DEF Writing, IInv, TypeOK
      <3>2. req[g].pid \in PromptIds
        BY <3>1, LibraryAssumptions
        DEF Writing, IInv, TasksOK, TaskOK, ServingOK, TypeOK, PromptIds
      <3>3. Live(req[g].pid)
        BY <1>4, <2>0, <2>1, <2>8, <3>1, <3>2 DEF Live, IInv, TypeOK
      <3>4. Content(loaded[g]) \in everLive[req[g].pid]
        BY <3>1, <3>3 DEF PastOK
      <3> QED BY <2>5, <3>1, <3>2, <3>4
    <2> QED BY <2>4, <2>6, <2>7, <2>8 DEF PastOK, Content, Writing
  <1> QED BY <1>3, <1>4


\* An insert starts the past of an id that no handler and no version names.
LEMMA CommitInsertPast ==
    ASSUME PastInv, NEW h \in Handlers, CommitInsert(h)
    PROVE  PastOK'
  <1> USE DEF PastInv
  <1>1. NextId = lastId + 1
    BY NextIdIsFresh DEF IInv
  <1>2. PICK p \in PromptIds, now \in Instants :
          /\ p = lastId + 1
          /\ rows' = [rows EXCEPT ![p] = [next[h] EXCEPT !.stamp = now]]
          /\ everLive' = [everLive EXCEPT ![p] = {Content(next[h])}]
          /\ req' = [req EXCEPT ![h].pid = p]
          /\ pc[h] = "commit" /\ req[h].op \in {"create", "duplicate"}
          /\ pc' = [pc EXCEPT ![h] = "respond"]
          /\ UNCHANGED <<versions, loaded>>
    BY <1>1 DEF CommitInsert, Done
  <1> DEFINE row == [next[h] EXCEPT !.stamp = now]
  <1>3. next[h] \in Row /\ row \in Row /\ Content(row) = Content(next[h])
    <2>1. next[h] \in Row
      BY <1>2 DEF IInv, TasksOK, TaskOK, ServingOK
    <2> QED BY <2>1, LibraryAssumptions DEF Row, Content
  <1>4. rows' = [rows EXCEPT ![p] = row]
    BY <1>2
  <1> HIDE DEF row
  <1>5. versions[p] = {}
    BY <1>2 DEF IInv, IdsOK, TypeOK
  <1>6. everLive' \in [PromptIds -> SUBSET Contents]
    BY <1>2, <1>3, ContentIs DEF PastOK
  <1>7. \A q \in PromptIds : Live(q)' => Content(rows'[q]) \in everLive'[q]
    BY <1>2, <1>3, <1>4 DEF PastOK, IInv, TypeOK, Live
  <1>8. \A q \in PromptIds : \A v \in versions'[q] : Content(v) \in everLive'[q]
    BY <1>2, <1>5 DEF PastOK, VersionsWereLive
  <1>9. ASSUME NEW g \in Handlers, Writing(g)', Live(req[g].pid)'
        PROVE  Content(loaded'[g]) \in everLive'[req'[g].pid]
    <2>1. g # h /\ Writing(g) /\ req'[g] = req[g] /\ loaded'[g] = loaded[g]
      BY <1>2, <1>9 DEF Writing, IInv, TypeOK
    <2>2. req[g].pid \in PromptIds /\ req[g].pid # p
      BY <1>2, <2>1, LibraryAssumptions
      DEF Writing, IInv, TasksOK, TaskOK, ServingOK, TypeOK, PromptIds
    <2>3. Live(req[g].pid)
      BY <1>4, <1>9, <2>1, <2>2 DEF Live, IInv, TypeOK
    <2> QED BY <1>2, <2>1, <2>2, <2>3 DEF PastOK
  <1> QED BY <1>6, <1>7, <1>8, <1>9 DEF PastOK, VersionsWereLive, Content, Writing

LEMMA CommitDeletePast ==
    ASSUME PastInv, NEW h \in Handlers, CommitDelete(h)
    PROVE  PastOK'
  <1> USE DEF PastInv
  <1>1. pc[h] = "commit" /\ req[h].op = "delete" /\ req[h].pid \in PromptIds
    BY LibraryAssumptions
    DEF CommitDelete, IInv, TasksOK, TaskOK, ServingOK, TypeOK, PromptIds
  <1>2. PICK p \in PromptIds : p = req[h].pid
    BY <1>1
  <1>3. /\ rows' = [rows EXCEPT ![p] = NoRow] /\ versions' = [versions EXCEPT ![p] = {}]
        /\ everLive' = [everLive EXCEPT ![p] = {}]
        /\ pc' = [pc EXCEPT ![h] = "respond"] /\ UNCHANGED <<req, loaded>>
    BY <1>2 DEF CommitDelete, Done
  <1>4. everLive' \in [PromptIds -> SUBSET Contents]
    BY <1>3 DEF PastOK
  <1>5. \A q \in PromptIds : Live(q)' => Live(q) /\ q # p
    BY <1>3 DEF IInv, TypeOK, Live
  <1>6. \A q \in PromptIds : Live(q)' => Content(rows'[q]) \in everLive'[q]
    BY <1>3, <1>5 DEF PastOK, IInv, TypeOK
  <1>7. \A q \in PromptIds : \A v \in versions'[q] : Content(v) \in everLive'[q]
    BY <1>3 DEF PastOK, VersionsWereLive, IInv, TypeOK
  <1>8. ASSUME NEW g \in Handlers, Writing(g)', Live(req[g].pid)'
        PROVE  Content(loaded'[g]) \in everLive'[req'[g].pid]
    <2>1. Writing(g) /\ req'[g] = req[g] /\ loaded'[g] = loaded[g]
      BY <1>3, <1>8 DEF Writing, IInv, TypeOK
    <2>2. req[g].pid \in PromptIds
      BY <2>1, LibraryAssumptions
      DEF Writing, IInv, TasksOK, TaskOK, ServingOK, TypeOK, PromptIds
    <2>3. Live(req[g].pid) /\ req[g].pid # p
      BY <1>3, <1>5, <1>8, <2>1, <2>2 DEF Live
    <2> QED BY <1>3, <2>1, <2>2, <2>3 DEF PastOK
  <1> QED BY <1>4, <1>6, <1>7, <1>8 DEF PastOK, VersionsWereLive, Content, Writing

\* What MoveFolder does to one prompt.
LEMMA Refiled ==
    ASSUME TypeOK, NEW from \in Folders, NEW to \in Folders \cup {NoFolder},
           MoveFolder(from, to), NEW p \in PromptIds
    PROVE  /\ Live(p)' = Live(p)
           /\ Live(p) => /\ rows[p] \in Row /\ rows'[p] \in Row
                         /\ \E f \in Folders \cup {NoFolder} :
                               rows'[p] = [rows[p] EXCEPT !.folder = f]
  <1>1. rows'[p] = IF Live(p) /\ rows[p].folder = from
                   THEN [rows[p] EXCEPT !.folder = to] ELSE rows[p]
    BY DEF MoveFolder
  <1>2. CASE ~Live(p)
    BY <1>1, <1>2 DEF Live
  <1>3. CASE Live(p)
    <2>1. rows[p] \in Row
      BY <1>3 DEF TypeOK, Live
    <2>2. \A f \in Folders \cup {NoFolder} : [rows[p] EXCEPT !.folder = f] \in Row
      BY <2>1 DEF Row
    <2>3. rows[p] = [rows[p] EXCEPT !.folder = rows[p].folder]
          /\ rows[p].folder \in Folders \cup {NoFolder}
      BY <2>1 DEF Row
    <2>4. \E f \in Folders \cup {NoFolder} : rows'[p] = [rows[p] EXCEPT !.folder = f]
      BY <1>1, <2>3
    <2>5. rows'[p] \in Row
      BY <2>2, <2>4
    <2> QED BY <1>3, <2>1, <2>4, <2>5, LibraryAssumptions DEF Live
  <1> QED BY <1>2, <1>3

LEMMA MoveFolderPast ==
    ASSUME PastInv, NEW from \in Folders, NEW to \in Folders \cup {NoFolder},
           MoveFolder(from, to)
    PROVE  PastOK'
  <1> USE DEF PastInv
  <1>1. UNCHANGED <<versions, everLive, pc, req, loaded>>
    BY DEF MoveFolder, taskVars
  <1>2. ASSUME NEW p \in PromptIds
        PROVE  /\ Live(p)' = Live(p)
               /\ Live(p) => Content(rows'[p]) = Content(rows[p])
    <2>1. TypeOK
      BY DEF IInv
    <2>2. /\ Live(p)' = Live(p)
          /\ Live(p) => /\ rows[p] \in Row
                        /\ \E f \in Folders \cup {NoFolder} : rows'[p] = [rows[p] EXCEPT !.folder = f]
      BY <1>2, <2>1, Refiled
    <2>3. ASSUME Live(p), NEW f, rows'[p] = [rows[p] EXCEPT !.folder = f]
          PROVE  Content(rows'[p]) = Content(rows[p])
      BY <2>2, <2>3 DEF Content, Row
    <2> QED BY <2>2, <2>3
  <1>3. \A g \in Handlers : Writing(g) => req[g].pid \in PromptIds
    BY LibraryAssumptions
    DEF Writing, IInv, TasksOK, TaskOK, ServingOK, TypeOK, PromptIds
  <1>4. ASSUME NEW g \in Handlers, Writing(g), Live(req[g].pid)'
        PROVE  Content(loaded[g]) \in everLive[req[g].pid]
    <2>1. Live(req[g].pid)
      BY <1>1, <1>2, <1>3, <1>4 DEF Live
    <2> QED BY <1>4, <2>1 DEF PastOK
  <1> QED BY <1>1, <1>2, <1>4 DEF PastOK, VersionsWereLive, Content, Writing

LEMMA NextPast == PastInv /\ [Next]_vars => PastInv'
  <1> SUFFICES ASSUME PastInv, [Next]_vars PROVE PastOK'
    BY NextIInv DEF PastInv
  <1>1. ASSUME NEW h \in Handlers, Send(h) \/ Serve(h) PROVE PastOK'
    BY <1>1, SendPast, ServePast, CommitWritePast, CommitInsertPast, CommitDeletePast
    DEF Serve
  <1>2. ASSUME NEW from \in Folders, NEW to \in Folders \cup {NoFolder}, MoveFolder(from, to)
        PROVE  PastOK'
    BY <1>2, MoveFolderPast
  <1>3. ASSUME \/ \E c \in Clients, p \in PromptIds : Fetch(c, p)
               \/ UNCHANGED vars
        PROVE  PastOK'
    <2>1. UNCHANGED <<rows, versions, everLive, pc, req, loaded>>
      BY <1>3 DEF Fetch, dbVars, taskVars, vars
    <2> QED BY <2>1, QuietPast DEF Writing
  <1> QED BY <1>1, <1>2, <1>3 DEF Next, Quiescent

\* snapshot copies the row as its session loaded it, and a committed row is
\* recorded as such: a version is a state the prompt was in, for any number of
\* worker threads.
THEOREM VersionsAreTrue == Spec => []VersionsWereLive
  <1>1. PastInv => VersionsWereLive
    BY DEF PastInv, PastOK
  <1> QED BY <1>1, InitPast, NextPast, PTL DEF Spec


-----------------------------------------------------------------------------
(* One worker thread.  The requests are served one after another, but a     *)
(* rename or removal of a folder may still come between the steps of one.   *)

\* SameEdits, column by column.
SameColumns(r, s) ==
    /\ r.sections = s.sections /\ r.text = s.text /\ r.meta = s.meta
    /\ r.note = s.note /\ r.name = s.name /\ r.known = s.known /\ r.stamp = s.stamp

\* The row a client holds is not newer than the live one, and is the live one
\* when their stamps agree.
ViewsCurrent ==
    \A c \in Clients :
       (view[c] # NoRow /\ Live(view[c].pid)) =>
          /\ view[c].row.stamp <= rows[view[c].pid].stamp
          /\ view[c].row.stamp = rows[view[c].pid].stamp =>
                SameColumns(view[c].row, rows[view[c].pid])

\* The ORM object of a handler that will write has a text in step with its
\* sections.
TextInStep(h) ==
    (pc[h] \in {"check", "stamp", "commit"} /\ req[h].op # "delete") =>
       next[h].text = Render[next[h].sections]

\* The row a handler has loaded is still the live one, and the one its client
\* saw when the request carried a token.
HoldsLive(h) ==
    Writing(h) =>
       /\ Live(req[h].pid)
       /\ SameColumns(loaded[h], rows[req[h].pid])
       /\ (req[h].op = "update" /\ req[h].seen # NoRow) =>
             SameColumns(rows[req[h].pid], req[h].seen)

NoteUntouched(h) == pc[h] = "stamp" => next[h].note = loaded[h].note

\* A write carries a newer stamp, and it snapshots under the next number what
\* it replaces unless it replaces it by the same.
WriteReady(h) ==
    (pc[h] = "commit" /\ req[h].op \in {"update", "restore"}) =>
       /\ next[h].stamp > loaded[h].stamp
       /\ \/ snap[h] = 0 /\ Content(next[h]) = Content(loaded[h])
          \/ snap[h] # 0 /\ snap[h] = CurrentVersionNumber(req[h].pid) + 1

CarriedOK(h) == TextInStep(h) /\ HoldsLive(h) /\ NoteUntouched(h) /\ WriteReady(h)

HistoryOK ==
    SectionsMatchText /\ HistoryKept /\ VersionNumbersUnique /\ ViewsCurrent

SerialInv == PastInv /\ HistoryOK /\ \A h \in Handlers : CarriedOK(h)

-----------------------------------------------------------------------------

\* The columns of a row are all there is to it.
LEMMA RowIs ==
    ASSUME NEW r \in Row, NEW f
    PROVE  [r EXCEPT !.folder = f] =
              [sections |-> r.sections, text |-> r.text, meta |-> r.meta, note |-> r.note,
               name |-> r.name, folder |-> f, known |-> r.known, stamp |-> r.stamp]
  BY DEF Row

LEMMA SameEditsIs ==
    ASSUME NEW r \in Row, NEW s \in Row
    PROVE  SameEdits(r, s) <=> SameColumns(r, s)
  <1> DEFINE bare(q) == [q EXCEPT !.folder = NoFolder]
  <1>1. SameColumns(r, s) => bare(r) = bare(s)
    BY RowIs DEF SameColumns
  <1>2. \A q \in Row : /\ bare(q).sections = q.sections /\ bare(q).text = q.text
                       /\ bare(q).meta = q.meta /\ bare(q).note = q.note
                       /\ bare(q).name = q.name /\ bare(q).known = q.known
                       /\ bare(q).stamp = q.stamp
    BY DEF Row
  <1> HIDE DEF bare
  <1>3. bare(r) = bare(s) => SameColumns(r, s)
    BY <1>2 DEF SameColumns
  <1> QED BY <1>1, <1>3 DEF SameEdits, bare

\* A write onto the row its session loaded replaces every column but perhaps
\* the folder.
LEMMA FlushReplaces ==
    ASSUME NEW current \in Row, NEW old \in Row, NEW new \in Row,
           SameColumns(old, current)
    PROVE  /\ Flush(current, old, new) \in Row
           /\ SameColumns(Flush(current, old, new), new)
  BY DEF Flush, Column, Row, SameColumns

\* The numbers of a prompt's versions do not pass the current one.
LEMMA NumbersBounded ==
    ASSUME IInv, NEW p \in PromptIds, NEW v \in versions[p]
    PROVE  v.number \in Nat /\ v.number <= CurrentVersionNumber(p)
  BY DEF IInv, NumbersOK, Numbers

LEMMA InitSerial == Init => SerialInv
  <1> SUFFICES ASSUME Init PROVE HistoryOK /\ \A h \in Handlers : CarriedOK(h)
    BY InitPast DEF SerialInv
  <1>1. \A h \in Handlers : CarriedOK(h)
    BY DEF Init, CarriedOK, TextInStep, HoldsLive, Writing, NoteUntouched, WriteReady
  <1>2. ViewsCurrent
    BY DEF Init, ViewsCurrent
  <1>3. CASE EmptyDatabase
    BY <1>1, <1>2, <1>3
    DEF HistoryOK, EmptyDatabase, SectionsMatchText, HistoryKept, VersionNumbersUnique, Live
  <1>4. CASE MigratedDatabase
    <2>1. PICK old \in LegacyPrompts, m \in Metas :
             \E s \in SectionsForText(old[2], old[1]) : Migrated(old, m, s)
      BY <1>4 DEF MigratedDatabase
    <2>2. PICK s \in SectionsForText(old[2], old[1]) : Migrated(old, m, s)
      BY <2>1
    <2> DEFINE kept == IF Render[old[1]] # old[2] THEN {DriftedVersion(old)} ELSE {}
               contents == {Content(v) : v \in kept \cup {MigratedRow(s, m)}}
    <2>3. /\ rows = [p \in PromptIds |-> IF p = 1 THEN MigratedRow(s, m) ELSE NoRow]
          /\ versions = [p \in PromptIds |-> IF p = 1 THEN kept ELSE {}]
          /\ everLive = [p \in PromptIds |-> IF p = 1 THEN contents ELSE {}]
      BY <2>2 DEF Migrated
    <2>4. SectionsMatchText
      BY <2>3 DEF SectionsMatchText, MigratedRow, Live
    <2>5. HistoryKept
      <3> SUFFICES ASSUME NEW p \in PromptIds, Live(p), NEW c \in everLive[p]
                   PROVE  \/ c = Content(rows[p])
                          \/ \E v \in versions[p] : Content(v) = c
        BY DEF HistoryKept
      <3>1. p = 1 /\ rows[p] = MigratedRow(s, m) /\ versions[p] = kept /\ c \in contents
        BY <2>3 DEF Live
      <3>2. PICK v \in kept \cup {MigratedRow(s, m)} : c = Content(v)
        BY <3>1
      <3> QED BY <3>1, <3>2
    <2>6. VersionNumbersUnique
      BY <2>3 DEF VersionNumbersUnique
    <2> QED BY <1>1, <1>2, <2>4, <2>5, <2>6 DEF HistoryOK
  <1> QED BY <1>3, <1>4 DEF Init

\* A step that leaves prompts, versions and views alone.
LEMMA QuietHistory ==
    ASSUME HistoryOK, UNCHANGED <<rows, versions, everLive, view>>
    PROVE  HistoryOK'
  BY DEF HistoryOK, SectionsMatchText, HistoryKept, VersionNumbersUnique, ViewsCurrent,
         Live, Content, SameColumns

\* get_owned_prompt takes the live row; a token that is not stale is the stamp
\* of a view that shows the live row.
LEMMA LoadSerial ==
    ASSUME SerialInv, NEW h \in Handlers, NEW r \in Request, Load(h, r),
           r.pid \in PromptIds,
           r.seen # NoRow => \E c \in Clients : view[c] = [pid |-> r.pid, row |-> r.seen]
    PROVE  HistoryOK' /\ CarriedOK(h)'
  <1> USE DEF SerialInv, PastInv, IInv
  <1>1. /\ req' = [req EXCEPT ![h] = r] /\ UNCHANGED <<rows, versions, everLive, view>>
    BY DEF Load, Fail, dbVars
  <1>2. CASE pc' = [pc EXCEPT ![h] = "respond"]
    BY <1>1, <1>2, QuietHistory
    DEF CarriedOK, TextInStep, HoldsLive, Writing, NoteUntouched, WriteReady, TypeOK
  <1>3. CASE /\ Live(r.pid) /\ ~(r.seen # NoRow /\ IsStale(rows[r.pid].stamp, r.seen.stamp))
             /\ loaded' = [loaded EXCEPT ![h] = rows[r.pid]]
             /\ next' = [next EXCEPT ![h] = rows[r.pid]]
             /\ pc' = [pc EXCEPT ![h] = IF r.op = "delete" THEN "commit" ELSE "check"]
    <2>1. rows[r.pid] \in Row
      BY <1>3 DEF TypeOK, Live
    <2>2. r.seen # NoRow => SameColumns(rows[r.pid], r.seen)
      <3> SUFFICES ASSUME r.seen # NoRow PROVE SameColumns(rows[r.pid], r.seen)
        OBVIOUS
      <3>1. PICK c \in Clients : view[c] = [pid |-> r.pid, row |-> r.seen]
        OBVIOUS
      <3>2. view[c] # NoRow /\ view[c].pid = r.pid /\ view[c].row = r.seen
        <4>1. r.seen \in Row
          BY DEF Request
        <4>2. [pid |-> r.pid, row |-> r.seen] \in [pid : PromptIds, row : Row]
          BY <4>1
        <4> QED BY <3>1, <4>2, LibraryAssumptions
      <3>3. r.seen.stamp = rows[r.pid].stamp
        BY <1>3 DEF IsStale
      <3> QED BY <1>3, <3>2, <3>3 DEF HistoryOK, ViewsCurrent, SameColumns
    <2>3. /\ pc'[h] \in {"check", "commit"} /\ (pc'[h] = "commit" => r.op = "delete")
          /\ req'[h] = r /\ loaded'[h] = rows[r.pid] /\ next'[h] = rows[r.pid]
          /\ Live(r.pid)'
      BY <1>1, <1>3 DEF TypeOK, Live
    <2>4. TextInStep(h)'
      BY <1>1, <1>3, <2>3 DEF TextInStep, HistoryOK, SectionsMatchText
    <2>5. HoldsLive(h)'
      BY <1>1, <2>2, <2>3 DEF HoldsLive, Writing, SameColumns, Live
    <2>6. NoteUntouched(h)' /\ WriteReady(h)'
      BY <2>3 DEF NoteUntouched, WriteReady
    <2> QED BY <1>1, <2>4, <2>5, <2>6, QuietHistory DEF CarriedOK
  <1> QED BY <1>2, <1>3 DEF Load, Fail

LEMMA SendSerial ==
    ASSUME SerialInv, NEW h \in Handlers, Send(h)
    PROVE  HistoryOK' /\ CarriedOK(h)'
  <1> USE DEF SerialInv, PastInv, IInv
  <1>1. PICK c \in Clients :
           \/ \E b \in CreateBodies : SendCreate(h, c, b)
           \/ \E b \in UpdateBodies : SendUpdate(h, c, b)
           \/ \E p \in 1..lastId :
                 \/ \E b \in BlindBodies : SendBlindUpdate(h, c, p, b)
                 \/ \E vid \in 1..lastVid : SendRestore(h, c, p, vid)
                 \/ SendDelete(h, c, p)
                 \/ SendDuplicate(h, c, p)
    BY DEF Send
  <1>2. ASSUME NEW b \in CreateBodies, SendCreate(h, c, b)
        PROVE  HistoryOK' /\ CarriedOK(h)'
    <2>1. UNCHANGED <<rows, versions, everLive, view>>
      BY <1>2 DEF SendCreate, dbVars
    <2>2. /\ pc'[h] = "commit" /\ req'[h].op = "create"
          /\ next'[h].text = Render[next'[h].sections]
      BY <1>2 DEF SendCreate, TypeOK
    <2> QED
      BY <2>1, <2>2, QuietHistory
      DEF CarriedOK, TextInStep, HoldsLive, Writing, NoteUntouched, WriteReady
  <1>3. ASSUME NEW b \in UpdateBodies, SendUpdate(h, c, b)
        PROVE  HistoryOK' /\ CarriedOK(h)'
    <2> DEFINE r == [op |-> "update", client |-> c, pid |-> view[c].pid, body |-> b,
                     vid |-> 0, seen |-> view[c].row]
    <2>1. /\ view[c] \in [pid : PromptIds, row : Row] /\ b \in UpdateBody
      BY <1>3, LibraryAssumptions DEF SendUpdate, TypeOK
    <2>2. /\ r \in Request /\ r.pid \in PromptIds
          /\ view[c] = [pid |-> r.pid, row |-> r.seen]
      BY <2>1 DEF Request, Ops, PromptIds
    <2>3. Load(h, r)
      BY <1>3 DEF SendUpdate
    <2> HIDE DEF r
    <2> QED BY <2>2, <2>3, LoadSerial
  <1>4. ASSUME NEW p \in 1..lastId, NEW op \in {"update", "restore", "delete", "duplicate"},
               NEW body \in UpdateBody \cup {Unset}, NEW vid \in Nat,
               Load(h, [op |-> op, client |-> c, pid |-> p, body |-> body,
                        vid |-> vid, seen |-> NoRow])
        PROVE  HistoryOK' /\ CarriedOK(h)'
    <2> DEFINE r == [op |-> op, client |-> c, pid |-> p, body |-> body,
                     vid |-> vid, seen |-> NoRow]
    <2>1. p \in PromptIds
      BY LibraryAssumptions DEF TypeOK, PromptIds
    <2>2. r \in Request /\ r.pid \in PromptIds /\ r.seen = NoRow
      BY <2>1 DEF Request, Ops, PromptIds
    <2>3. Load(h, r)
      BY <1>4
    <2> HIDE DEF r
    <2> QED BY <2>2, <2>3, LoadSerial
  <1>5. ASSUME NEW p \in 1..lastId, NEW b \in BlindBodies, SendBlindUpdate(h, c, p, b)
        PROVE  HistoryOK' /\ CarriedOK(h)'
    <2>1. b \in UpdateBody
      BY LibraryAssumptions
    <2> QED BY <1>4, <1>5, <2>1 DEF SendBlindUpdate
  <1>6. ASSUME NEW p \in 1..lastId, NEW vid \in 1..lastVid, SendRestore(h, c, p, vid)
        PROVE  HistoryOK' /\ CarriedOK(h)'
    <2>1. vid \in Nat
      BY DEF TypeOK
    <2> QED BY <1>4, <1>6, <2>1 DEF SendRestore
  <1>7. ASSUME NEW p \in 1..lastId, SendDelete(h, c, p) \/ SendDuplicate(h, c, p)
        PROVE  HistoryOK' /\ CarriedOK(h)'
    BY <1>4, <1>7 DEF SendDelete, SendDuplicate
  <1> QED BY <1>1, <1>2, <1>3, <1>5, <1>6, <1>7

\* The assignments of update_prompt render the sections they set.
LEMMA PatchedInStep ==
    ASSUME NEW old \in Row, NEW b \in UpdateBody, old.text = Render[old.sections]
    PROVE  LET new == Patched(old, b)
           IN /\ new.text = Render[new.sections]
              /\ new.note = old.note
  BY DEF Patched, Given, Row

LEMMA RestoreServes ==
    ASSUME NEW h, CheckRestore(h)
    PROVE  pc[h] = "check" /\ req[h].op = "restore"
  BY DEF CheckRestore

\* The checks of the three operations on a loaded prompt.
LEMMA CheckSerial ==
    ASSUME SerialInv, NEW h \in Handlers,
           CheckUpdate(h) \/ CheckRestore(h) \/ CheckDuplicate(h)
    PROVE  HistoryOK' /\ CarriedOK(h)'
  <1> USE DEF SerialInv, PastInv, IInv
  <1>1. /\ pc[h] = "check" /\ UNCHANGED <<rows, versions, everLive, view, req, loaded>>
    BY DEF CheckUpdate, CheckRestore, CheckDuplicate, Fail, dbVars
  <1>2. /\ loaded[h] \in Row /\ next[h] = loaded[h] /\ req[h].op # "create"
    BY <1>1 DEF TasksOK, TaskOK, ServingOK, CheckOK
  <1>3. CASE pc' = [pc EXCEPT ![h] = "respond"]
    BY <1>1, <1>3, QuietHistory
    DEF CarriedOK, TextInStep, HoldsLive, Writing, NoteUntouched, WriteReady, TypeOK
  <1>4. HoldsLive(h) /\ TextInStep(h)
    BY DEF CarriedOK
  <1>5. ASSUME NEW new \in Row, new.text = Render[new.sections],
               \/ pc' = [pc EXCEPT ![h] = "stamp"] /\ new.note = loaded[h].note
                     /\ req[h].op \in {"update", "restore"}
               \/ pc' = [pc EXCEPT ![h] = "commit"] /\ req[h].op = "duplicate",
               next' = [next EXCEPT ![h] = new]
        PROVE  HistoryOK' /\ CarriedOK(h)'
    <2>1. pc'[h] \in {"stamp", "commit"} /\ next'[h] = new
          /\ (pc'[h] = "commit" => req[h].op = "duplicate")
          /\ (pc'[h] = "stamp" => new.note = loaded[h].note)
      BY <1>5 DEF TypeOK
    <2>2. HoldsLive(h)'
      BY <1>1, <1>4, <1>5 DEF HoldsLive, Writing, Live, SameColumns, TypeOK
    <2> QED
      BY <1>1, <1>5, <2>1, <2>2, QuietHistory
      DEF CarriedOK, TextInStep, NoteUntouched, WriteReady
  <1>6. CASE CheckUpdate(h)
    <2> DEFINE new == Patched(loaded[h], req[h].body)
    <2>1. /\ req[h].op = "update" /\ req[h].body \in UpdateBody
          /\ loaded[h].text = Render[loaded[h].sections]
      BY <1>1, <1>2, <1>4, <1>6
      DEF CheckUpdate, TasksOK, TaskOK, ServingOK, TextInStep
    <2>2. new \in Row /\ new.text = Render[new.sections] /\ new.note = loaded[h].note
      BY <1>2, <2>1, PatchedIsRow, PatchedInStep
    <2>3. \/ pc' = [pc EXCEPT ![h] = "respond"]
          \/ pc' = [pc EXCEPT ![h] = "stamp"] /\ next' = [next EXCEPT ![h] = new]
      BY <1>6 DEF CheckUpdate, Fail
    <2> HIDE DEF new
    <2> QED BY <1>3, <1>5, <2>1, <2>2, <2>3
  <1>7. CASE CheckRestore(h)
    <2>0. req[h].op = "restore"
      BY <1>7, RestoreServes
    <2>1. req[h].op = "restore" /\ req[h].pid \in PromptIds
      <3>1. req[h].pid \in 1..lastId
        BY <1>1, <2>0 DEF TasksOK, TaskOK, ServingOK
      <3> QED BY <2>0, <3>1, LibraryAssumptions DEF TypeOK, PromptIds
    <2>2. \/ Fail(h, "not_found")
          \/ /\ pc' = [pc EXCEPT ![h] = "stamp"]
             /\ \E v \in versions[req[h].pid] :
                \E s \in SectionsForText(v.text, v.sections) :
                   next' = [next EXCEPT ![h] =
                              [@ EXCEPT !.sections = s,
                                        !.text = Render[s],
                                        !.meta = Given(v.meta, loaded[h].meta)]]
      BY <1>7, Zenon DEF CheckRestore
    <2>3. ASSUME NEW v \in versions[req[h].pid],
                 NEW s \in SectionsForText(v.text, v.sections),
                 pc' = [pc EXCEPT ![h] = "stamp"],
                 next' = [next EXCEPT ![h] =
                              [@ EXCEPT !.sections = s,
                                        !.text = Render[s],
                                        !.meta = Given(v.meta, loaded[h].meta)]]
          PROVE  HistoryOK' /\ CarriedOK(h)'
      <3> DEFINE new == [loaded[h] EXCEPT !.sections = s, !.text = Render[s],
                                          !.meta = Given(v.meta, loaded[h].meta)]
      <3>1. v \in Version
        BY <2>1 DEF TypeOK
      <3>2. new \in Row
        BY <1>2, <3>1, RestoredIsRow
      <3>3. new.text = Render[new.sections] /\ new.note = loaded[h].note
        BY <1>2 DEF Row
      <3>4. next' = [next EXCEPT ![h] = new]
        BY <1>2, <2>3 DEF TypeOK
      <3> HIDE DEF new
      <3> QED BY <1>5, <2>1, <2>3, <3>2, <3>3, <3>4
    <2>4. Fail(h, "not_found") => pc' = [pc EXCEPT ![h] = "respond"]
      BY DEF Fail
    <2> QED BY <1>3, <2>2, <2>3, <2>4
  <1>8. CASE CheckDuplicate(h)
    <2>1. req[h].op = "duplicate" /\ pc' = [pc EXCEPT ![h] = "commit"]
      BY <1>8 DEF CheckDuplicate
    <2>2. PICK k \in 1..MaxPrompts + 1 :
             next' = [next EXCEPT ![h] =
                        [@ EXCEPT !.name = Append(loaded[h].name, k), !.note = Unset,
                                  !.known = 0]]
      BY <1>8 DEF CheckDuplicate
    <2> DEFINE new == [loaded[h] EXCEPT !.name = Append(loaded[h].name, k),
                                        !.note = Unset, !.known = 0]
    <2>3. new \in Row
      <3>1. k \in Nat /\ loaded[h].name \in Seq(Nat)
        BY <1>2, LibraryAssumptions DEF Row
      <3>2. Append(loaded[h].name, k) \in Seq(Nat)
        BY <3>1
      <3> QED BY <1>2, <3>2 DEF Row
    <2>4. new.text = loaded[h].text /\ new.sections = loaded[h].sections
      BY <1>2 DEF Row
    <2>5. loaded[h].text = Render[loaded[h].sections]
      BY <1>1, <1>2, <1>4, <2>1 DEF TextInStep
    <2>6. next' = [next EXCEPT ![h] = new]
      BY <1>2, <2>2
    <2> HIDE DEF new
    <2> QED BY <1>5, <2>1, <2>3, <2>4, <2>5, <2>6
  <1> QED BY <1>6, <1>7, <1>8

\* The snapshot decision: what is not snapshotted is not changed.
LEMMA StampWriteSerial ==
    ASSUME SerialInv, NEW h \in Handlers, StampWrite(h)
    PROVE  HistoryOK' /\ CarriedOK(h)'
  <1> DEFINE p == req[h].pid
             snapshots == req[h].op = "restore" \/ ContentChanged(loaded[h], next[h])
             number == IF snapshots THEN CurrentVersionNumber(p) + 1 ELSE 0
             note == IF ~snapshots THEN next[h].note
                     ELSE IF req[h].op = "restore" THEN RestoreNote ELSE req[h].body.note
  <1>1. /\ pc[h] = "stamp" /\ pc' = [pc EXCEPT ![h] = "commit"]
        /\ UNCHANGED <<rows, versions, everLive, view, req, loaded>>
        /\ snap' = [snap EXCEPT ![h] = number]
    BY DEF StampWrite, dbVars
  <1>2. PICK now \in Instants :
           next' = [next EXCEPT ![h] =
                      [@ EXCEPT !.stamp = NextWriteStamp(loaded[h].stamp, now),
                                !.note = IF ~snapshots THEN next[h].note
                                         ELSE IF req[h].op = "restore" THEN RestoreNote
                                         ELSE req[h].body.note]]
    BY Zenon DEF StampWrite
  <1>3. /\ loaded[h] \in Row /\ next[h] \in Row
        /\ req[h].op \in {"update", "restore"} /\ req[h].pid \in 1..lastId
    BY <1>1 DEF SerialInv, PastInv, IInv, TasksOK, TaskOK, ServingOK, StampOK
  <1>p. p \in PromptIds
    BY <1>3, LibraryAssumptions DEF SerialInv, PastInv, IInv, TypeOK, PromptIds
  <1> DEFINE stamp == NextWriteStamp(loaded[h].stamp, now)
             new == [next[h] EXCEPT !.stamp = stamp, !.note = note]
  <1>4. next' = [next EXCEPT ![h] = new]
    BY <1>2
  <1>5. stamp \in Nat /\ stamp > loaded[h].stamp
    BY <1>3, LibraryAssumptions, StampAdvances DEF Row
  <1> HIDE DEF stamp, note
  <1>6. /\ new.sections = next[h].sections /\ new.text = next[h].text
        /\ new.meta = next[h].meta /\ new.note = note /\ new.stamp = stamp
    BY <1>3 DEF Row
  <1> HIDE DEF new, number
  <1>7. /\ pc'[h] = "commit" /\ next'[h] = new /\ snap'[h] = number
    BY <1>1, <1>4 DEF SerialInv, PastInv, IInv, TypeOK
  <1>8. TextInStep(h) /\ HoldsLive(h) /\ NoteUntouched(h)
    BY DEF SerialInv, CarriedOK
  <1>9. TextInStep(h)' /\ NoteUntouched(h)'
    BY <1>1, <1>3, <1>6, <1>7, <1>8 DEF TextInStep, NoteUntouched
  <1>10. HoldsLive(h)'
    BY <1>1, <1>3, <1>7, <1>8 DEF HoldsLive, Writing, Live, SameColumns
  <1>11. CurrentVersionNumber(p)' = CurrentVersionNumber(p) /\ CurrentVersionNumber(p) \in Nat
    BY <1>1, <1>p DEF CurrentVersionNumber, SerialInv, PastInv, IInv, NumbersOK
  <1>12. WriteReady(h)'
    <2>1. CASE snapshots
      <3>1. number = CurrentVersionNumber(p) + 1
        BY <2>1 DEF number
      <3> QED BY <1>1, <1>3, <1>5, <1>6, <1>7, <1>11, <3>1 DEF WriteReady
    <2>2. CASE ~snapshots
      <3>1. number = 0 /\ note = next[h].note
        BY <2>2 DEF number, note
      <3>2. next[h].sections = loaded[h].sections /\ next[h].meta = loaded[h].meta
        BY <2>2 DEF ContentChanged
      <3>3. next[h].note = loaded[h].note /\ next[h].text = Render[next[h].sections]
        BY <1>1, <1>3, <1>8 DEF NoteUntouched, TextInStep
      <3>4. loaded[h].text = Render[loaded[h].sections]
        BY <1>1, <1>3, <1>8, <1>p
        DEF HoldsLive, Writing, SameColumns, SerialInv, HistoryOK, SectionsMatchText
      <3>5. Content(new) = Content(loaded[h])
        BY <1>6, <3>1, <3>2, <3>3, <3>4 DEF Content
      <3> QED BY <1>1, <1>5, <1>6, <1>7, <3>1, <3>5 DEF WriteReady, Content
    <2> QED BY <2>1, <2>2
  <1>13. HistoryOK'
    BY <1>1, QuietHistory DEF SerialInv
  <1> QED BY <1>9, <1>10, <1>12, <1>13 DEF CarriedOK

\* The handler raises, or answers: the client's view becomes the live row.
LEMMA EndSerial ==
    ASSUME SerialInv, NEW h \in Handlers,
           CommitFails(h) \/ Respond(h) \/ LoseAnswer(h)
    PROVE  HistoryOK' /\ CarriedOK(h)'
  <1> USE DEF SerialInv, PastInv, IInv
  <1>1. UNCHANGED <<rows, versions, everLive>> /\ pc'[h] \in {"idle", "respond"}
    BY DEF CommitFails, Respond, LoseAnswer, EndRequest, Fail, dbVars, TypeOK
  <1>2. CarriedOK(h)'
    BY <1>1 DEF CarriedOK, TextInStep, HoldsLive, Writing, NoteUntouched, WriteReady
  <1>3. CASE UNCHANGED view
    BY <1>1, <1>2, <1>3, QuietHistory
  <1>4. CASE /\ Respond(h) /\ answer[h] = "ok" /\ Live(req[h].pid)
             /\ view' = [view EXCEPT ![req[h].client] =
                           [pid |-> req[h].pid, row |-> rows[req[h].pid]]]
    <2>1. req[h].pid \in 1..lastId
      BY <1>4 DEF Respond, TasksOK, TaskOK, RespondOK
    <2>2. req[h].pid \in PromptIds
      BY <2>1, LibraryAssumptions DEF TypeOK, PromptIds
    <2>3. rows[req[h].pid] \in Row
      BY <1>4, <2>2 DEF TypeOK, Live
    <2> DEFINE v == [pid |-> req[h].pid, row |-> rows[req[h].pid]]
    <2>4. v.pid = req[h].pid /\ v.row = rows[v.pid] /\ v.row.stamp \in Nat
      BY <2>3 DEF Row
    <2>5. view' = [view EXCEPT ![req[h].client] = v]
      BY <1>4
    <2> HIDE DEF v
    <2>6. ViewsCurrent'
      BY <1>1, <2>4, <2>5 DEF HistoryOK, ViewsCurrent, Live, SameColumns, TypeOK
    <2> QED
      BY <1>1, <1>2, <2>6
      DEF HistoryOK, SectionsMatchText, HistoryKept, VersionNumbersUnique, Live, Content
  <1> QED BY <1>3, <1>4 DEF CommitFails, Respond, LoseAnswer

LEMMA FetchSerial ==
    ASSUME SerialInv, NEW h \in Handlers, NEW c \in Clients, NEW p \in PromptIds, Fetch(c, p)
    PROVE  HistoryOK' /\ CarriedOK(h)'
  <1> USE DEF SerialInv, PastInv, IInv
  <1>1. /\ UNCHANGED <<rows, versions, everLive, pc, req, loaded, next, snap>>
        /\ Live(p) /\ view' = [view EXCEPT ![c] = [pid |-> p, row |-> rows[p]]]
    BY DEF Fetch, dbVars, taskVars
  <1>2. CarriedOK(h)'
    BY <1>1
    DEF CarriedOK, TextInStep, HoldsLive, Writing, NoteUntouched, WriteReady, Live, SameColumns,
        Content, CurrentVersionNumber
  <1> DEFINE v == [pid |-> p, row |-> rows[p]]
  <1>3. v.pid = p /\ v.row = rows[p] /\ v.row.stamp \in Nat
    BY <1>1 DEF TypeOK, Live, Row
  <1>4. view' = [view EXCEPT ![c] = v]
    BY <1>1
  <1> HIDE DEF v
  <1>5. ViewsCurrent'
    BY <1>1, <1>3, <1>4 DEF HistoryOK, ViewsCurrent, Live, SameColumns, TypeOK
  <1> QED
    BY <1>1, <1>2, <1>5
    DEF HistoryOK, SectionsMatchText, HistoryKept, VersionNumbersUnique, Live, Content

LEMMA MoveFolderSerial ==
    ASSUME SerialInv, NEW h \in Handlers,
           NEW from \in Folders, NEW to \in Folders \cup {NoFolder}, MoveFolder(from, to)
    PROVE  HistoryOK' /\ CarriedOK(h)'
  <1> USE DEF SerialInv, PastInv, IInv
  <1>1. UNCHANGED <<versions, everLive, view, pc, req, loaded, next, snap>>
    BY DEF MoveFolder, taskVars
  <1>2. ASSUME NEW p \in PromptIds
        PROVE  /\ Live(p)' = Live(p)
               /\ Live(p) => /\ SameColumns(rows'[p], rows[p])
                             /\ Content(rows'[p]) = Content(rows[p])
    <2>1. /\ Live(p)' = Live(p)
          /\ Live(p) => \E f \in Folders \cup {NoFolder} : rows'[p] = [rows[p] EXCEPT !.folder = f]
      BY <1>2, Refiled
    <2>2. Live(p) => rows[p] \in Row
      BY <1>2, Refiled
    <2>3. ASSUME Live(p), NEW f, rows'[p] = [rows[p] EXCEPT !.folder = f]
          PROVE  SameColumns(rows'[p], rows[p]) /\ Content(rows'[p]) = Content(rows[p])
      BY <2>2, <2>3 DEF Content, SameColumns, Row
    <2> QED BY <2>1, <2>3
  <1>3. SectionsMatchText'
    BY <1>2 DEF HistoryOK, SectionsMatchText, SameColumns
  <1>4. HistoryKept'
    BY <1>1, <1>2 DEF HistoryOK, HistoryKept, Content
  <1>5. VersionNumbersUnique'
    BY <1>1 DEF HistoryOK, VersionNumbersUnique
  <1>6. ViewsCurrent'
    <2>1. \A c \in Clients : view[c] # NoRow => view[c].pid \in PromptIds
      BY DEF TypeOK
    <2> QED BY <1>1, <1>2, <2>1 DEF HistoryOK, ViewsCurrent, SameColumns
  <1>7. TextInStep(h)' /\ NoteUntouched(h)'
    BY <1>1 DEF CarriedOK, TextInStep, NoteUntouched
  <1>8. WriteReady(h)'
    BY <1>1 DEF CarriedOK, WriteReady, Content, CurrentVersionNumber
  <1>9. HoldsLive(h)'
    <2> SUFFICES ASSUME Writing(h) PROVE HoldsLive(h)'
      BY <1>1 DEF HoldsLive, Writing
    <2>1. req[h].pid \in 1..lastId
      BY DEF Writing, TasksOK, TaskOK, ServingOK
    <2>2. req[h].pid \in PromptIds
      BY <2>1, LibraryAssumptions DEF TypeOK, PromptIds
    <2>3. HoldsLive(h)
      BY DEF CarriedOK
    <2>4. Live(req[h].pid)' /\ SameColumns(rows'[req[h].pid], rows[req[h].pid])
      BY <1>1, <1>2, <2>2, <2>3 DEF HoldsLive, Live
    <2> QED BY <1>1, <2>3, <2>4 DEF HoldsLive, SameColumns
  <1> QED BY <1>3, <1>4, <1>5, <1>6, <1>7, <1>8, <1>9 DEF HistoryOK, CarriedOK

\* The write: its version row keeps what it replaces, its stamp is newer than
\* any a client holds.
LEMMA CommitWriteSerial ==
    ASSUME SerialInv, NEW h \in Handlers, CommitWrite(h)
    PROVE  HistoryOK' /\ CarriedOK(h)'
  <1> USE DEF SerialInv, PastInv
  <1>1. /\ pc[h] = "commit" /\ req[h].op \in {"update", "restore"}
        /\ UNCHANGED <<req, view>>
    BY DEF CommitWrite
  <1>2. /\ loaded[h] \in Row /\ next[h] \in Row /\ req[h].pid \in 1..lastId
    BY <1>1 DEF IInv, TasksOK, TaskOK, ServingOK
  <1>3. req[h].pid \in PromptIds
    BY <1>2, LibraryAssumptions DEF IInv, TypeOK, PromptIds
  <1>4. PICK p \in PromptIds : p = req[h].pid
    BY <1>3
  <1>5. /\ Live(p) /\ SameColumns(loaded[h], rows[p]) /\ TextInStep(h) /\ WriteReady(h)
    BY <1>1, <1>4 DEF CarriedOK, HoldsLive, Writing
  <1> DEFINE new == Flush(rows[p], loaded[h], next[h])
             added == IF snap[h] = 0 THEN {} ELSE {Snapshot(h)}
  <1>6. /\ rows' = [rows EXCEPT ![p] = new]
        /\ versions' = [versions EXCEPT ![p] = versions[p] \cup added]
        /\ everLive' = [everLive EXCEPT ![p] = everLive[p] \cup {Content(new)}]
        /\ pc' = [pc EXCEPT ![h] = "respond"]
    BY <1>1, <1>4, <1>5 DEF CommitWrite, Done, IInv, TypeOK, PastOK
  <1>7. rows[p] \in Row
    BY <1>5 DEF IInv, TypeOK, Live
  <1>8. new \in Row /\ SameColumns(new, next[h])
    BY <1>2, <1>5, <1>7, FlushReplaces
  <1> HIDE DEF new
  <1>9. CarriedOK(h)'
    BY <1>6
    DEF CarriedOK, TextInStep, HoldsLive, Writing, NoteUntouched, WriteReady, IInv, TypeOK
  <1>10. rows'[p] = new /\ \A q \in PromptIds \ {p} : rows'[q] = rows[q] /\ Live(q)' = Live(q)
    BY <1>6 DEF IInv, TypeOK, Live
  <1>11. SectionsMatchText'
    <2>1. new.text = Render[new.sections]
      BY <1>1, <1>5, <1>8 DEF TextInStep, SameColumns
    <2> QED BY <1>10, <2>1 DEF HistoryOK, SectionsMatchText
  <1>12. /\ Content(loaded[h]) = Content(rows[p]) /\ Content(new) = Content(next[h])
    BY <1>5, <1>8 DEF Content, SameColumns
  <1>13. \/ snap[h] = 0 /\ Content(new) = Content(rows[p])
         \/ /\ snap[h] # 0 /\ snap[h] = CurrentVersionNumber(p) + 1
            /\ added = {Snapshot(h)} /\ Content(Snapshot(h)) = Content(rows[p])
            /\ Snapshot(h).number = snap[h]
    BY <1>1, <1>4, <1>5, <1>12 DEF WriteReady, Content, Snapshot
  <1>14. HistoryKept'
    <2> SUFFICES ASSUME NEW q \in PromptIds, Live(q)', NEW c \in everLive'[q]
                 PROVE  \/ c = Content(rows'[q])
                        \/ \E v \in versions'[q] : Content(v) = c
      BY DEF HistoryKept, Content
    <2>1. CASE q # p
      BY <1>6, <1>10, <2>1 DEF HistoryOK, HistoryKept, IInv, TypeOK, PastOK
    <2>2. CASE q = p
      <3>1. c \in everLive[p] \/ c = Content(new)
        BY <1>6, <2>2 DEF PastOK
      <3>2. versions'[p] = versions[p] \cup added
        BY <1>6 DEF IInv, TypeOK
      <3>3. c \in everLive[p] =>
               c = Content(rows[p]) \/ \E v \in versions[p] : Content(v) = c
        BY <1>5 DEF HistoryOK, HistoryKept
      <3> HIDE DEF added
      <3> QED BY <1>10, <1>13, <2>2, <3>1, <3>2, <3>3
    <2> QED BY <2>1, <2>2
  <1>15. VersionNumbersUnique'
    <2> SUFFICES ASSUME NEW q \in PromptIds, NEW v \in versions'[q], NEW w \in versions'[q],
                        v.number = w.number
                 PROVE  v = w
      BY DEF VersionNumbersUnique
    <2>1. CASE q # p
      BY <1>6, <2>1 DEF HistoryOK, VersionNumbersUnique, IInv, TypeOK
    <2>2. CASE q = p
      <3>1. \A u \in versions[p] : u.number \in Nat /\ u.number <= CurrentVersionNumber(p)
        BY NumbersBounded
      <3>2. CurrentVersionNumber(p) \in Nat
        BY DEF IInv, NumbersOK
      <3>3. versions'[p] = versions[p] \cup added
        BY <1>6 DEF IInv, TypeOK
      <3>4. CASE v \in versions[p] /\ w \in versions[p]
        BY <3>4 DEF HistoryOK, VersionNumbersUnique
      <3>5. CASE v \notin versions[p] /\ w \notin versions[p]
        BY <2>2, <3>3, <3>5
      <3>6. CASE v \notin versions[p] /\ w \in versions[p]
        <4>1. v = Snapshot(h) /\ v.number = CurrentVersionNumber(p) + 1
          BY <1>13, <2>2, <3>3, <3>6
        <4>2. w.number \in Nat /\ w.number <= CurrentVersionNumber(p)
          BY <3>1, <3>6
        <4> QED BY <3>2, <4>1, <4>2
      <3>7. CASE v \in versions[p] /\ w \notin versions[p]
        <4>1. w = Snapshot(h) /\ w.number = CurrentVersionNumber(p) + 1
          BY <1>13, <2>2, <3>3, <3>7
        <4>2. v.number \in Nat /\ v.number <= CurrentVersionNumber(p)
          BY <3>1, <3>7
        <4> QED BY <3>2, <4>1, <4>2
      <3> QED BY <3>4, <3>5, <3>6, <3>7
    <2> QED BY <2>1, <2>2
  <1>16. ViewsCurrent'
    <2> SUFFICES ASSUME NEW c \in Clients, view[c] # NoRow, Live(view[c].pid)'
                 PROVE  /\ view[c].row.stamp <= rows'[view[c].pid].stamp
                        /\ view[c].row.stamp = rows'[view[c].pid].stamp =>
                              SameColumns(view[c].row, rows'[view[c].pid])
      BY <1>1 DEF ViewsCurrent, SameColumns
    <2>1. view[c].pid \in PromptIds /\ view[c].row \in Row
      BY DEF IInv, TypeOK
    <2>2. CASE view[c].pid # p
      BY <1>1, <1>10, <2>1, <2>2 DEF HistoryOK, ViewsCurrent
    <2>3. CASE view[c].pid = p
      <3>1. view[c].row.stamp <= rows[p].stamp
        BY <1>5, <2>3 DEF HistoryOK, ViewsCurrent
      <3>2. rows[p].stamp < new.stamp
        BY <1>1, <1>5, <1>8 DEF WriteReady, SameColumns, Row
      <3>3. rows[p].stamp \in Nat /\ new.stamp \in Nat /\ view[c].row.stamp \in Nat
        BY <1>7, <1>8, <2>1 DEF Row
      <3> QED BY <1>10, <2>3, <3>1, <3>2, <3>3
    <2> QED BY <2>2, <2>3
  <1> QED BY <1>9, <1>11, <1>14, <1>15, <1>16 DEF HistoryOK

\* An insert starts a history of its own; no client holds a row of a new id.
LEMMA CommitInsertSerial ==
    ASSUME SerialInv, NEW h \in Handlers, CommitInsert(h)
    PROVE  HistoryOK' /\ CarriedOK(h)'
  <1> USE DEF SerialInv, PastInv
  <1>1. NextId = lastId + 1
    BY NextIdIsFresh DEF IInv
  <1>2. PICK p \in PromptIds, now \in Instants :
          /\ p = lastId + 1
          /\ rows' = [rows EXCEPT ![p] = [next[h] EXCEPT !.stamp = now]]
          /\ everLive' = [everLive EXCEPT ![p] = {Content(next[h])}]
          /\ pc[h] = "commit" /\ req[h].op \in {"create", "duplicate"}
          /\ pc' = [pc EXCEPT ![h] = "respond"]
          /\ UNCHANGED <<versions, view>>
    BY <1>1 DEF CommitInsert, Done
  <1> DEFINE row == [next[h] EXCEPT !.stamp = now]
  <1>3. next[h] \in Row /\ lastId \in Nat
    BY <1>2 DEF IInv, TypeOK, TasksOK, TaskOK, ServingOK
  <1>4. /\ Content(row) = Content(next[h]) /\ row.text = next[h].text
        /\ row.sections = next[h].sections
    BY <1>3 DEF Row, Content
  <1>5. rows' = [rows EXCEPT ![p] = row]
    BY <1>2
  <1> HIDE DEF row
  <1>6. CarriedOK(h)'
    BY <1>2
    DEF CarriedOK, TextInStep, HoldsLive, Writing, NoteUntouched, WriteReady, IInv, TypeOK
  <1>7. rows'[p] = row /\ \A q \in PromptIds \ {p} : rows'[q] = rows[q] /\ Live(q)' = Live(q)
    BY <1>5 DEF IInv, TypeOK, Live
  <1>8. SectionsMatchText'
    <2>1. next[h].text = Render[next[h].sections]
      BY <1>2 DEF CarriedOK, TextInStep
    <2> QED BY <1>4, <1>7, <2>1 DEF HistoryOK, SectionsMatchText
  <1>9. HistoryKept'
    <2> SUFFICES ASSUME NEW q \in PromptIds, Live(q)', NEW c \in everLive'[q]
                 PROVE  \/ c = Content(rows'[q])
                        \/ \E v \in versions'[q] : Content(v) = c
      BY DEF HistoryKept, Content
    <2>1. CASE q # p
      BY <1>2, <1>7, <2>1 DEF HistoryOK, HistoryKept, PastOK
    <2>2. CASE q = p
      BY <1>2, <1>4, <1>7, <2>2 DEF PastOK
    <2> QED BY <2>1, <2>2
  <1>10. VersionNumbersUnique'
    BY <1>2 DEF HistoryOK, VersionNumbersUnique
  <1>11. ViewsCurrent'
    <2>1. ASSUME NEW c \in Clients, view[c] # NoRow
          PROVE  view[c].pid \in PromptIds \ {p}
      BY <1>2, <1>3, <2>1 DEF IInv, TypeOK, ViewsOK
    <2> QED BY <1>2, <1>7, <2>1 DEF HistoryOK, ViewsCurrent, SameColumns
  <1> QED BY <1>6, <1>8, <1>9, <1>10, <1>11 DEF HistoryOK

LEMMA CommitDeleteSerial ==
    ASSUME SerialInv, NEW h \in Handlers, CommitDelete(h)
    PROVE  HistoryOK' /\ CarriedOK(h)'
  <1> USE DEF SerialInv, PastInv
  <1>1. PICK p : /\ p = req[h].pid
                 /\ rows' = [rows EXCEPT ![p] = NoRow]
                 /\ versions' = [versions EXCEPT ![p] = {}]
                 /\ everLive' = [everLive EXCEPT ![p] = {}]
                 /\ pc' = [pc EXCEPT ![h] = "respond"] /\ UNCHANGED view
    BY DEF CommitDelete, Done
  <1>2. CarriedOK(h)'
    BY <1>1
    DEF CarriedOK, TextInStep, HoldsLive, Writing, NoteUntouched, WriteReady, IInv, TypeOK
  <1>3. \A q \in PromptIds :
           /\ Live(q)' => /\ Live(q) /\ rows'[q] = rows[q]
                          /\ versions'[q] = versions[q] /\ everLive'[q] = everLive[q]
           /\ versions'[q] \subseteq versions[q]
    BY <1>1 DEF IInv, TypeOK, Live, PastOK
  <1>4. SectionsMatchText' /\ VersionNumbersUnique'
    BY <1>3 DEF HistoryOK, SectionsMatchText, VersionNumbersUnique
  <1>5. HistoryKept'
    BY <1>3 DEF HistoryOK, HistoryKept, Content
  <1>6. ViewsCurrent'
    <2>1. \A c \in Clients : view[c] # NoRow => view[c].pid \in PromptIds
      BY DEF IInv, TypeOK
    <2> QED BY <1>1, <1>3, <2>1 DEF HistoryOK, ViewsCurrent, SameColumns
  <1> QED BY <1>2, <1>4, <1>5, <1>6 DEF HistoryOK

LEMMA NextSerial ==
    ASSUME NEW h \in Handlers, Handlers = {h}
    PROVE  SerialInv /\ [Next]_vars => SerialInv'
  <1> SUFFICES ASSUME SerialInv, [Next]_vars PROVE HistoryOK' /\ CarriedOK(h)'
    BY NextPast DEF SerialInv
  <1>1. CASE Send(h)
    BY <1>1, SendSerial
  <1>2. CASE Serve(h)
    BY <1>2, CheckSerial, StampWriteSerial, EndSerial, CommitWriteSerial, CommitInsertSerial,
       CommitDeleteSerial DEF Serve
  <1>3. ASSUME NEW c \in Clients, NEW p \in PromptIds, Fetch(c, p)
        PROVE  HistoryOK' /\ CarriedOK(h)'
    BY <1>3, FetchSerial
  <1>4. ASSUME NEW from \in Folders, NEW to \in Folders \cup {NoFolder}, MoveFolder(from, to)
        PROVE  HistoryOK' /\ CarriedOK(h)'
    BY <1>4, MoveFolderSerial
  <1>5. CASE UNCHANGED vars
    BY <1>5, QuietHistory
    DEF vars, SerialInv, CarriedOK, TextInStep, HoldsLive, Writing, NoteUntouched, WriteReady,
        Live, SameColumns, Content, CurrentVersionNumber
  <1> QED BY <1>1, <1>2, <1>3, <1>4, <1>5 DEF Next, Quiescent

LEMMA SerialInductive ==
    ASSUME NEW h \in Handlers, Handlers = {h}
    PROVE  Spec => []SerialInv
  <1>1. SerialInv /\ [Next]_vars => SerialInv'
    BY NextSerial
  <1> QED BY <1>1, InitSerial, PTL DEF Spec

-----------------------------------------------------------------------------

\* With one worker thread, "the two can never disagree": the stored text of a
\* prompt is its sections, rendered (prompt_sections).
THEOREM TextIsRenderedSections ==
    ASSUME NEW h \in Handlers, Handlers = {h}
    PROVE  Spec => []SectionsMatchText
  <1>1. Spec => []SerialInv
    BY SerialInductive
  <1>2. SerialInv => SectionsMatchText
    BY DEF SerialInv, HistoryOK
  <1> QED BY <1>1, <1>2, PTL

\* With one worker thread, every saved change keeps the earlier version, with
\* its note, under a number of its own (snapshot).
THEOREM HistoryLosesNothing ==
    ASSUME NEW h \in Handlers, Handlers = {h}
    PROVE  Spec => []HistoryExact
  <1>1. Spec => []SerialInv
    BY SerialInductive
  <1>2. SerialInv => HistoryExact
    BY DEF SerialInv, HistoryOK, HistoryExact
  <1> QED BY <1>1, <1>2, PTL

\* With one worker thread, a stamp names one state of a prompt whatever the
\* wall clock reads (next_write_timestamp).
THEOREM StampsIdentifyEdits ==
    ASSUME NEW h \in Handlers, Handlers = {h}
    PROVE  Spec => []StampIdentifiesEdits
  <1>1. Spec => []SerialInv
    BY SerialInductive
  <1>2. SerialInv => StampIdentifiesEdits
    <2> SUFFICES ASSUME SerialInv, NEW c \in Clients, view[c] # NoRow, Live(view[c].pid),
                        view[c].row.stamp = rows[view[c].pid].stamp
                 PROVE  SameEdits(view[c].row, rows[view[c].pid])
      BY DEF StampIdentifiesEdits
    <2>1. view[c].row \in Row /\ rows[view[c].pid] \in Row
      BY DEF SerialInv, PastInv, IInv, TypeOK, Live
    <2>2. SameColumns(view[c].row, rows[view[c].pid])
      BY DEF SerialInv, HistoryOK, ViewsCurrent
    <2> QED BY <2>1, <2>2, SameEditsIs
  <1> QED BY <1>1, <1>2, PTL

\* With one worker thread, an update that carries a token replaces exactly the
\* row its client saw, although folders may be renamed between its steps
\* (update_prompt, raise_if_stale).
THEOREM NoUpdateIsLost ==
    ASSUME NEW thread \in Handlers, Handlers = {thread}
    PROVE  Spec => NoLostUpdate
  <1>1. Spec => []SerialInv
    BY SerialInductive
  <1>2. SerialInv /\ [Next]_vars =>
           [\A h \in Handlers :
               (/\ pc[h] = "commit" /\ answer'[h] = "ok"
                /\ req[h].op = "update" /\ req[h].seen # NoRow)
                  => SameEdits(rows[req[h].pid], req[h].seen)]_vars
    <2> SUFFICES ASSUME SerialInv, NEW g \in Handlers, pc[g] = "commit",
                        req[g].op = "update", req[g].seen # NoRow
                 PROVE  SameEdits(rows[req[g].pid], req[g].seen)
      OBVIOUS
    <2>1. Live(req[g].pid) /\ SameColumns(rows[req[g].pid], req[g].seen)
      BY DEF SerialInv, CarriedOK, HoldsLive, Writing
    <2>2. req[g].pid \in 1..lastId
      BY DEF SerialInv, PastInv, IInv, TasksOK, TaskOK, ServingOK
    <2>3. req[g].pid \in PromptIds
      BY <2>2, LibraryAssumptions DEF SerialInv, PastInv, IInv, TypeOK, PromptIds
    <2>4. rows[req[g].pid] \in Row /\ req[g].seen \in Row
      BY <2>1, <2>3 DEF SerialInv, PastInv, IInv, TypeOK, Live, Request
    <2> QED BY <2>1, <2>4, SameEditsIs
  <1>3. [][Next]_vars /\ []SerialInv => NoLostUpdate
    BY <1>2, PTL DEF NoLostUpdate
  <1> QED BY <1>1, <1>3, PTL DEF Spec

=============================================================================
