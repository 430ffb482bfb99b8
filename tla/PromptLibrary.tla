--------------------------- MODULE PromptLibrary ---------------------------
(***************************************************************************)
(* The saved-prompt library of one account: the prompts table, the         *)
(* prompt_versions table, the prompt_id_sequence row, and the worker       *)
(* threads that serve the library's requests (services/prompts/*.py and    *)
(* the services they call).                                                *)
(*                                                                         *)
(* A sync route runs in a threadpool thread with its own SQLAlchemy        *)
(* session.  pysqlite opens a transaction only before the first DML, so    *)
(* every SELECT of a handler sees the newest committed state on its own    *)
(* and only the flush inside commit() is atomic.  A handler is therefore   *)
(* a sequence of steps (load, check, stamp, commit, respond) and the steps *)
(* of different handlers interleave.  With one handler thread the requests *)
(* are served one after another.                                           *)
(*                                                                         *)
(* Sections stand for the JSON section list, texts for the rendered        *)
(* prompt.  `name' stands for the two columns name and is_favorite, which  *)
(* every operation treats alike except for the copy name; content_updated_at,  *)
(* tags and author_user_id, which nothing here reads, are left out.        *)
(***************************************************************************)
EXTENDS Integers, Sequences, FiniteSets, FiniteSetsExt

CONSTANTS
    Handlers,      \* threads of the server's pool
    Clients,       \* sessions: editor tabs, library pages, MCP agents
    Sections,      \* section lists a request may carry
    Texts,         \* prompt texts
    Render,        \* render_sections, as a function Sections -> Texts
    WholeText,     \* the one-section fallback of sections_for_text
    Metas,         \* values of variable_metadata
    Notes,         \* version notes
    RestoreNote,   \* the note "Restore to vN"
    Folders,       \* folder labels
    NoFolder,      \* Unfiled
    CreateBodies,  \* bodies of POST /api/prompts
    UpdateBodies,  \* bodies of PATCH /api/prompts/{id} sent with a token
    BlindBodies,   \* bodies of PATCH /api/prompts/{id} sent without one
    LegacyPrompts, \* <<sections, text>> of prompts saved before texts were rendered
    Instants,      \* readings of the wall clock, in ticks; any reading may
                   \* follow any other
    Unset,         \* an absent body field, a NULL column
    NoRow,         \* no such row
    MaxPrompts,    \* bound: prompt ids ever allocated
    MaxRequests    \* bound: requests ever served

PromptIds == 1..MaxPrompts

\* A row of prompts.  stamp is updated_at, or created_at before any update.
Row == [sections : Sections, text : Texts, meta : Metas,
        note : Notes \cup {RestoreNote, Unset}, name : Seq(Nat),
        folder : Folders \cup {NoFolder}, known : Nat, stamp : Nat]

\* A row of prompt_versions.  Rows written before notes were introduced have
\* no metadata.
Version == [vid : Nat, number : Nat, sections : Sections, text : Texts,
            meta : Metas \cup {Unset}, note : Notes \cup {RestoreNote, Unset}]

UpdateBody == [sections : Sections \cup {Unset}, meta : Metas \cup {Unset},
               name : Seq(Nat) \cup {Unset}, known : Nat \cup {Unset},
               folder : Folders \cup {NoFolder, Unset},
               note : Notes \cup {Unset}]

CreateBody == [sections : Sections, meta : Metas, name : Seq(Nat),
               folder : Folders \cup {NoFolder}]

ASSUME LibraryAssumptions ==
    /\ MaxPrompts \in Nat /\ MaxRequests \in Nat
    /\ Instants \subseteq Nat
    /\ Render \in [Sections -> Texts]
    /\ WholeText \in [Texts -> Sections]
    /\ UpdateBodies \subseteq UpdateBody /\ BlindBodies \subseteq UpdateBody
    /\ CreateBodies \subseteq CreateBody
    /\ LegacyPrompts \subseteq Sections \X Texts
    /\ NoRow \notin Row
    /\ NoRow \notin [pid : PromptIds, row : Row]
    /\ Unset \notin Sections \cup Metas \cup Folders \cup {NoFolder} \cup Nat
    /\ Unset \notin Seq(Nat)

VARIABLES
    rows,      \* prompts: id -> row, or NoRow
    versions,  \* prompt_versions: prompt id -> set of version rows
    lastId,    \* prompt_id_sequence.last_id
    lastVid,   \* row ids of prompt_versions handed out.  A lookup also matches
               \* the prompt, so it does not matter whether SQLite reuses one
    pc,        \* handler -> the step it takes next
    req,       \* handler -> the request it serves
    loaded,    \* handler -> the prompt row as its session loaded it
    next,      \* handler -> the values its ORM object holds now
    snap,      \* handler -> number of the version row it will insert, or 0
    answer,    \* handler -> the outcome it reports
    view,      \* client -> the prompt it has open and the row it last received
    issued,    \* requests served so far
    deleted,   \* history variable: ids of deleted prompts
    everLive   \* history variable: contents each live prompt has had

dbVars == <<rows, versions, lastId, lastVid>>
taskVars == <<pc, req, loaded, next, snap, answer>>
vars == <<rows, versions, lastId, lastVid, pc, req, loaded, next, snap, answer,
          view, issued, deleted, everLive>>

Live(p) == rows[p] # NoRow

Content(r) == [sections |-> r.sections, text |-> r.text, meta |-> r.meta,
               note |-> r.note]

-----------------------------------------------------------------------------
(* Time stamps: services/optimistic_concurrency.py                         *)

\* The stamp a write carries: never below, and never equal to, the one it
\* replaces, whatever the wall clock reads.
MutStampKeepsTie(previous, now) == Max({now, previous})
NextWriteStamp(previous, now) == Max({now, previous + 1})

\* Any difference between the stored stamp and the client's is a conflict.
\* Stamps of one row are a tick apart, so the half-tick epsilon is equality.
MutStaleTolerance(stored, supplied) == stored > supplied + 2
IsStale(stored, supplied) == stored # supplied

(* Sections and text: services/prompt_sections.py                          *)

\* sections_for_text: the previous sections when they already render to the
\* text, else a parse that reproduces the text exactly, else the whole text
\* as one section.
SectionsForText(text, previous) ==
    IF Render[previous] = text
    THEN {previous}
    ELSE {s \in Sections : Render[s] = text} \cup {WholeText[text]}

(* Version numbers: services/prompt_version_service.py                     *)

MutRowIdAsNumber(p) == lastVid
CurrentVersionNumber(p) == Max({v.number : v \in versions[p]} \cup {0})

LiveVersionNumber(p) == CurrentVersionNumber(p) + 1

(* Prompt ids: services/prompt_id_service.py                               *)

MutIdAfterNewestRow == Max({p \in PromptIds : Live(p)} \cup {0}) + 1
NextId == Max({p \in PromptIds : Live(p)} \cup {lastId}) + 1

-----------------------------------------------------------------------------
(* A worker thread between requests, and the outcomes of a handler.        *)

Ops == {"none", "create", "update", "restore", "delete", "duplicate"}

Steps == {"idle", "check", "stamp", "commit", "respond"}

Answers == {"none", "ok", "not_found", "conflict", "unprocessable", "error"}

\* A request: who sent it, about which prompt, with which body, and the row
\* its last_updated_at comes from (NoRow when it carries no token).
Request == [op : Ops, client : Clients \cup {Unset}, pid : Nat,
            body : UpdateBody \cup {Unset}, vid : Nat, seen : Row \cup {NoRow}]

NoRequest == [op |-> "none", client |-> Unset, pid |-> 0, body |-> Unset,
              vid |-> 0, seen |-> NoRow]

\* The handler raises: it has written nothing, and reports the outcome.
Fail(h, outcome) ==
    /\ pc' = [pc EXCEPT ![h] = "respond"]
    /\ answer' = [answer EXCEPT ![h] = outcome]
    /\ UNCHANGED <<dbVars, loaded, next, snap, deleted, everLive>>

\* get_owned_prompt, the first step of every operation on a saved prompt.
\* The request is fixed when it is sent, so its token is the stamp of the row
\* the client holds at that time.
Load(h, r) ==
    /\ pc[h] = "idle"
    /\ issued < MaxRequests
    /\ issued' = issued + 1
    /\ req' = [req EXCEPT ![h] = r]
    /\ UNCHANGED view
    /\ IF ~Live(r.pid)
       THEN Fail(h, "not_found")
       ELSE IF r.seen # NoRow /\ IsStale(rows[r.pid].stamp, r.seen.stamp)
       THEN Fail(h, "conflict")
       ELSE /\ loaded' = [loaded EXCEPT ![h] = rows[r.pid]]
            /\ next' = [next EXCEPT ![h] = rows[r.pid]]
            /\ pc' = [pc EXCEPT ![h] = IF r.op = "delete" THEN "commit" ELSE "check"]
            /\ UNCHANGED <<dbVars, snap, answer, deleted, everLive>>

-----------------------------------------------------------------------------
(* Requests.  The first step of each handler.                              *)

\* Bound: the ids allocated or about to be allocated stay within PromptIds.
RoomForInsert ==
    lastId + Cardinality({g \in Handlers : /\ req[g].op \in {"create", "duplicate"}
                                          /\ pc[g] \in {"check", "commit"}})
        < MaxPrompts

\* GET /api/prompts/{id}: one SELECT, whose row the client now holds.
Fetch(c, p) ==
    /\ issued < MaxRequests
    /\ Live(p)
    /\ view[c] # [pid |-> p, row |-> rows[p]]
    /\ issued' = issued + 1
    /\ view' = [view EXCEPT ![c] = [pid |-> p, row |-> rows[p]]]
    /\ UNCHANGED <<dbVars, taskVars, deleted, everLive>>

\* update_prompt with last_updated_at from the row the client holds: the
\* editor and the MCP tool always send it.
SendUpdate(h, c, b) ==
    /\ view[c] # NoRow
    /\ Load(h, [op |-> "update", client |-> c, pid |-> view[c].pid, body |-> b,
                vid |-> 0, seen |-> view[c].row])

\* update_prompt without last_updated_at, which REST allows.
SendBlindUpdate(h, c, p, b) ==
    Load(h, [op |-> "update", client |-> c, pid |-> p, body |-> b,
             vid |-> 0, seen |-> NoRow])

\* restore_prompt_version, delete_prompt and duplicate_prompt carry no token.
SendRestore(h, c, p, vid) ==
    Load(h, [op |-> "restore", client |-> c, pid |-> p, body |-> Unset,
             vid |-> vid, seen |-> NoRow])

SendDelete(h, c, p) ==
    Load(h, [op |-> "delete", client |-> c, pid |-> p, body |-> Unset,
             vid |-> 0, seen |-> NoRow])

SendDuplicate(h, c, p) ==
    /\ RoomForInsert
    /\ Load(h, [op |-> "duplicate", client |-> c, pid |-> p, body |-> Unset,
                vid |-> 0, seen |-> NoRow])

\* create_prompt reads nothing before its transaction.
SendCreate(h, c, b) ==
    /\ pc[h] = "idle"
    /\ RoomForInsert
    /\ issued < MaxRequests
    /\ issued' = issued + 1
    /\ req' = [req EXCEPT ![h] = [op |-> "create", client |-> c, pid |-> 0,
                                  body |-> Unset, vid |-> 0, seen |-> NoRow]]
    /\ next' = [next EXCEPT ![h] =
                   [sections |-> b.sections, text |-> Render[b.sections],
                    meta |-> b.meta, note |-> Unset, name |-> b.name,
                    folder |-> b.folder, known |-> 0, stamp |-> 0]]
    /\ pc' = [pc EXCEPT ![h] = "commit"]
    /\ UNCHANGED <<dbVars, loaded, snap, answer, view, deleted, everLive>>

\* rename_folder and remove_folder: one bulk UPDATE and its commit.  The rows
\* keep their stamps: filing is not an edit.
MoveFolder(from, to) ==
    /\ issued < MaxRequests
    /\ \E p \in PromptIds : Live(p) /\ rows[p].folder = from
    /\ issued' = issued + 1
    /\ rows' = [p \in PromptIds |->
                   IF Live(p) /\ rows[p].folder = from
                   THEN [rows[p] EXCEPT !.folder = to] ELSE rows[p]]
    /\ UNCHANGED <<versions, lastId, lastVid, taskVars, view, deleted, everLive>>

-----------------------------------------------------------------------------
(* update_prompt                                                           *)

MutGivenIgnoresAbsence(value, old) == value
Given(value, old) == IF value # Unset THEN value ELSE old

\* The ORM object after the assignments of update_prompt, the stamp apart.
MutPatchedWithoutRender(old, b) ==
    [old EXCEPT !.sections = Given(b.sections, old.sections),
                !.meta = Given(b.meta, old.meta),
                !.name = Given(b.name, old.name),
                !.folder = Given(b.folder, old.folder),
                !.known = Given(b.known, old.known)]
Patched(old, b) ==
    [old EXCEPT !.sections = Given(b.sections, old.sections),
                !.text = IF b.sections # Unset THEN Render[b.sections] ELSE old.text,
                !.meta = Given(b.meta, old.meta),
                !.name = Given(b.name, old.name),
                !.folder = Given(b.folder, old.folder),
                !.known = Given(b.known, old.known)]

MutOnlySectionsCount(old, new) == new.sections # old.sections
ContentChanged(old, new) == new.sections # old.sections \/ new.meta # old.meta

\* A request may mark the live version as known good, or the version that its
\* own content change creates.
MutNewestAlwaysNew(p, old, new) ==
    LiveVersionNumber(p) + 1
Newest(p, old, new) ==
    LiveVersionNumber(p) + (IF ContentChanged(old, new) THEN 1 ELSE 0)

\* The SELECT behind the known-good check, and the assignments.
CheckUpdate(h) ==
    /\ pc[h] = "check"
    /\ req[h].op = "update"
    /\ LET b == req[h].body
           new == Patched(loaded[h], b)
       IN IF b.known # Unset /\ b.known > Newest(req[h].pid, loaded[h], new)
          THEN Fail(h, "unprocessable")
          ELSE /\ next' = [next EXCEPT ![h] = new]
               /\ pc' = [pc EXCEPT ![h] = "stamp"]
               /\ UNCHANGED <<dbVars, loaded, snap, answer, deleted, everLive>>
    /\ UNCHANGED <<req, view, issued>>

(* restore_prompt_version                                                  *)

\* The SELECT of the version row, and the assignments of restore.
CheckRestore(h) ==
    /\ pc[h] = "check"
    /\ req[h].op = "restore"
    /\ \/ /\ \A v \in versions[req[h].pid] : v.vid # req[h].vid
          /\ Fail(h, "not_found")
       \/ \E v \in versions[req[h].pid] :
          /\ v.vid = req[h].vid
          /\ \E s \in SectionsForText(v.text, v.sections) :
               next' = [next EXCEPT ![h] =
                          [@ EXCEPT !.sections = s,
                                    !.text = Render[s],
                                    !.meta = Given(v.meta, loaded[h].meta)]]
          /\ pc' = [pc EXCEPT ![h] = "stamp"]
          /\ UNCHANGED <<dbVars, loaded, snap, answer, deleted, everLive>>
    /\ UNCHANGED <<req, view, issued>>

(* duplicate_prompt                                                        *)

\* The SELECT of the names in use: the copy gets the first free copy name.
\* The copy keeps the content and the folder, not the note or the mark.
CheckDuplicate(h) ==
    /\ pc[h] = "check"
    /\ req[h].op = "duplicate"
    /\ LET used == {rows[p].name : p \in {q \in PromptIds : Live(q)}}
           copyName(k) == Append(loaded[h].name, k)
       IN \E k \in 1..MaxPrompts + 1 :
          /\ copyName(k) \notin used
          /\ \A j \in 1..k - 1 : copyName(j) \in used
          /\ next' = [next EXCEPT ![h] =
                        [@ EXCEPT !.name = copyName(k), !.note = Unset, !.known = 0]]
    /\ pc' = [pc EXCEPT ![h] = "commit"]
    /\ UNCHANGED <<dbVars, req, loaded, snap, answer, view, issued, deleted, everLive>>

(* The snapshot and the stamp of an update or a restore                    *)

\* PromptVersionService.snapshot reads the newest number, and the note of the
\* write replaces the note of the state being snapshotted; then the clock is
\* read for the stamp.
StampWrite(h) ==
    /\ pc[h] = "stamp"
    /\ LET restores == req[h].op = "restore"
           snapshots == restores \/ ContentChanged(loaded[h], next[h])
       IN \E now \in Instants :
          /\ next' = [next EXCEPT ![h] =
                        [@ EXCEPT !.stamp = NextWriteStamp(loaded[h].stamp, now),
                                  !.note = IF ~snapshots THEN next[h].note
                                           ELSE IF restores THEN RestoreNote
                                           ELSE req[h].body.note]]
          /\ snap' = [snap EXCEPT ![h] =
                        IF snapshots THEN CurrentVersionNumber(req[h].pid) + 1 ELSE 0]
    /\ pc' = [pc EXCEPT ![h] = "commit"]
    /\ UNCHANGED <<dbVars, req, loaded, answer, view, issued, deleted, everLive>>

-----------------------------------------------------------------------------
(* Commits: BEGIN, the flushed statements and COMMIT, under SQLite's       *)
(* writer lock.                                                            *)

\* The unit of work writes a column only when it differs from the loaded value.
Column(current, old, new) == IF new # old THEN new ELSE current

Flush(current, old, new) ==
    [sections |-> Column(current.sections, old.sections, new.sections),
     text     |-> Column(current.text, old.text, new.text),
     meta     |-> Column(current.meta, old.meta, new.meta),
     note     |-> Column(current.note, old.note, new.note),
     name     |-> Column(current.name, old.name, new.name),
     folder   |-> Column(current.folder, old.folder, new.folder),
     known    |-> Column(current.known, old.known, new.known),
     stamp    |-> Column(current.stamp, old.stamp, new.stamp)]

\* The version row of the state the handler loaded.
MutSnapshotTakesNewNote(h) ==
    [vid |-> lastVid + 1, number |-> snap[h], sections |-> loaded[h].sections,
     text |-> loaded[h].text, meta |-> loaded[h].meta, note |-> next[h].note]
Snapshot(h) ==
    [vid |-> lastVid + 1, number |-> snap[h], sections |-> loaded[h].sections,
     text |-> loaded[h].text, meta |-> loaded[h].meta, note |-> loaded[h].note]

Done(h) ==
    /\ pc' = [pc EXCEPT ![h] = "respond"]
    /\ answer' = [answer EXCEPT ![h] = "ok"]

\* The commit of update_prompt and restore_prompt_version.  An UPDATE that
\* matches no row raises StaleDataError and rolls everything back.
CommitWrite(h) ==
    /\ pc[h] = "commit"
    /\ req[h].op \in {"update", "restore"}
    /\ LET p == req[h].pid
           new == Flush(rows[p], loaded[h], next[h])
       IN IF ~Live(p)
          THEN Fail(h, "error")
          ELSE /\ rows' = [rows EXCEPT ![p] = new]
               /\ versions' = [versions EXCEPT ![p] =
                                 IF snap[h] = 0 THEN @ ELSE @ \cup {Snapshot(h)}]
               /\ lastVid' = IF snap[h] = 0 THEN lastVid ELSE lastVid + 1
               /\ everLive' = [everLive EXCEPT ![p] = @ \cup {Content(new)}]
               /\ Done(h)
               /\ UNCHANGED <<lastId, loaded, next, snap, deleted>>
    /\ UNCHANGED <<req, view, issued>>

\* The commit of create_prompt and duplicate_prompt: the id sequence moves and
\* the row is inserted in one transaction.
CommitInsert(h) ==
    /\ pc[h] = "commit"
    /\ req[h].op \in {"create", "duplicate"}
    /\ NextId \in PromptIds
    /\ \E now \in Instants :
         rows' = [rows EXCEPT ![NextId] = [next[h] EXCEPT !.stamp = now]]
    /\ everLive' = [everLive EXCEPT ![NextId] = {Content(next[h])}]
    /\ req' = [req EXCEPT ![h].pid = NextId]
    /\ lastId' = NextId
    /\ Done(h)
    /\ UNCHANGED <<versions, lastVid, loaded, next, snap, view, issued, deleted>>

\* delete_prompt: the prompt and, by cascade, its versions.  A DELETE that
\* matches no row is not an error.
CommitDelete(h) ==
    /\ pc[h] = "commit"
    /\ req[h].op = "delete"
    /\ rows' = [rows EXCEPT ![req[h].pid] = NoRow]
    /\ versions' = [versions EXCEPT ![req[h].pid] = {}]
    /\ deleted' = deleted \cup {req[h].pid}
    /\ everLive' = [everLive EXCEPT ![req[h].pid] = {}]
    /\ Done(h)
    /\ UNCHANGED <<lastId, lastVid, req, loaded, next, snap, view, issued>>

-----------------------------------------------------------------------------
\* Any commit may fail: the writer lock was not free within busy_timeout, or
\* the process dies.  Nothing is written.
CommitFails(h) ==
    /\ pc[h] = "commit"
    /\ Fail(h, "error")
    /\ UNCHANGED <<req, view, issued>>

(* The answer.  After a successful commit db.refresh() reads the row again *)
(* and the answer carries what it finds; a row that is gone by then makes  *)
(* the refresh raise.                                                      *)

EndRequest(h) ==
    /\ pc' = [pc EXCEPT ![h] = "idle"]
    /\ req' = [req EXCEPT ![h] = NoRequest]
    /\ loaded' = [loaded EXCEPT ![h] = NoRow]
    /\ next' = [next EXCEPT ![h] = NoRow]
    /\ snap' = [snap EXCEPT ![h] = 0]
    /\ answer' = [answer EXCEPT ![h] = "none"]
    /\ UNCHANGED <<dbVars, issued, deleted, everLive>>

Respond(h) ==
    /\ pc[h] = "respond"
    /\ view' = IF answer[h] = "ok" /\ req[h].op # "delete" /\ Live(req[h].pid)
               THEN [view EXCEPT ![req[h].client] =
                        [pid |-> req[h].pid, row |-> rows[req[h].pid]]]
               ELSE view
    /\ EndRequest(h)

\* The answer never reaches the client, which still holds its old row.
LoseAnswer(h) ==
    /\ pc[h] = "respond"
    /\ UNCHANGED view
    /\ EndRequest(h)

-----------------------------------------------------------------------------
\* The server starts on an empty database, or on one whose only prompt was
\* saved when text and sections could differ.  Migration 023 kept a drifted
\* text as version 1 and rebuilt the sections from it; migration 018 started
\* the id sequence.
EmptyDatabase ==
    /\ rows = [p \in PromptIds |-> NoRow]
    /\ versions = [p \in PromptIds |-> {}]
    /\ lastId = 0
    /\ lastVid = 0
    /\ everLive = [p \in PromptIds |-> {}]

MigratedRow(s, m) ==
    [sections |-> s, text |-> Render[s], meta |-> m, note |-> Unset,
     name |-> <<1>>, folder |-> NoFolder, known |-> 0, stamp |-> 0]

DriftedVersion(old) ==
    [vid |-> 1, number |-> 1, sections |-> old[1], text |-> old[2],
     meta |-> Unset, note |-> Unset]

Migrated(old, m, s) ==
    LET kept == IF Render[old[1]] # old[2] THEN {DriftedVersion(old)} ELSE {}
        contents == {Content(v) : v \in kept \cup {MigratedRow(s, m)}}
    IN /\ 1 \in PromptIds
       /\ rows = [p \in PromptIds |-> IF p = 1 THEN MigratedRow(s, m) ELSE NoRow]
       /\ versions = [p \in PromptIds |-> IF p = 1 THEN kept ELSE {}]
       /\ everLive = [p \in PromptIds |-> IF p = 1 THEN contents ELSE {}]
       /\ lastId = 1
       /\ lastVid = IF kept = {} THEN 0 ELSE 1

MigratedDatabase ==
    \E old \in LegacyPrompts, m \in Metas :
    \E s \in SectionsForText(old[2], old[1]) : Migrated(old, m, s)

Init ==
    /\ EmptyDatabase \/ MigratedDatabase
    /\ pc = [h \in Handlers |-> "idle"]
    /\ req = [h \in Handlers |-> NoRequest]
    /\ loaded = [h \in Handlers |-> NoRow]
    /\ next = [h \in Handlers |-> NoRow]
    /\ snap = [h \in Handlers |-> 0]
    /\ answer = [h \in Handlers |-> "none"]
    /\ view = [c \in Clients |-> NoRow]
    /\ issued = 0
    /\ deleted = {}

Send(h) ==
    \E c \in Clients :
       \/ \E b \in CreateBodies : SendCreate(h, c, b)
       \/ \E b \in UpdateBodies : SendUpdate(h, c, b)
       \/ \E p \in 1..lastId :
             \/ \E b \in BlindBodies : SendBlindUpdate(h, c, p, b)
             \/ \E vid \in 1..lastVid : SendRestore(h, c, p, vid)
             \/ SendDelete(h, c, p)
             \/ SendDuplicate(h, c, p)

Serve(h) ==
    \/ CheckUpdate(h)
    \/ CheckRestore(h)
    \/ CheckDuplicate(h)
    \/ StampWrite(h)
    \/ CommitWrite(h)
    \/ CommitInsert(h)
    \/ CommitDelete(h)
    \/ CommitFails(h)
    \/ Respond(h)
    \/ LoseAnswer(h)

\* No request is being served; nothing has to happen.
Quiescent ==
    /\ \A h \in Handlers : pc[h] = "idle"
    /\ UNCHANGED vars

Next ==
    \/ \E h \in Handlers : Send(h) \/ Serve(h)
    \/ \E c \in Clients, p \in PromptIds : Fetch(c, p)
    \/ \E from \in Folders, to \in Folders \cup {NoFolder} : MoveFolder(from, to)
    \/ Quiescent

Spec == Init /\ [][Next]_vars

-----------------------------------------------------------------------------
(* What holds however the handlers interleave                              *)

\* Every table, local variable and client view has the shape the schema and
\* the handlers give it.
TypeOK ==
    /\ rows \in [PromptIds -> Row \cup {NoRow}]
    /\ versions \in [PromptIds -> SUBSET Version]
    /\ lastId \in 0..MaxPrompts
    /\ lastVid \in Nat
    /\ pc \in [Handlers -> Steps]
    /\ req \in [Handlers -> Request]
    /\ loaded \in [Handlers -> Row \cup {NoRow}]
    /\ next \in [Handlers -> Row \cup {NoRow}]
    /\ snap \in [Handlers -> Nat]
    /\ answer \in [Handlers -> Answers]
    /\ view \in [Clients -> [pid : PromptIds, row : Row] \cup {NoRow}]
    /\ issued \in 0..MaxRequests
    /\ deleted \subseteq PromptIds

\* The id of a deleted prompt never names another prompt: an old deep link, a
\* version id or a client's token can only miss.  (next_id's high-water mark)
IdsNeverReused == \A p \in deleted : ~Live(p) /\ versions[p] = {}

\* The version numbers of a prompt are 1, 2, ..., k with none missing, so the
\* live row is version k + 1 in every handler that counts.  (snapshot,
\* live_version_number)
VersionNumbersContiguous ==
    \A p \in PromptIds :
       \A v \in versions[p] :
          \/ v.number = 1
          \/ \E w \in versions[p] : w.number + 1 = v.number

\* The version marked as known good exists: it is in the history or it is the
\* live one.  The check and the commit of update_prompt are separate steps.
KnownGoodExists ==
    \A p \in PromptIds : Live(p) => rows[p].known <= LiveVersionNumber(p)

\* A version row holds a state the prompt really was in, never a mixture of
\* two writers' columns.  (snapshot copies the row as its session loaded it)
VersionsWereLive ==
    \A p \in PromptIds : \A v \in versions[p] : Content(v) \in everLive[p]

-----------------------------------------------------------------------------
(* What holds while requests do not overlap                                *)

\* All that a client sees of a row except the folder, which MoveFolder changes
\* without a new stamp.
SameEdits(r, s) == [r EXCEPT !.folder = NoFolder] = [s EXCEPT !.folder = NoFolder]

\* A stamp names one state of a prompt: a client whose stamp is current holds
\* the current row, even after the wall clock stepped backwards.
StampIdentifiesEdits ==
    \A c \in Clients :
       LET v == view[c] IN
       (v # NoRow /\ Live(v.pid) /\ v.row.stamp = rows[v.pid].stamp)
          => SameEdits(v.row, rows[v.pid])

\* "Two sessions editing one prompt must not silently overwrite each other":
\* an update that carries a token replaces exactly the row its client saw.
NoLostUpdate ==
    [][\A h \in Handlers :
          (/\ pc[h] = "commit" /\ answer'[h] = "ok"
           /\ req[h].op = "update" /\ req[h].seen # NoRow)
             => SameEdits(rows[req[h].pid], req[h].seen)]_vars

\* The text of a prompt is its sections, rendered.
SectionsMatchText ==
    \A p \in PromptIds : Live(p) => rows[p].text = Render[rows[p].sections]

\* "Every saved change keeps the earlier version": each content a prompt has
\* had is its live content or is in its history, with the note it was saved with.
HistoryKept ==
    \A p \in PromptIds : Live(p) =>
       \A c \in everLive[p] : \/ c = Content(rows[p])
                              \/ \E v \in versions[p] : Content(v) = c

\* A version number names one version.
VersionNumbersUnique ==
    \A p \in PromptIds : \A v, w \in versions[p] : v.number = w.number => v = w

\* The history of a prompt loses nothing and confuses nothing.
HistoryExact == HistoryKept /\ VersionNumbersUnique

=============================================================================
