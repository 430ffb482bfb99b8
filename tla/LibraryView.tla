---------------------------- MODULE LibraryView ----------------------------
(***************************************************************************)
(* The library page and the sidebar of one tab.  Both show prompts from    *)
(* one shared read of the library; the page also changes its own list      *)
(* while it waits for answers (a favourite flips at once, a deleted prompt *)
(* leaves at once and is deleted after the Undo window), works through     *)
(* batches one request at a time and may be left and opened again.  Every  *)
(* answer may be late or lost.                                             *)
(***************************************************************************)
EXTENDS Integers, Sequences, FiniteSets

CONSTANTS
  Ids,          \* the prompts of the account; the copy takes the next number
  Filed,        \* the prompts that start in a folder
  Folders,
  Names,
  Slots,        \* bound: operations waiting for the server at a time
  MaxSteps,     \* bound: what the user does and the network loses
  None

ASSUME IdsAssumption == IsFiniteSet(Ids) /\ Ids = 1..Cardinality(Ids)

ASSUME NamesAssumption == Names # {} /\ (Filed # {} => Folders # {})

VARIABLES
  server,       \* the prompts stored, by id (None: deleted or not yet created)
  data,         \* LibraryData: the shared read and the list the sidebar shows
  page,         \* useLibrary: the list, the view, selection, toast
  pendingDelete,\* prompts inside their Undo window
  jobs,         \* operations under way
  unread,       \* history: an announced change no read has seen
  silent,       \* history: a deletion sent while the page went was lost
  tainted,      \* history: operations overlapped on a prompt, or an answer was lost
  undone,       \* history: prompts whose deletion was taken back in time
  before,       \* history: each prompt as the last batch that moved it found it
  steps

vars == <<server, data, page, pendingDelete, jobs, unread, tainted, silent, undone, before, steps>>

Copy == Cardinality(Ids) + 1

(* A prompt, as the library lists it. *)
Row == [id : Ids \cup {Copy}, name : Names, favorite : BOOLEAN, folder : Folders \cup {None}]

Toast == [kind : {"undoMove", "undoDelete"}, targets : Seq(Row)]

Kinds == {"favorite", "rename", "move", "duplicate", "batch", "undoBatch", "delete", "flush",
          "renameFolder", "removeFolder"}

(* Where a prompt can be moved: a folder or none. *)
MoveChoices == Folders \cup {None}

Changes == BOOLEAN \cup Names \cup MoveChoices \cup [from : Folders, to : MoveChoices]

(* An operation under way: what is left to do, what was done and what failed. *)
Operation ==
  [kind : Kinds, todo : Seq(Row), value : Changes, done : Seq(Row), failed : Seq(Row),
   state : {"sent", "ok", "failed", "reading", "read"}, row : Row \cup {None}, mine : BOOLEAN]

ASSUME NoneAssumption == None \notin Row \cup Seq(Row) \cup Toast \cup Operation

Rows == {server[i] : i \in Ids \cup {Copy}} \ {None}

Input == steps < MaxSteps /\ steps' = steps + 1

IdsOf(list) == {list[i].id : i \in DOMAIN list}

Increasing(S) ==
  CHOOSE f \in [1..Cardinality(S) -> S] : \A i, j \in DOMAIN f : i < j => f[i] < f[j]

(* The prompts of a list with these ids, in its order. *)
Only(list, ids) ==
  LET places == {i \in DOMAIN list : list[i].id \in ids}
  IN  [i \in 1..Cardinality(places) |-> list[Increasing(places)[i]]]

-----------------------------------------------------------------------------
(* LibraryData: one read at a time, repeated when it was invalidated. *)

Idle == [state |-> "no", rows |-> {}, invalidated |-> FALSE]

Load == IF data.read.state = "no" THEN [data EXCEPT !.read = [Idle EXCEPT !.state = "sent"]] ELSE data

Refresh == IF data.read.state = "no" THEN Load ELSE [data EXCEPT !.read.invalidated = TRUE]

NotifyLibraryChanged == data' = Refresh /\ unread' = TRUE

Quiet == UNCHANGED <<data, unread>>

ServeRead ==
  /\ data.read.state = "sent"
  /\ data' = [data EXCEPT !.read.state = "ok", !.read.rows = Rows]
  /\ unread' = FALSE
  /\ UNCHANGED <<server, page, pendingDelete, jobs, tainted, silent, undone, before, steps>>

LoseRead ==
  /\ Input /\ data.read.state \in {"sent", "ok"}
  /\ data' = [data EXCEPT !.read.state = "failed", !.read.rows = {}]
  /\ UNCHANGED <<server, page, pendingDelete, jobs, unread, tainted, silent, undone, before>>

ReadAgain ==
  /\ data.read.state \in {"ok", "failed"} /\ data.read.invalidated
  /\ data' = [data EXCEPT !.read = [Idle EXCEPT !.state = "sent"]]
  /\ UNCHANGED <<server, page, pendingDelete, jobs, unread, tainted, silent, undone, before, steps>>

(* Mistake: a prompt waiting to be deleted comes back with a reload. *)
MutShown(rows) == rows

(* What the page takes from a read: not what is inside its Undo window. *)
Shown(rows) == {row \in rows : row.id \notin IdsOf(pendingDelete)}

(* The latest comes first. *)
AsList(rows) ==
  LET ids == {row.id : row \in rows}
      n == Cardinality(ids)
  IN  [i \in 1..n |-> CHOOSE row \in rows : row.id = Increasing(ids)[n + 1 - i]]

Waits(job) == job # None /\ job.state = "reading"

ReadDone ==
  /\ data.read.state \in {"ok", "failed"} /\ ~data.read.invalidated
  /\ LET ok == data.read.state = "ok"
         awaited == page.loading \/ \E s \in Slots : Waits(jobs[s]) /\ jobs[s].mine
     IN  /\ data' = [read |-> Idle, failed |-> ~ok, rows |-> IF ok THEN data.read.rows ELSE data.rows]
         /\ page' = IF ~awaited THEN page
                    ELSE IF ok THEN [page EXCEPT !.loading = FALSE, !.error = FALSE,
                                                 !.prompts = AsList(Shown(data.read.rows))]
                    ELSE [page EXCEPT !.loading = FALSE, !.error = TRUE]
  /\ jobs' = [s \in Slots |-> IF Waits(jobs[s]) THEN [jobs[s] EXCEPT !.state = "read"] ELSE jobs[s]]
  /\ UNCHANGED <<server, pendingDelete, unread, tainted, silent, undone, before, steps>>

-----------------------------------------------------------------------------
(* Operations under way *)

Job(kind, todo, value) ==
  [kind |-> kind, todo |-> todo, value |-> value, done |-> <<>>, failed |-> <<>>,
   state |-> "sent", row |-> None, mine |-> TRUE]

FolderJob(job) == job.kind \in {"renameFolder", "removeFolder"}

Touches(job) ==
  IF job = None THEN {} ELSE IF FolderJob(job) THEN Ids \cup {Copy}
  ELSE IdsOf(job.todo) \cup IdsOf(job.done) \cup IdsOf(job.failed)
         \cup (IF job.kind = "duplicate" THEN {Copy} ELSE {})

Overlaps(job) ==
  \/ page.loading
  \/ \E s \in Slots : Touches(jobs[s]) \cap Touches(job) # {}
  \/ /\ job.kind \notin {"renameFolder", "removeFolder", "delete", "flush"}
     /\ page.error \/ IdsOf(pendingDelete) \cap Touches(job) # {}

(* The operation takes a free slot; what it overlaps with is remembered. *)
Start(job) ==
  /\ \E s \in Slots : /\ jobs[s] = None /\ \A t \in Slots : jobs[t] = None => s <= t
                      /\ jobs' = [jobs EXCEPT ![s] = job]
  /\ tainted' = (tainted \/ Overlaps(job))

(* What one request makes of a stored prompt. *)
Patched(job, row) ==
  CASE job.kind = "favorite" -> [row EXCEPT !.favorite = job.value]
    [] job.kind = "rename" -> [row EXCEPT !.name = job.value]
    [] job.kind \in {"move", "batch"} -> [row EXCEPT !.folder = job.value]
    [] job.kind = "undoBatch" -> [row EXCEPT !.folder = Head(job.todo).folder]
    [] OTHER -> None

Refiled(row, from, to) == IF row # None /\ row.folder = from THEN [row EXCEPT !.folder = to] ELSE row

Answered(s, row) == jobs' = [jobs EXCEPT ![s].state = "ok", ![s].row = row]

Serve(s) ==
  /\ jobs[s] # None /\ jobs[s].state = "sent"
  /\ LET job == jobs[s]
     IN  IF FolderJob(job)
         THEN /\ server' = [i \in DOMAIN server |-> Refiled(server[i], job.value.from, job.value.to)]
              /\ Answered(s, None)
         ELSE LET row == server[Head(job.todo).id]
              IN  IF row = None
                  THEN jobs' = [jobs EXCEPT ![s].state = "failed"] /\ UNCHANGED server
                  ELSE IF job.kind = "duplicate"
                  THEN LET copy == [row EXCEPT !.id = Copy, !.favorite = FALSE]
                       IN  server[Copy] = None /\ server' = [server EXCEPT ![Copy] = copy] /\ Answered(s, copy)
                  ELSE /\ server' = [server EXCEPT ![row.id] = Patched(job, row)]
                       /\ Answered(s, Patched(job, row))
  /\ UNCHANGED <<data, page, pendingDelete, unread, tainted, silent, undone, before, steps>>

(* The request or its answer is lost; in the second case the change was made. *)
Lose(s) ==
  /\ Input /\ jobs[s] # None /\ jobs[s].state \in {"sent", "ok"}
  /\ jobs' = [jobs EXCEPT ![s].state = "failed"]
  /\ tainted' = (tainted \/ jobs[s].state = "ok" \/ jobs[s].kind = "flush")
  /\ silent' = (silent \/ jobs[s].kind = "flush")
  /\ UNCHANGED <<server, data, page, pendingDelete, unread, undone, before>>

Replace(list, row) == [i \in DOMAIN list |-> IF list[i].id = row.id THEN row ELSE list[i]]

(* setPrompts of a page that was left does nothing. *)
Update(job, list) == IF job.mine /\ page.prompts # None THEN list ELSE page.prompts

Toasting(job, p, toast) == IF job.mine THEN [p EXCEPT !.toast = toast] ELSE p

(* A toast that only says something takes the place of one with Undo. *)
Plain == None

Finish(s) == jobs' = [jobs EXCEPT ![s] = None]

Success(kinds, s) == jobs[s] # None /\ jobs[s].kind \in kinds /\ jobs[s].state = "ok"
Failure(kinds, s) == jobs[s] # None /\ jobs[s].kind \in kinds /\ jobs[s].state = "failed"

UpdateAnswer(s) ==
  /\ Success({"favorite", "rename", "move"}, s)
  /\ LET job == jobs[s]
         p == [page EXCEPT !.prompts = Update(job, Replace(@, job.row))]
     IN  page' = IF job.kind = "move" THEN Toasting(job, p, Plain) ELSE p
  /\ Finish(s) /\ NotifyLibraryChanged
  /\ UNCHANGED <<server, pendingDelete, tainted, silent, undone, before, steps>>

(* A favourite that could not be stored flips back. *)
UpdateFails(s) ==
  /\ Failure({"favorite", "rename", "move", "duplicate"}, s)
  /\ LET job == jobs[s]
         p == Toasting(job, page, Plain)
     IN  page' = IF job.kind = "favorite" THEN [p EXCEPT !.prompts = Update(job, Replace(@, Head(job.todo)))]
                 ELSE p
  /\ Finish(s) /\ Quiet
  /\ UNCHANGED <<server, pendingDelete, tainted, silent, undone, before, steps>>

DuplicateAnswer(s) ==
  /\ Success({"duplicate"}, s)
  /\ LET job == jobs[s]
     IN  page' = Toasting(job, [page EXCEPT !.prompts = Update(job, <<job.row>> \o @)], Plain)
  /\ Finish(s) /\ NotifyLibraryChanged
  /\ UNCHANGED <<server, pendingDelete, tainted, silent, undone, before, steps>>

(* A batch remembers each prompt as it was, for Undo. *)
Kept(job) == Head(job.todo)

Batches == {"batch", "undoBatch", "delete"}

Advance(job) ==
  LET j == [job EXCEPT !.todo = Tail(@), !.state = "sent", !.row = None]
  IN  IF job.state = "ok" THEN [j EXCEPT !.done = Append(@, IF job.kind = "batch" THEN Kept(job) ELSE Head(job.todo))]
      ELSE [j EXCEPT !.failed = Append(@, Head(job.todo))]

BatchAdvances(s) ==
  /\ jobs[s] # None /\ jobs[s].kind \in Batches /\ jobs[s].state \in {"ok", "failed"}
  /\ Len(jobs[s].todo) > 1
  /\ jobs' = [jobs EXCEPT ![s] = Advance(@)]
  /\ page' = IF jobs[s].state = "ok" /\ jobs[s].kind # "delete"
             THEN [page EXCEPT !.prompts = Update(jobs[s], Replace(@, jobs[s].row))] ELSE page
  /\ UNCHANGED <<server, data, pendingDelete, unread, tainted, silent, undone, before, steps>>

(* A failed deletion puts the prompts back as they were taken. *)
Stale(list) == \E i \in DOMAIN list : server[list[i].id] # list[i]

(* Failures stay selected for a retry. *)
BatchResult(p, job) == [p EXCEPT !.selected = IdsOf(job.failed), !.busy = FALSE]

BatchEnds(s) ==
  /\ jobs[s] # None /\ jobs[s].kind \in Batches /\ jobs[s].state \in {"ok", "failed"}
  /\ Len(jobs[s].todo) = 1
  /\ LET job == Advance(jobs[s])
         p == IF jobs[s].state = "ok" /\ job.kind # "delete"
              THEN [page EXCEPT !.prompts = Update(job, Replace(@, jobs[s].row))] ELSE page
     IN  /\ page' = CASE job.kind = "batch" ->
                           Toasting(job, IF job.mine THEN BatchResult(p, job) ELSE p,
                                    IF job.done = <<>> THEN Plain ELSE [kind |-> "undoMove", targets |-> job.done])
                      [] job.kind # "batch" /\ job.failed = <<>> -> p
                      [] job.kind = "undoBatch" /\ job.failed # <<>> -> Toasting(job, p, Plain)
                      [] job.kind = "delete" /\ job.failed # <<>> ->
                           Toasting(job, [p EXCEPT !.prompts = Update(job, job.failed \o @)], Plain)
         /\ IF job.done # <<>> \/ job.kind = "undoBatch" THEN NotifyLibraryChanged ELSE Quiet
         /\ tainted' = (tainted \/ (job.kind = "delete" /\ Stale(job.failed)))
  /\ Finish(s)
  /\ UNCHANGED <<server, pendingDelete, silent, undone, before, steps>>

-----------------------------------------------------------------------------
(* What the page offers *)

(* The view narrows the list; a search narrows it further. *)
InView(row) ==
  CASE page.at = "favorites" -> row.favorite
    [] page.at = "unfiled" -> row.folder = None
    [] page.at \in Folders -> row.folder = page.at
    [] OTHER -> TRUE

Visible == {page.prompts[i] : i \in {j \in DOMAIN page.prompts : InView(page.prompts[j])}}

SelectedPrompts == Only(page.prompts, page.selected)

Loaded == page.mounted /\ page.prompts # None

(* An error, or an empty view, takes the place of the rows. *)
RowShown(row) == Loaded /\ ~page.error /\ row \in Visible

(* The star, the checkbox and the menu of a row. *)
Star(row) == RowShown(row)
Selection(row) == RowShown(row) /\ ~page.busy
PromptMenu(row) == RowShown(row)

SelectionBar == Loaded /\ Visible # {} /\ ~page.busy
BatchForm == Loaded /\ SelectedPrompts # <<>> /\ ~page.busy

(* Without prompts the page only offers to import or to write some. *)
EmptyLibrary == page.prompts = <<>> /\ ~page.error
FolderMenu == Loaded /\ ~EmptyLibrary /\ page.at \in Folders

(* What the rename dialog takes: a folder with a name. *)
RenameChoices == Folders

ToggleFavorite(row) ==
  /\ Input /\ Star(row)
  /\ page' = [page EXCEPT !.prompts = Replace(@, [row EXCEPT !.favorite = ~@])]
  /\ Start(Job("favorite", <<row>>, ~row.favorite))
  /\ UNCHANGED <<server, data, pendingDelete, unread, silent, undone, before>>

(* An unchanged name is not sent. *)
Rename(row, name) ==
  /\ Input /\ PromptMenu(row) /\ name # row.name
  /\ Start(Job("rename", <<row>>, name))
  /\ UNCHANGED <<server, data, page, pendingDelete, unread, silent, undone, before>>

(* The dialog is modal: only its submission counts. *)
Move(row, folder) ==
  /\ Input /\ PromptMenu(row)
  /\ Start(Job("move", <<row>>, folder))
  /\ UNCHANGED <<server, data, page, pendingDelete, unread, silent, undone, before>>

Duplicate(row) ==
  /\ Input /\ PromptMenu(row) /\ server[Copy] = None
  /\ \A s \in Slots : jobs[s] # None => jobs[s].kind # "duplicate"
  /\ Start(Job("duplicate", <<row>>, None))
  /\ UNCHANGED <<server, data, page, pendingDelete, unread, silent, undone, before>>

ToggleSelected(row) ==
  /\ Input /\ Selection(row)
  /\ page' = [page EXCEPT !.selected = IF row.id \in @ THEN @ \ {row.id} ELSE @ \cup {row.id}]
  /\ UNCHANGED <<server, data, pendingDelete, jobs, unread, tainted, silent, undone, before>>

SelectVisible ==
  /\ Input /\ SelectionBar
  /\ LET ids == {row.id : row \in Visible}
     IN  page' = [page EXCEPT !.selected = IF ids \subseteq @ THEN @ \ ids ELSE @ \cup ids]
  /\ UNCHANGED <<server, data, pendingDelete, jobs, unread, tainted, silent, undone, before>>

ClearSelection ==
  /\ Input /\ BatchForm /\ SelectionBar
  /\ page' = [page EXCEPT !.selected = {}]
  /\ UNCHANGED <<server, data, pendingDelete, jobs, unread, tainted, silent, undone, before>>

(* Files the selected prompts; without a folder it needs one that is filed. *)
MoveSelected(folder) ==
  /\ Input /\ BatchForm
  /\ folder = None => \E i \in DOMAIN SelectedPrompts : SelectedPrompts[i].folder # None
  /\ page' = [page EXCEPT !.busy = TRUE]
  /\ Start(Job("batch", SelectedPrompts, folder))
  /\ before' = [i \in DOMAIN server |-> IF i \in IdsOf(SelectedPrompts) THEN server[i] ELSE before[i]]
  /\ UNCHANGED <<server, data, pendingDelete, unread, silent, undone>>

UndoMove ==
  /\ Input /\ page.mounted /\ page.toast # None /\ page.toast.kind = "undoMove"
  /\ page' = [page EXCEPT !.toast = None]
  /\ Start(Job("undoBatch", page.toast.targets, None))
  /\ UNCHANGED <<server, data, pendingDelete, unread, silent, undone, before>>

-----------------------------------------------------------------------------
(* Deleting *)

(* Only one delete waits at a time; an earlier one goes through now. *)
CommitEarlier ==
  IF pendingDelete = <<>> THEN UNCHANGED <<jobs, tainted>> ELSE Start(Job("delete", pendingDelete, None))

RemoveMany(p, targets) ==
  /\ CommitEarlier
  /\ pendingDelete' = targets
  /\ page' = [p EXCEPT !.prompts = Only(@, IdsOf(@) \ IdsOf(targets)),
                       !.toast = [kind |-> "undoDelete", targets |-> targets]]
  /\ undone' = undone \ IdsOf(targets)
  /\ UNCHANGED <<server, data, unread, silent, before>>

Remove(row) == Input /\ PromptMenu(row) /\ RemoveMany(page, <<row>>)

DeleteSelected == Input /\ BatchForm /\ RemoveMany([page EXCEPT !.selected = {}], SelectedPrompts)

(* Mistake: the deletion is tied to its toast, which another one replaces. *)
MutDeleteTimer ==
  /\ pendingDelete # <<>> /\ page.toast # None
  /\ pendingDelete' = <<>>
  /\ Start(Job("delete", pendingDelete, None))
  /\ UNCHANGED <<server, data, page, unread, silent, undone, before, steps>>

(* The window ends before its toast does. *)
DeleteTimer ==
  /\ pendingDelete # <<>>
  /\ pendingDelete' = <<>>
  /\ Start(Job("delete", pendingDelete, None))
  /\ UNCHANGED <<server, data, page, unread, silent, undone, before, steps>>

(* Mistake: taking a deletion back does not stop its timer. *)
MutStopTimer == UNCHANGED pendingDelete

StopTimer == pendingDelete' = <<>>

UndoDelete ==
  /\ Input /\ page.mounted /\ page.toast # None /\ page.toast.kind = "undoDelete"
  /\ StopTimer
  /\ LET targets == page.toast.targets
     IN  /\ page' = [page EXCEPT !.toast = None, !.prompts = IF @ = None THEN None ELSE targets \o @]
         /\ tainted' = (tainted \/ Stale(targets) \/ page.loading
                         \/ \E s \in Slots : Touches(jobs[s]) \cap IdsOf(targets) # {})
         /\ undone' = undone \cup (IdsOf(pendingDelete) \ UNION {Touches(jobs[s]) : s \in Slots})
  /\ UNCHANGED <<server, data, jobs, unread, silent, before>>

ToastExpires ==
  /\ page.mounted /\ page.toast # None
  /\ page.toast.kind = "undoDelete" => pendingDelete = <<>>
  /\ page' = [page EXCEPT !.toast = None]
  /\ UNCHANGED <<server, data, pendingDelete, jobs, unread, tainted, silent, undone, before, steps>>

-----------------------------------------------------------------------------
(* Folders *)

RenameFolder(folder) ==
  /\ Input /\ FolderMenu /\ folder # page.at
  /\ Start(Job("renameFolder", <<>>, [from |-> page.at, to |-> folder]))
  /\ UNCHANGED <<server, data, page, pendingDelete, unread, silent, undone, before>>

RemoveFolder ==
  /\ Input /\ FolderMenu
  /\ Start(Job("removeFolder", <<>>, [from |-> page.at, to |-> None]))
  /\ UNCHANGED <<server, data, page, pendingDelete, unread, silent, undone, before>>

(* The page then waits for a read made after the change. *)
FolderAnswer(s) ==
  /\ Success({"renameFolder", "removeFolder"}, s)
  /\ jobs' = [jobs EXCEPT ![s].state = "reading"]
  /\ data' = Refresh
  /\ UNCHANGED <<server, page, pendingDelete, unread, tainted, silent, undone, before, steps>>

FolderFails(s) ==
  /\ Failure({"renameFolder", "removeFolder"}, s)
  /\ page' = Toasting(jobs[s], page, Plain)
  /\ Finish(s)
  /\ UNCHANGED <<server, data, pendingDelete, unread, tainted, silent, undone, before, steps>>

NewPage ==
  [mounted |-> TRUE, prompts |-> None, loading |-> TRUE, error |-> FALSE, at |-> "all",
   selected |-> {}, busy |-> FALSE, toast |-> None]

(* A page opened now may take a read made before a change. *)
Unsettled(slots) == data.read.state # "no" \/ \E s \in slots : jobs[s] # None

(* The address changes to where the prompts went, even if the page was left. *)
FolderDone(s) ==
  /\ jobs[s] # None /\ jobs[s].state = "read"
  /\ LET job == jobs[s]
         there == IF job.value.to = None THEN "unfiled" ELSE job.value.to
     IN  page' = Toasting(job, [(IF page.mounted THEN page ELSE NewPage) EXCEPT !.at = there], Plain)
  /\ Finish(s) /\ NotifyLibraryChanged
  /\ tainted' = IF page.mounted THEN tainted ELSE Unsettled(Slots \ {s})
  /\ UNCHANGED <<server, pendingDelete, silent, undone, before, steps>>

-----------------------------------------------------------------------------
(* Moving about *)

(* What the sidebar counts: None stands for the unfiled prompts. *)
FoldersInUse == {row.folder : row \in data.rows}

Links == {"all", "favorites"} \cup (FoldersInUse \ {None})
  \cup (IF None \in FoldersInUse THEN {"unfiled"} ELSE {})

(* A link of the sidebar, which shows the shared list. *)
ChangeView(at) ==
  /\ Input /\ page.mounted /\ at \in Links /\ at # page.at
  /\ page' = [page EXCEPT !.at = at]
  /\ UNCHANGED <<server, data, pendingDelete, jobs, unread, tainted, silent, undone, before>>

Flushed == [Job("flush", pendingDelete, None) EXCEPT !.mine = FALSE]

(* The delete inside its window is sent without waiting for the answer. *)
Flush ==
  /\ pendingDelete' = <<>>
  /\ IF pendingDelete = <<>> THEN UNCHANGED <<jobs, tainted>> ELSE Start(Flushed)

Disowned(slots) == [s \in Slots |-> IF slots[s] = None THEN None ELSE [slots[s] EXCEPT !.mine = FALSE]]

(* The pathname changes: the page goes, the sidebar reads the library. *)
Leave ==
  /\ Input /\ page.mounted
  /\ page' = [NewPage EXCEPT !.mounted = FALSE, !.loading = FALSE]
  /\ data' = Load
  /\ pendingDelete' = <<>>
  /\ IF pendingDelete = <<>> THEN jobs' = Disowned(jobs)
     ELSE \E s \in Slots : /\ jobs[s] = None /\ \A t \in Slots : jobs[t] = None => s <= t
                           /\ jobs' = Disowned([jobs EXCEPT ![s] = Flushed])
  /\ tainted' = (tainted \/ (pendingDelete # <<>> /\ Overlaps(Flushed)))
  /\ UNCHANGED <<server, unread, silent, undone, before>>

Return ==
  /\ Input /\ ~page.mounted
  /\ page' = NewPage /\ data' = Load
  /\ tainted' = Unsettled(Slots)
  /\ UNCHANGED <<server, pendingDelete, jobs, unread, silent, undone, before>>

(* The tab is hidden for good or kept in the history cache. *)
PageHide ==
  /\ Input /\ page.mounted /\ pendingDelete # <<>>
  /\ Flush
  /\ UNCHANGED <<server, data, page, unread, silent, undone, before>>

FlushEnds(s) ==
  /\ jobs[s] # None /\ jobs[s].kind = "flush" /\ jobs[s].state \in {"ok", "failed"}
  /\ LET job == jobs[s]
     IN  jobs' = [jobs EXCEPT ![s] = IF Len(job.todo) = 1 THEN None
                                     ELSE [job EXCEPT !.todo = Tail(@), !.state = "sent"]]
  /\ UNCHANGED <<server, data, page, pendingDelete, unread, tainted, silent, undone, before, steps>>

TryAgain ==
  /\ Input /\ page.mounted /\ page.error /\ ~page.loading
  /\ page' = [page EXCEPT !.loading = TRUE] /\ data' = Load
  /\ tainted' = (tainted \/ Unsettled(Slots))
  /\ UNCHANGED <<server, pendingDelete, jobs, unread, silent, undone, before>>

-----------------------------------------------------------------------------
Init ==
  /\ server = [i \in Ids \cup {Copy} |->
                 IF i = Copy THEN None
                 ELSE [id |-> i, name |-> CHOOSE name \in Names : TRUE, favorite |-> FALSE,
                       folder |-> IF i \in Filed THEN CHOOSE folder \in Folders : TRUE ELSE None]]
  /\ data = [rows |-> {}, failed |-> TRUE, read |-> [Idle EXCEPT !.state = "sent"]]
  /\ (\E at \in {"all"} \cup Folders : page = [NewPage EXCEPT !.at = at]) /\ pendingDelete = <<>> /\ jobs = [s \in Slots |-> None]
  /\ unread = FALSE /\ tainted = FALSE /\ silent = FALSE /\ undone = {} /\ before = server /\ steps = 0

Answer(s) ==
  \/ UpdateAnswer(s) \/ UpdateFails(s) \/ DuplicateAnswer(s) \/ BatchAdvances(s) \/ BatchEnds(s)
  \/ FolderAnswer(s) \/ FolderFails(s) \/ FolderDone(s) \/ FlushEnds(s)

Operate(row) ==
  \/ ToggleFavorite(row) \/ Duplicate(row) \/ Remove(row) \/ ToggleSelected(row)
  \/ \E name \in Names : Rename(row, name)
  \/ \E folder \in MoveChoices : Move(row, folder)

Batch ==
  \/ SelectVisible \/ ClearSelection \/ DeleteSelected \/ UndoMove
  \/ \E folder \in MoveChoices : MoveSelected(folder)

Reading == ServeRead \/ ReadAgain \/ ReadDone

Next ==
  \/ Reading \/ LoseRead
  \/ \E s \in Slots : Serve(s) \/ Lose(s) \/ Answer(s)
  \/ Loaded /\ \E row \in Visible : Operate(row)
  \/ Batch
  \/ \E folder \in RenameChoices : RenameFolder(folder)
  \/ RemoveFolder
  \/ DeleteTimer \/ UndoDelete \/ ToastExpires \/ PageHide
  \/ \E at \in Links : ChangeView(at)
  \/ Leave \/ Return \/ TryAgain

(* Timers fire and requests are answered or fail. *)
Spec == Init /\ [][Next]_vars /\ WF_vars(Reading) /\ WF_vars(DeleteTimer)
  /\ \A s \in Slots : WF_vars(Serve(s)) /\ WF_vars(Answer(s))

-----------------------------------------------------------------------------
TypeOK ==
  /\ \A i \in DOMAIN server : server[i] = None \/ server[i].id = i
  /\ page.prompts # None => \A i \in DOMAIN page.prompts : page.prompts[i].id \in Ids \cup {Copy}
  /\ page.busy => \E s \in Slots : jobs[s] # None /\ jobs[s].kind = "batch" /\ jobs[s].mine
  /\ data.read.state \in {"no", "sent", "ok", "failed"}

AtRest ==
  /\ \A s \in Slots : jobs[s] = None
  /\ pendingDelete = <<>> /\ Loaded /\ ~page.loading /\ ~page.error

(* When nothing is under way the page shows every stored prompt once, as it  *)
(* is stored: optimistic changes, rollbacks, batches that failed half way,   *)
(* undone deletions and reloads during an Undo window included.  Operations  *)
(* on one prompt that overlapped, and lost answers, are excepted.            *)
PageMatchesServer ==
  AtRest /\ ~tainted =>
    /\ {page.prompts[i] : i \in DOMAIN page.prompts} = Rows
    /\ Len(page.prompts) = Cardinality(Rows)

(* "All waiting consumers receive a read made after the latest write": when  *)
(* no read is under way and the last one did not fail, the shared list was   *)
(* read after the last announced change.                                     *)
SharedReadFresh == data.read.state = "no" /\ ~data.failed => ~unread

(* The page and the sidebar agree with the server. *)
PageInvariant == TypeOK /\ PageMatchesServer /\ SharedReadFresh

(* A deletion taken back inside its window never reaches the server, unless  *)
(* an earlier one of the same prompt was already under way.                  *)
UndoneIsKept ==
  [][\A i \in Ids \cup {Copy} : server[i] # None /\ server'[i] = None => i \notin undone]_vars

(* Undo of a move puts every prompt back into the folder it had before the   *)
(* batch, unless another operation came between or a request failed.         *)
UndoMoveRestores ==
  [][\A s \in Slots :
       /\ jobs[s] # None /\ jobs[s].kind = "undoBatch" /\ jobs'[s] = None
       /\ jobs[s].failed = <<>> /\ jobs[s].state = "ok" /\ ~tainted
       => \A i \in Touches(jobs[s]) : server[i].folder = before[i].folder]_vars

(* Both Undo buttons do what they say. *)
UndoIsTrue == UndoneIsKept /\ UndoMoveRestores

(* A deleted prompt is deleted on the server in the end, or shown again, or  *)
(* its page was left or hidden: no deletion is forgotten while another one starts.     *)
DeletesEnd ==
  \A i \in Ids :
    i \in IdsOf(pendingDelete) ~>
      \/ server[i] = None \/ ~page.mounted
      \/ page.prompts # None /\ i \in IdsOf(page.prompts)
      \/ page.error \/ silent

=============================================================================
