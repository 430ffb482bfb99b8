--------------------------- MODULE EvaluationPage ---------------------------
(***************************************************************************)
(* The evaluation of one saved prompt in one tab (useEvaluation): its test *)
(* cases, AI suggestions kept in the browser until saved, paid runs and    *)
(* their ratings, the history read page by page, and the check that AI may *)
(* be used.  One request of the page is under way at a time (perform); the *)
(* availability check is apart.  Other tabs change what is stored.         *)
(***************************************************************************)
EXTENDS Integers, Sequences, FiniteSets, SequencesExt

CONSTANTS
  CASE_LIMIT,         \* cases a prompt may have
  HISTORY_PAGE_SIZE,  \* runs one request reads
  Texts,              \* what the prompt may say
  Suggestions,        \* a sequence of what one AI request proposes
  FirstRuns,          \* how many runs are stored at first
  MaxSteps,           \* bound: what the user, other tabs and faults do
  None

VARIABLES
  db,         \* server: the texts of the versions, the cases and the runs (newest first)
  store,      \* localStorage: the suggestions not yet saved
  page,       \* the state of the hook
  job,        \* the request under way (actionPending, busy), or None
  check,      \* the availability check under way, or None
  kept,       \* history: the suggestions shown once, less those discarded or saved
  rechecked,  \* history: an availability check asked since the last budget rejection succeeded
  newest,     \* history: the newest run stored when the page loaded
  outside,    \* history: another tab changed cases, or an answer was lost
  steps

vars == <<db, store, page, job, check, kept, rechecked, newest, outside, steps>>

Input == steps < MaxSteps /\ steps' = steps + 1

Live == Len(db.texts)

(* The members of S by a total order R on it, and the elements of a list at these places, as they come. *)
InOrder(S, R) == [k \in 1..Cardinality(S) |-> CHOOSE i \in S : Cardinality({j \in S : <<j, i>> \in R}) = k]

Where(list, places) ==
  LET place == InOrder(places, {p \in places \X places : p[1] <= p[2]})
  IN [k \in DOMAIN place |-> list[place[k]]]

-----------------------------------------------------------------------------
(* What the server answers: a run with what it says of the current text, one page of the history, and the
   cases by position, which a new case takes from the number of cases. *)

Described(run, d) ==
  [id |-> run.id, version |-> run.version, stars |-> run.stars,
   matches |-> d.texts[run.tested] = d.texts[Len(d.texts)]]

RunsFrom(offset) ==
  LET left == Len(db.runs) - offset
  IN [i \in 1..(IF left < HISTORY_PAGE_SIZE THEN left ELSE HISTORY_PAGE_SIZE) |-> Described(db.runs[offset + i], db)]

(* The text is read first, the version number after it, and the run stored once the provider has answered. *)
NewRun(d, tested, version) == [id |-> Len(d.runs) + 1, tested |-> tested, version |-> version, stars |-> 0]

NewCases(contents) ==
  [i \in 1..Len(contents) |->
     [id |-> db.cases.next + i - 1, position |-> Len(db.cases.list) + i - 1, content |-> contents[i]]]

Before(a, b) == a.position < b.position \/ (a.position = b.position /\ a.id <= b.id)

Listed(cases) ==
  LET place == InOrder(DOMAIN cases, {p \in (DOMAIN cases) \X (DOMAIN cases) : Before(cases[p[1]], cases[p[2]])})
  IN [k \in DOMAIN cases |-> cases[place[k]]]

-----------------------------------------------------------------------------
(* Opening the page: the suggestions come from the browser, the rest in one load *)

Restored(saved) == saved

Opened(saved) ==
  [loaded |-> FALSE, version |-> 1, cases |-> <<>>, runs |-> <<>>, hasMore |-> FALSE, proposals |-> Restored(saved),
   editing |-> None, deleting |-> None, suggesting |-> FALSE, importing |-> FALSE, view |-> "cases", selected |-> 0,
   config |-> None, failed |-> FALSE, rejected |-> FALSE]

Load ==
  /\ ~page.loaded
  /\ page' = [page EXCEPT !.loaded = TRUE, !.version = Live, !.cases = Listed(db.cases.list), !.runs = RunsFrom(0),
                          !.hasMore = Len(RunsFrom(0)) = HISTORY_PAGE_SIZE]
  /\ newest' = Len(db.runs)
  /\ UNCHANGED <<db, store, job, check, kept, rechecked, outside, steps>>

(* The user reloads, or leaves and comes back; what is under way is given up. *)
Reload ==
  /\ Input
  /\ page' = Opened(store) /\ store' = Restored(store)
  /\ job' = None /\ check' = [since |-> TRUE]
  /\ rechecked' = TRUE /\ outside' = FALSE
  /\ UNCHANGED <<db, kept, newest>>

(* Suggestions are written to the browser as they change. *)
SetProposals(list) == [page EXCEPT !.proposals = list]

-----------------------------------------------------------------------------
(* Whether AI may be used *)

ConfigAnswer ==
  /\ check # None
  /\ check' = None
  /\ \/ \E config \in {"connected", "exhausted", "none"} :
          /\ page' = [page EXCEPT !.config = config, !.failed = FALSE, !.rejected = FALSE]
          /\ rechecked' = (rechecked \/ check.since)
     \/ page' = [page EXCEPT !.config = None, !.failed = TRUE] /\ UNCHANGED rechecked
  /\ UNCHANGED <<db, store, job, kept, newest, outside, steps>>

(* The button is beside the error and beside the budget notice. *)
RetryConfig ==
  /\ Input /\ page.loaded /\ check = None
  /\ page.failed \/ page.config = "exhausted" \/ page.rejected
  /\ page' = [page EXCEPT !.config = None, !.failed = FALSE]
  /\ check' = [since |-> TRUE]
  /\ UNCHANGED <<db, store, job, kept, rechecked, newest, outside>>

CanUseAI == page.config = "connected" /\ ~page.rejected

-----------------------------------------------------------------------------
(* perform: one request at a time; its failure is shown and leaves the rest as it was *)

Idle == page.loaded /\ job = None

Ask(kind, arg) == job' = [kind |-> kind, arg |-> arg, state |-> "sent", answer |-> None]

Served(answer) == job' = [job EXCEPT !.state = "ok", !.answer = answer]

Refused(state) == job' = [job EXCEPT !.state = state]

Billed == {"run", "generate"}

(* Lost, refused by the budget, or out of time: a paid request is given up after two minutes and may still
   be served, as a run from elsewhere is. *)
JobFails ==
  /\ Input /\ job # None /\ job.state \in {"sent", "ok"}
  /\ \/ Refused("failed") /\ outside' = (outside \/ job.kind \in {"save", "delete", "import"})
     \/ job.kind \in Billed /\ job.state = "sent" /\ Refused("budget") /\ UNCHANGED outside
  /\ UNCHANGED <<db, store, page, check, kept, rechecked, newest>>

AfterFailure == None

JobFailed ==
  /\ job # None /\ job.state \in {"failed", "budget"}
  /\ job' = AfterFailure
  /\ page' = [page EXCEPT !.rejected = @ \/ job.state = "budget"]
  /\ rechecked' = (rechecked /\ job.state # "budget")
  /\ check' = IF check # None /\ job.state = "budget" THEN [check EXCEPT !.since = FALSE] ELSE check
  /\ UNCHANGED <<db, store, kept, newest, outside, steps>>

NotServed == db' = db /\ Refused("failed")

PlacesOf(id) == {i \in DOMAIN db.cases.list : db.cases.list[i].id = id}

EditServed ==
  /\ job.kind = "save" /\ job.arg.id # None
  /\ \/ \E i \in PlacesOf(job.arg.id) :
          db' = [db EXCEPT !.cases.list[i].content = job.arg.content] /\ Served(<<db'.cases.list[i]>>)
     \/ PlacesOf(job.arg.id) = {} /\ NotServed

AddServed ==
  /\ job.kind = "import" \/ (job.kind = "save" /\ job.arg.id = None)
  /\ LET new == NewCases(IF job.kind = "save" THEN <<job.arg.content>> ELSE job.arg)
     IN IF Len(db.cases.list) + Len(new) > CASE_LIMIT THEN NotServed
        ELSE db' = [db EXCEPT !.cases = [list |-> @.list \o new, next |-> @.next + Len(new)]] /\ Served(new)

DeleteServed ==
  /\ job.kind = "delete"
  /\ \/ \E i \in PlacesOf(job.arg) : db' = [db EXCEPT !.cases.list = RemoveAt(@, i)] /\ Served(None)
     \/ PlacesOf(job.arg) = {} /\ NotServed

Unrated(id) == {i \in DOMAIN db.runs : db.runs[i].id = id /\ db.runs[i].stars = 0}

RateServed ==
  /\ job.kind = "rate"
  /\ \/ \E i \in Unrated(job.arg.run) :
          db' = [db EXCEPT !.runs[i].stars = job.arg.stars] /\ Served(Described(db'.runs[i], db))
     \/ Unrated(job.arg.run) = {} /\ NotServed

RunServed ==
  /\ job.kind = "run"
  /\ \E tested \in job.arg..Live : \E version \in tested..Live :
       LET run == NewRun(db, tested, version)
       IN db' = [db EXCEPT !.runs = <<run>> \o @] /\ Served(Described(run, db))

ReadServed ==
  /\ \/ job.kind = "history" /\ Served(RunsFrom(job.arg))
     \/ job.kind = "refresh" /\ Served(Live)
     \/ job.kind = "generate" /\ Served(Suggestions)
     \/ job.kind = "export" /\ Served(None)
  /\ UNCHANGED db

JobServed ==
  /\ job # None /\ job.state = "sent"
  /\ EditServed \/ AddServed \/ DeleteServed \/ RateServed \/ RunServed \/ ReadServed
  /\ UNCHANGED <<store, page, check, kept, rechecked, newest, outside, steps>>

Answered(kind) == job # None /\ job.kind = kind /\ job.state = "ok"

-----------------------------------------------------------------------------
(* Test cases *)

(* The editor of a case takes the list's place. *)
Free == Idle /\ page.editing = None /\ page.view = "cases" /\ page.deleting = None /\ ~page.importing

AtLimit == Len(page.cases) >= CASE_LIMIT

AddCase ==
  /\ Input /\ Free /\ ~AtLimit /\ ~page.suggesting
  /\ page' = [page EXCEPT !.editing = [id |-> None, index |-> 0, content |-> "typed"]]
  /\ UNCHANGED <<db, store, job, check, kept, rechecked, newest, outside>>

ReviewSuggestion(index) ==
  /\ Input /\ Free /\ ~AtLimit /\ index \in DOMAIN page.proposals
  /\ page' = [page EXCEPT !.editing = [id |-> None, index |-> index, content |-> page.proposals[index]]]
  /\ UNCHANGED <<db, store, job, check, kept, rechecked, newest, outside>>

EditCase(i) ==
  /\ Input /\ Free /\ ~page.suggesting /\ i \in DOMAIN page.cases
  /\ page' = [page EXCEPT !.editing = [id |-> page.cases[i].id, index |-> 0, content |-> "edited"]]
  /\ UNCHANGED <<db, store, job, check, kept, rechecked, newest, outside>>

CancelEdit ==
  /\ Input /\ Idle /\ page.editing # None
  /\ page' = [page EXCEPT !.editing = None]
  /\ UNCHANGED <<db, store, job, check, kept, rechecked, newest, outside>>

SaveCase ==
  /\ Idle /\ page.editing # None
  /\ Ask("save", page.editing)
  /\ UNCHANGED <<db, store, page, check, kept, rechecked, newest, outside, steps>>

Without(list, index) == IF index = 0 THEN list ELSE RemoveAt(list, index)

SaveAnswer ==
  /\ Answered("save")
  /\ LET saved == job.answer[1]
         left == Without(page.proposals, page.editing.index)
     IN /\ page' = [SetProposals(left) EXCEPT
                      !.cases = IF job.arg.id = None THEN Append(@, saved)
                                ELSE [i \in DOMAIN @ |-> IF @[i].id = saved.id THEN saved ELSE @[i]],
                      !.editing = None]
        /\ store' = left
        /\ kept' = kept \ {saved.content}
  /\ job' = None
  /\ UNCHANGED <<db, check, rechecked, newest, outside, steps>>

AskDelete(i) ==
  /\ Input /\ Free /\ ~page.suggesting /\ i \in DOMAIN page.cases
  /\ page' = [page EXCEPT !.deleting = page.cases[i].id]
  /\ UNCHANGED <<db, store, job, check, kept, rechecked, newest, outside>>

CancelDelete ==
  /\ Idle /\ page.deleting # None
  /\ page' = [page EXCEPT !.deleting = None]
  /\ UNCHANGED <<db, store, job, check, kept, rechecked, newest, outside, steps>>

DeleteCase ==
  /\ Idle /\ page.deleting # None
  /\ Ask("delete", page.deleting)
  /\ UNCHANGED <<db, store, page, check, kept, rechecked, newest, outside, steps>>

AfterDelete(cases, id) == Where(cases, {i \in DOMAIN cases : cases[i].id # id})

DeleteAnswer ==
  /\ Answered("delete")
  /\ page' = [page EXCEPT !.cases = AfterDelete(@, job.arg), !.deleting = None]
  /\ job' = None
  /\ UNCHANGED <<db, store, check, kept, rechecked, newest, outside, steps>>

(* The import dialog reads a file, then sends it; a refused import leaves it open. *)
OpenImport ==
  /\ Input /\ Free /\ ~page.suggesting
  /\ page' = [page EXCEPT !.importing = TRUE]
  /\ UNCHANGED <<db, store, job, check, kept, rechecked, newest, outside>>

ImportCsv(contents) ==
  /\ Idle /\ page.importing
  /\ IF contents = <<>> THEN page' = [page EXCEPT !.importing = FALSE] /\ UNCHANGED job
     ELSE Ask("import", contents) /\ UNCHANGED page
  /\ UNCHANGED <<db, store, check, kept, rechecked, newest, outside, steps>>

ImportAnswer ==
  /\ Answered("import")
  /\ page' = [page EXCEPT !.cases = @ \o job.answer, !.importing = FALSE]
  /\ job' = None
  /\ UNCHANGED <<db, store, check, kept, rechecked, newest, outside, steps>>

ExportCsv ==
  /\ Input /\ Free /\ page.cases # <<>>
  /\ Ask("export", None)
  /\ UNCHANGED <<db, store, page, check, kept, rechecked, newest, outside>>

ExportAnswer ==
  /\ Answered("export") /\ job' = None
  /\ UNCHANGED <<db, store, page, check, kept, rechecked, newest, outside, steps>>

-----------------------------------------------------------------------------
(* Suggestions *)

Suggest(shown) ==
  /\ Input /\ Free /\ page.suggesting # shown
  /\ shown => ~AtLimit /\ CanUseAI /\ page.proposals = <<>>
  /\ page' = [page EXCEPT !.suggesting = shown]
  /\ UNCHANGED <<db, store, job, check, kept, rechecked, newest, outside>>

Generate ==
  /\ Free /\ page.suggesting /\ CanUseAI
  /\ Ask("generate", None)
  /\ UNCHANGED <<db, store, page, check, kept, rechecked, newest, outside, steps>>

GenerateAnswer ==
  /\ Answered("generate")
  /\ page' = [SetProposals(job.answer) EXCEPT !.suggesting = FALSE]
  /\ store' = job.answer /\ kept' = Range(job.answer)
  /\ job' = None
  /\ UNCHANGED <<db, check, rechecked, newest, outside, steps>>

Discard ==
  /\ Input /\ Free /\ page.proposals # <<>>
  /\ page' = SetProposals(<<>>) /\ store' = <<>> /\ kept' = {}
  /\ UNCHANGED <<db, job, check, rechecked, newest, outside>>

-----------------------------------------------------------------------------
(* Runs and their history *)

(* A case that lacks values blocks the run (an imported one may). *)
Incomplete == \E i \in DOMAIN page.cases : page.cases[i].content = "lacking"

RunEvaluation ==
  /\ Input /\ Idle /\ page.editing = None /\ page.deleting = None /\ ~page.importing
  /\ ~page.suggesting /\ CanUseAI /\ page.cases # <<>> /\ ~Incomplete
  /\ Ask("run", Live)
  /\ UNCHANGED <<db, store, page, check, kept, rechecked, newest, outside>>

(* The result is shown at once; the current version is then read again under the same request. *)
RunAnswer ==
  /\ Answered("run")
  /\ page' = [page EXCEPT !.runs = <<job.answer>> \o @, !.selected = job.answer.id, !.view = "runs",
                          !.version = job.answer.version]
  /\ Ask("refresh", job.answer.version)
  /\ UNCHANGED <<db, store, check, kept, rechecked, newest, outside, steps>>

RefreshAnswer ==
  /\ Answered("refresh")
  /\ page' = [page EXCEPT !.version = IF job.answer > job.arg THEN job.answer ELSE job.arg]
  /\ job' = None
  /\ UNCHANGED <<db, store, check, kept, rechecked, newest, outside, steps>>

SetView(view) ==
  /\ Input /\ Idle /\ page.editing = None /\ ~page.suggesting /\ page.deleting = None /\ ~page.importing
  /\ page.view # view
  /\ page' = [page EXCEPT !.view = view]
  /\ UNCHANGED <<db, store, job, check, kept, rechecked, newest, outside>>

LoadOlderRuns ==
  /\ Input /\ Idle /\ page.view = "runs" /\ page.hasMore
  /\ Ask("history", Len(page.runs))
  /\ UNCHANGED <<db, store, page, check, kept, rechecked, newest, outside>>

(* Mistake: runs read twice are shown twice. *)
MutFresh(older, shown) == older

Fresh(older, shown) ==
  Where(older, {i \in DOMAIN older : \A j \in DOMAIN shown : shown[j].id # older[i].id})

HistoryAnswer ==
  /\ Answered("history")
  /\ page' = [page EXCEPT !.runs = @ \o Fresh(job.answer, @), !.hasMore = Len(job.answer) = HISTORY_PAGE_SIZE]
  /\ job' = None
  /\ UNCHANGED <<db, store, check, kept, rechecked, newest, outside, steps>>

Select(i) ==
  /\ Input /\ page.loaded /\ page.view = "runs" /\ i \in DOMAIN page.runs /\ page.selected # page.runs[i].id
  /\ page' = [page EXCEPT !.selected = page.runs[i].id]
  /\ UNCHANGED <<db, store, job, check, kept, rechecked, newest, outside>>

Rate(i, stars) ==
  /\ Input /\ Idle /\ page.view = "runs" /\ i \in DOMAIN page.runs /\ page.runs[i].stars = 0
  /\ Ask("rate", [run |-> page.runs[i].id, stars |-> stars])
  /\ UNCHANGED <<db, store, page, check, kept, rechecked, newest, outside>>

WithRun(runs, updated) == [i \in DOMAIN runs |-> IF runs[i].id = updated.id THEN updated ELSE runs[i]]

RateAnswer ==
  /\ Answered("rate")
  /\ page' = [page EXCEPT !.runs = WithRun(@, job.answer)]
  /\ job' = None
  /\ UNCHANGED <<db, store, check, kept, rechecked, newest, outside, steps>>

-----------------------------------------------------------------------------
(* Another tab saves the prompt, runs and rates evaluations, deletes a case. *)

Elsewhere ==
  /\ Input
  /\ \/ \E text \in Texts : db' = [db EXCEPT !.texts = Append(@, text)] /\ UNCHANGED outside
     \/ db' = [db EXCEPT !.runs = <<NewRun(db, Live, Live)>> \o @] /\ UNCHANGED outside
     \/ \E i \in DOMAIN db.runs : db.runs[i].stars = 0 /\ db' = [db EXCEPT !.runs[i].stars = 1] /\ UNCHANGED outside
     \/ db.cases.list # <<>> /\ db' = [db EXCEPT !.cases.list = Tail(@)] /\ outside' = TRUE
  /\ UNCHANGED <<store, page, job, check, kept, rechecked, newest>>

Init ==
  /\ db = [texts |-> <<CHOOSE text \in Texts : TRUE>>,
           cases |-> [list |-> <<[id |-> 1, position |-> 0, content |-> "typed"]>>, next |-> 2],
           runs |-> [i \in 1..FirstRuns |-> [id |-> FirstRuns + 1 - i, tested |-> 1, version |-> 1, stars |-> 0]]]
  /\ store \in {<<>>, Suggestions} /\ kept = Range(store)
  /\ page = Opened(store) /\ job = None /\ check = [since |-> TRUE]
  /\ rechecked = TRUE /\ newest = 0 /\ outside = FALSE /\ steps = 0

Answers ==
  \/ Load \/ ConfigAnswer \/ JobServed \/ JobFailed \/ SaveAnswer \/ DeleteAnswer \/ ImportAnswer \/ ExportAnswer
  \/ GenerateAnswer \/ RunAnswer \/ RefreshAnswer \/ HistoryAnswer \/ RateAnswer

Next ==
  \/ Answers \/ JobFails \/ Reload \/ RetryConfig \/ Elsewhere
  \/ AddCase \/ CancelEdit \/ SaveCase \/ CancelDelete \/ DeleteCase \/ OpenImport \/ ExportCsv
  \/ \E i \in 1..CASE_LIMIT : EditCase(i) \/ AskDelete(i)
  \/ \E index \in DOMAIN Suggestions : ReviewSuggestion(index)
  \/ \E contents \in {<<>>, <<"csv">>, <<"csv", "lacking">>} : ImportCsv(contents)
  \/ \E shown \in BOOLEAN : Suggest(shown)
  \/ Generate \/ Discard \/ RunEvaluation \/ LoadOlderRuns
  \/ \E view \in {"cases", "runs"} : SetView(view)
  \/ \E i \in DOMAIN page.runs : Select(i) \/ \E stars \in {2} : Rate(i, stars)

(* Requests are answered or fail. *)
Spec == Init /\ [][Next]_vars /\ WF_vars(Answers)

-----------------------------------------------------------------------------
(* Properties *)

(* The page never outgrows what the server allows, and what is reviewed is on offer at its place in the list. *)
TypeOK ==
  /\ outside \/ Len(page.cases) <= CASE_LIMIT
  /\ page.editing # None /\ page.editing.index # 0 =>
       page.editing.index \in DOMAIN page.proposals /\ page.proposals[page.editing.index] = page.editing.content

(* Suggestions are paid for: each one shown stays, across reloads, until it is saved as a case or discarded
   (useEvaluation lines 53-72, 149-151). *)
SuggestionsKept == kept \subseteq Range(page.proposals) /\ store = page.proposals

(* After the budget refused a paid request none is sent until a later check of the budget has succeeded
   (lines 133, 185, 195; EvaluationPage line 53). *)
BlockedUntilRecheck == job # None /\ job.kind \in Billed /\ job.state = "sent" => rechecked

(* The history shows no run twice and skips none: every run stored when the page loaded is shown down to the
   oldest shown, and all of them once nothing older is offered, although runs added since shift the pages
   (lines 157-172). *)
HistoryComplete ==
  page.loaded =>
    LET shown == {page.runs[i].id : i \in DOMAIN page.runs}
    IN /\ Cardinality(shown) = Len(page.runs)
       /\ \A old \in 1..newest : old \in shown \/ (page.hasMore /\ \A r \in shown : old < r)

(* A rating shown is the rating stored, which is final, whoever rated first (lines 213-219). *)
RatingShown ==
  \A i \in DOMAIN page.runs : page.runs[i].stars # 0 =>
    \A k \in DOMAIN db.runs : db.runs[k].id = page.runs[i].id => db.runs[k].stars = page.runs[i].stars

(* The cases listed are the cases stored, each once, whenever nothing is under way (lines 142-182, 221-228).
   A case changed by another tab, or an answer that was lost, is left out: the page does not learn of it.
   Their order is not compared: a case added after a deletion may take a position already in use. *)
CasesShown ==
  page.loaded /\ job = None /\ ~outside =>
    Len(page.cases) = Len(db.cases.list) /\ Range(page.cases) = Range(db.cases.list)

(* The request under way ends and the page can be used again. *)
Busy == job # None
BusyEnds == Busy ~> ~Busy

(* "Current saved version N, with the same text" is said of a run only if version N has the text the run tested
   (EvaluationPage line 208). *)
SameTextIsSame ==
  page.loaded => \A i \in DOMAIN page.runs :
    LET run == page.runs[i]
    IN run.matches /\ run.version # page.version => db.texts[run.version] = db.texts[page.version]

=============================================================================
