# A formal model of Prompt Maker Studio

TLA+ specifications of Prompt Maker Studio, its server and its browser application, the TLC
configurations that check them on small instances, and TLAPS proofs of the central
properties of server, editor, session and library page for every instance. Each definition is translated from the
code; `PROJECT.json` maps definitions to source lines. Paths below are relative to
`src/backend/app` unless they start with `frontend` (for `src/frontend/src`).

## 1. The system and its parts

Prompt Maker Studio is a FastAPI backend with an SQLite database and a React
frontend. Routes are synchronous functions, so FastAPI runs them in a pool of worker
threads: requests interleave. A session issues its SELECTs outside any transaction and
takes SQLite's writer lock at its first INSERT, UPDATE or DELETE, until COMMIT
(`database/connection.py`: pysqlite's transaction control, WAL, a busy timeout of five
seconds, foreign keys on). A handler that reads, decides and then writes is therefore
two or more atomic steps, and this is where most of the hard behaviour comes from.

| Part | State | Operations | What is hard | What makes it correct |
|---|---|---|---|---|
| Prompt library (`services/prompts/library.py`, `folders.py`, `ownership.py`) | prompt rows, id sequence | create, update, delete, duplicate, file into folders | token check, number look-up and commit are separate steps; the ORM writes changed columns only; answers get lost and are retried | no lost update, no id reuse, text = sections rendered |
| Version history (`services/prompts/versions.py`, `prompt_version_service.py`) | version rows | snapshot on change, restore | two handlers compute the same number | numbers without gaps, every content kept, versions are states that existed |
| Optimistic concurrency (`services/optimistic_concurrency.py`) | `updated_at` | next stamp, staleness | the wall clock steps backwards, equal milliseconds | a stamp names one state |
| Section rendering (`services/prompt_sections.py`) | none | render, parse back | two section lists with one text | the round trip |
| OAuth server for MCP clients (`services/oauth_provider.py`, `api/oauth_routes.py`) | clients, grants, codes, refresh tokens; signed access tokens held by clients | register, approve, exchange, rotate, revoke, disconnect, list | two counters bound into every credential; read-modify-write of the grant version; row ids of deleted accounts are handed out again | redeemed once, revocation is final and exact, access ends when the user ends it |
| Spend (`services/budget_service.py`, `spend_ledger.py`, `public_refine.py`, `llm_pricing.py`) | two ledgers, the admission lock | check, reserve, call, settle, record | check and record are apart; midnight and month end in between; crash before settlement; retries; answers without usage | caps hold, nothing reported is missing from the ledger, overshoot is bounded, the lock comes back |
| Evaluation (`services/eval_service.py`, `services/evaluation/*`) | cases, runs, results, ratings | import, edit, run, rate | a run lasts minutes and overlaps edits and deletions; two ratings of one result | a run is labelled with the text it tested, a rating is final |
| Accounts and sessions (`services/accounts/*`, `auth/*`, `api/session_routes.py`) | users, `token_version`, reset tokens | register, log in, refresh, log out, change or reset a password, delete | the registration gate, a reset link used twice, a new cookie that adopts a newer version | sessions end when they are ended |
| Connections and providers (`services/llm_client.py`, `services/accounts/connections.py`) | stored credentials, price cache | connect, test, call with retries | edits of a connection during a call | what was called is what is billed |
| Migrations (`database/migrations/*`) | schema version | run in order at start | a crash between two of them | every database reaches the newest schema |
| Editor (`frontend/features/editor/*`) | draft, queue of saves, undo | load, type, save, conflict, reload, restore, refine, import | answers out of order, a draft against a newer row, leaving the page | no keystroke is lost silently |
| Browser session (`frontend/lib/auth.ts, features/auth/*`) | who is signed in | log in, refresh, log out | a refresh that answers after logout | signed out stays signed out |
| Library page (`frontend/features/library/*`) | the shared read, the page's list, deletions in their Undo window, batches | star, rename, move, duplicate, delete, undo, leave | optimistic changes rolled back, a read overtaken by a write, batches that fail half way | the page shows what the server has; Undo does what it says |
| Import dialog (`frontend/features/library/ImportPrompts.tsx`) | preview, choices, failed rows | read files, review, convert, import, retry | a row stored whose answer is lost, an update of a prompt edited meanwhile | nothing confirmed is sent again, nothing is forgotten |
| Settings, provider form, evaluation page (`frontend/features/settings/*`, `evaluation/*`) | forms, request counters, suggestions in localStorage | save, test, disconnect, run, rate, page through history | answers out of order, paid work, pages that shift | what is shown as stored, tested or paid for is |
| Text tools (`frontend/lib/diff.ts`, `promptImport.ts`) | none | diff, split, read notes and CSV | rules that interact within one text | nothing is lost or misplaced |

Interactions: the editor and MCP clients call the library through REST and MCP, with the
`updated_at` they last saw as a token. The OAuth server hands MCP clients the access
tokens these calls carry; both counters of a token are compared with the account's row and
the grant's row on every call. Every feature that calls a model goes through the spend
ledger first and after. Deleting an account cascades over all its rows.

## 2. Modules

| Module | Models | Checked by | Proved in |
|---|---|---|---|
| `PromptLibrary` | library, versions, stamps, ids, migrations 018 and 023 | `MCPromptLibrary` with `LibrarySerial`, `LibraryConcurrent`, `LibraryLostUpdate` | `PromptLibraryProofs` |
| `OAuthGrants` | OAuth server, and accounts as far as credentials depend on them | `MCOAuthGrants` with `OAuthSerial`, `OAuthConcurrent` | `OAuthGrantsProofs` |
| `SpendBudget` | budgets, ledgers, free refiner, attempts of one model call | `MCSpendBudget` with `Spend` | `SpendBudgetProofs` |
| `SharedPrompt` | abstract: what an editor promises the others who write to a prompt | implemented by `PromptEditor` | `PromptEditorProofs` |
| `PromptEditor` | the editor tab: saves, conflicts, drafts, history, restore | `MCPromptEditor` with `EditorSave`, `EditorRestore` | `PromptEditorProofs` |
| `EditorAssist` | the helpers around it: refine, paste, variables, Try once, Undo | `MCEditorAssist` with `EditorAssist` | `EditorAssistProofs` |
| `BrowserSession` | signing in and out, renewal, session checks, calls | `MCBrowserSession` with `Session` | `BrowserSessionProofs` |
| `LibraryView` | library page and sidebar | `MCLibraryView` with `Library` | `LibraryViewProofs` |
| `SettingsPage`, `ConnectionForm`, `EvaluationPage`, `ImportDialog`, `TextTools` | one part of the app each | `Pages`, which instantiates all five, one per tab; `MCPages` with `Pages.cfg` | `PagesProofs`, the first four |

How the modules meet. `PromptLibrary` is the server side of a save in full detail, with handlers that
interleave; `PromptEditor` is the client side in full detail against a server whose handlers are one step
each. They meet in the concurrency token: `LibrarySerial` shows that with one handler at a time a token
refuses every stale save, which is what `ServerUpdate` of `PromptEditor` does, and `LibraryLostUpdate` shows
where two handlers at a time depart from it. `SharedPrompt` is what the editor makes of that
token for its user. The other browser modules take a handler of the server as one step, too; `PROJECT.json` maps
those steps to the handlers in the backend.

Conventions. In the server modules `pc[h]` is the next step of worker thread `h`; what it carries is in `task[h]`
(in `PromptLibrary`: `req`, `loaded`, `next`, `snap`, `answer`). A handler is cut into
steps exactly where it reads outside its write transaction; a transaction, from its
first DML to COMMIT, is one step because SQLite has one writer. In the browser modules an event
handler runs to its first `await` in one step and from each answer to the next `await` in another,
which is JavaScript's own atomicity; requests sit in `net`, `flight`, `jobs` or `asks` until the server has
handled them, and then until their answer arrives or is lost. `Input` bounds what the user, the clock and the network
do by themselves. Variables called history, and `seen`, `blind`, `crashed`, `signedOut`, `tainted`, `kept` and the like,
belong to the properties: no action of the code depends on them. Definitions named
`Mut...` stand beside the definition they distort and are used by no specification:
they show that each property can fail.

### PromptLibrary

`rows`, `versions` and the id high-water mark are the tables. `Load` is
`get_owned_prompt`; `CheckUpdate`, `CheckRestore` and `CheckDuplicate` are the SELECTs and
assignments that follow; `StampWrite` takes the number of the snapshot and reads the clock,
which may show any of `Instants`, also an earlier one; `CommitWrite`, `CommitInsert`
and `CommitDelete` are the transactions, `CommitFails` any of them rolled back. `Flush`
is the unit of work of the ORM: only a column that differs from its loaded value is
written, and an UPDATE of a row that is gone fails. `Respond` is `db.refresh` and the
answer, which may show a later writer's row; `LoseAnswer` drops it. Clients hold rows of
any age and send them back as tokens. `Render` and `WholeText` are constants: all the module
says of them is that a text's whole-text section renders to it, and two section lists may
render to one text, as two spellings of a name do. `Init` is an empty database or one that migrations
018 and 023 have just brought up.

### OAuthGrants

`users` maps row ids to an `auth_subject` and a `token_version`; a deleted row's id may be
given to a new account, which gets a new subject. Approvals, exchanges and rotations carry
what they read into their transaction: `approve_authorization` re-checks the session in a
conditional UPDATE by id and version, exchanges consume their row by a conditional DELETE, `disconnect_app`
reads the grant, then writes its version plus one. Access tokens are signed, not stored: `access`
is all that were ever signed, `Valid` the comparison made when one is presented. The fields `acct` and
`session` of a credential are history: the account and session that approved it.

### SpendBudget

The ledgers are only ever summed from the start of a day or a month, so they are kept as
these sums; adding or settling a row of month *m* moves the sums of all months up to *m*.
A visitor's request computes its estimate (`Visit`), takes the lock, counts, checks twice, reserves and
releases (`Acquire` to `Reserve`), calls (`Answer`, `NoAnswer`, at most two attempts), and settles.
A signed-in call is `Ask`, `SumBilled`, `CheckGlobal`, `CheckUser`, the attempts, `Record`. `Crash` empties
threads and lock and keeps the ledgers. Costs are whole numbers, tokens times one rate, and rates
do not change between a reservation and its settlement: the refresh of the price list
(`llm_pricing.py`) is left out. `reported` is a history
variable. `EstimateIsPessimistic` states what the estimate relies on: no attempt
exceeds the estimated input and the output cap, and the tokens assumed for a silent
answer fit in two estimated attempts. The second holds for the default output cap of 8000 and
not for every value of `PUBLIC_REFINE_MAX_OUTPUT_TOKENS`: two silent answers are priced at
4000 input and 4000 output tokens, four estimated attempts at 12000 or more input tokens and four times
the cap in output, so with a cap below 1000 and output dear enough a settled
row can exceed its reservation.

### PromptEditor and SharedPrompt

One tab, one prompt. `sections` is what the user sees, `prompt` what the tab last heard of the server,
`drafts` localStorage (one key for a new prompt, one for the saved one). Renames, moves, marks, saves and restores go
through `queue`, one at a time, and each takes its token when its turn comes (`Send`). `ServerUpdate` compares
tokens, `ServerRestore` does not, `ServerFail` loses a request or its answer. `Reload` is a reload, a crash or leaving and
coming back. A conflict offers Compare, Keep my edits and Take the saved version. A text is a list of named
sections; settings and the version note travel with the bodies. The names the server stores alike (padded
ones) are adopted after a save by position, as the code does. Not modelled: two tabs of one browser that
share the draft key. A creation repeated after a lost answer makes a second prompt, as in the code; the first is not followed.

`SharedPrompt` is the promise to others: the editor's own saves replace only a text its user saw, wrote or
agreed to replace. `OverwritesOnlyKnown` is `Shared!Spec` under the mapping text = the stored text, by = who
wrote it, known = what was seen or blindly accepted. Restores are a step of their own in it because the code sends them without a token.

### EditorAssist

The panels that change the sections while an AI call is under way. `refine` is the Refine session with its
questions, draft, evidence and draft check; `paste` the conversion under review; `pane` Try once; `removed` and `action` the
two Undo offers. `Rerender` is what React's effects do after every change. `MCEditorAssist` gives each behaviour one `scope`
(refine, paste, or filling in), each together with plain edits, so that the three add up and do not multiply. AI is available
throughout; the fallback of hints to saved settings, the 10,000-character limit of a review, the copy buttons and
the hand-over of a note from the import dialog are left out.

### BrowserSession

`tokens` are the sessions issued, `jar` is the cookie, which the page cannot read; `expiry`, `drafts`, `cached`, `refreshing` and
`leaving` are what AuthService keeps. Any 401 ends the page's session, a lost answer does not. A renewal
shared by callers has `waiters`; a sign-out waits for it; a sign-in waits for the sign-out. `Age` is the clock, in
three phases: fresh, within the last fifteen seconds, over.

### LibraryView

`data` is the read shared by page and sidebar, `page` the page's own list, `pendingDelete` the prompts in their
Undo window, `jobs` the operations at the server. Batches send one request at a time. Leaving the page flushes pending deletions with
keepalive requests, in order. Modal dialogs are counted at submission; search and sort only narrow what is shown and are left out,
as are the layout preference and Copy.

What page and server promise each other holds until two operations overlap, which `tainted` records: two operations on one prompt, a
folder renamed or removed while anything is under way, a change of a prompt that waits in its Undo window or of a list
that could not be refreshed, a deletion sent by leaving the page while its prompts are being worked on, "Try again" while operations are under way.
`before` is, for each prompt, the row that the last batch to move it found. A selection (`Only`) and a list in order (`AsList`) are stated by the
increasing enumeration of positions and ids, which the provers can reason about.

### The five parts of `Pages`

* `SettingsPage`: every change is a request of its own, numbered per kind; the whole user comes back with each
  answer. Answers of different kinds may come back in another order than they were given, and the page then shows the older user:
  `ShowsWhatIsStored` leaves this case out by the history variable `overlapped`.
* `ConnectionForm`: `refs` are the two request counters that tell a late answer from a current one. The base URL, which is
  edited and compared like the model, is left out. A provider changed during a test of the saved connection is followed by
  the saved provider's models (LLMConnectionForm.tsx:190); `CatalogueFits` leaves this case out (`raced`).
* `EvaluationPage`: one request of the page at a time (`perform`), other tabs free. A run takes the text and then the version
  number when it starts and is stored when it ends, so either may be older than the current one. One result per run; the four reads on opening are one;
  drafts, the comparison of runs and the checks of the case form are left out. A paid run that timed out in the browser may be stored later, which is a run from
  elsewhere. A page's worth of new runs from elsewhere makes "Load older" offer nothing new once, as in the code.
  Suggestions are kept in a storage that always answers: one that is full, blocked or written by two tabs is not modelled.
* `ImportDialog`: of a text its wording, first line, placeholder spelling and fit are kept. Folders and tags are left
  out, and one import runs at a time. A library prompt never edited has no stamp, so an update of it replaces a concurrent
  edit (ImportPrompts.tsx:229); `UpdateIsSafe` leaves these out.
* `TextTools`: functions applied once to every input up to a size. Frontmatter, tags, links, highlights and Dataview rewrite within a line and are left
  out. Inside a fence a marker with a language closes it for `mapProse` and not for the reader of headings; such notes are left out by
  `FencesAgree`. `Levels` counts a "# " line inside a fence as a title, as the code does; `HeadingsPromoted` leaves such notes
  out, and only them. An over-long placeholder at the end of a text leaves an empty section after it, which `SplitKeeps` allows.

## 3. What the runs check

Passing runs.

* **library_serial** (one worker, two clients, clock readings 0 and 2 in any order, 4 requests,
  2 prompts). Requests do not overlap, but clients hold rows of any age and lose answers.
  `NoLostUpdate`: an update with a token replaces exactly the row its client saw.
  `StampIdentifiesEdits`: a current stamp means the client holds the current row, though the clock stepped back.
  `HistoryExact`: every content a prompt has had is live or in its history with its note, and no number is used twice.
  `SectionsMatchText`: the text is the sections, rendered, also after migration 023 and a restore.
* **library_concurrent** (two workers, 3 requests, 2 prompts). What holds however handlers interleave:
  `IdsNeverReused`, `VersionNumbersContiguous`, `KnownGoodExists`, `VersionsWereLive`.
* **oauth_concurrent** (two workers, one client, one row id reused by a second account, 5 credentials).
  `RedeemedOnce`: a code or refresh token yields one successor. `GrantInvariant`: stored
  credentials carry the current version of their grant. `ApprovedByCurrentSession`: a usable
  credential was approved in the account's current session generation, though a sign-out overlapped
  the exchange. `RevokeIsExact`: a late revocation ends nothing newer than its token.
* **oauth_serial** (one worker, two clients). `ValidMeansListed`: an app with a valid token is
  among the connected apps. `DisconnectEndsAccess`: after a disconnection no token of that app is
  valid. `RevokedForGood`: a token that stopped being valid is never valid again, over reauthorization, sign-out,
  deletion and a reused id.
* **spend** (two workers, one account, two days of one month and the first of the next; a
  daily cap of 1, a reservation of 4 against a public ceiling of 5 and a shared one of 6, so that refusal by count,
  by estimate and by spend all happen). `DailyCap`, `PublicCap`, `LedgerCoversReported`
  (with a ceiling the public ledger is never below what providers reported, in mid-call, after
  failed settlements and crashes), `OvershootBounded` (the ceilings that are checked but not
  reserved are passed by less than one call per thread), and, under fairness, `LockReleased`.
* **editor_save** (one tab, two sections, three ways to edit and two texts of others, 4 inputs). `OverwritesOnlyKnown`: the editor implements
  `SharedPrompt`. `EditorInvariant`: the tab never conflicts with itself. `RecoversEdits`: edits survive a reload, unless the text they were
  based on was replaced. `SaveEnds`: Saving... ends.
* **editor_assist** (two variables, two pasted texts, two lists of runs, 4 inputs). `AppliesOnlyFreshDraft`: a draft is applied only to
  the sections it was written for. `UndoIsExact`: Undo gives back what was replaced or does nothing. `AssistInvariant`: evidence
  is of one run, shown test results are of the shown draft, a conversion is of the shown text, a review does not change how the
  prompt reads. `RefineEnds`.
* **session** (one account, 4 inputs, every request delayed or lost). `SessionInvariant`: from signing out to the next sign-in nothing of the account is
  left, a renewal or late answer notwithstanding. `SessionSurvives`: a sign-out never ends a later sign-in, and a network failure never ends a
  session. `WaitsEnd`: a sign-out waiting for a renewal reaches the server; checks, sign-ins and calls end.
* **library_page** (two prompts and a copy, two folders, two operations at a time, 3 inputs). `PageInvariant`: page and server agree when nothing is under way, and the
  shared read is newer than the last announced write. `UndoIsTrue`: a deletion taken back is not sent, an undone move restores every
  folder. `DeletesEnd`.
* **pages** (bounds of each part in `Pages.cfg`). `PagesTruthful` (`SettingsTruthful`, `ConnectionTruthful`, `EvaluationTruthful`): what the three pages show as stored, tested or rated is;
  the history skips and repeats no run though its pages shift; paid suggestions survive a reload; after a refusal by the budget nothing
  paid is sent before a new check. `ImportExact`: retries hold exactly what was not confirmed, updates replace what was compared. `TextKept`: the
  text tools against their reference definitions: a diff, a cut, a table come back whole, names are unique, code stays and comments do not
  leak, the top headings of a note without a title become its titles. `PagesSettle`: no page stays busy.

Runs that find a disagreement between the code and what the repository says of it.

* **library_lost_update** refutes `NoLostUpdate` with two workers: both pass the token check before either
  commits. `services/optimistic_concurrency.py` says two sessions "must not silently overwrite each other".
* **editor_restore** refutes `RestoreSparesEdits`: the sections stay editable while a restore is in flight, and its answer
  replaces what was typed (usePromptEditor.ts:448). `docs/saved-prompts.md` says a restore "is unavailable while there are unsaved edits".

Seven more disagreements are stated in the modules and are in no run; naming the property in the configuration
mentioned makes TLC show the behaviour.

* `SectionsMatchText` in `LibraryConcurrent.cfg`: one update respells a section name and writes only `fields`, the other
  writes a new text; `services/prompt_sections.py` says the two "can never disagree".
* `DisconnectEndsAccess` in `OAuthConcurrent.cfg`: a disconnection that read the grant before another disconnection and a new
  approval writes a version that is already current.
* `ApprovedByHolder` in `OAuthConcurrent.cfg`: an approval in flight while the account is deleted and its row id reused is
  issued for the new account; `models/user.py` says identity "cannot be reassigned with a username or row ID".
* `NoCallIsFree` in `Spend.cfg` with `Priced = {}` and `GlobalLimit = NoLimit`: a model without published rates that reports no usage is recorded at cost 0
  under a ceiling; a comment in `services/spend_ledger.py` says it "must not be recorded as free".
* `SignOutLeavesNothing` in `Session.cfg`: a password change answered after the sign-out sets a new cookie.
* `SameTextIsSame` of `EvaluationPage`, as an invariant of `MCPages` (`tab = "evaluation" => E!SameTextIsSame`): the page labels a run "with the same text" from what the server said when the run
  was read, and keeps the label when another tab has saved since.
* `TopHeadingIsTitle` of `TextTools`, as an invariant of `MCPages` (`tab = "text" => T!TopHeadingIsTitle`): a note that opens with `## Heading` and
  has a code fence with a `# comment` line in it is imported as one "Prompt" section, because promptImport.ts:104 looks for a title in what
  `mapProse` returns, fenced lines included (line 92). The comment above it (lines 98-101) says that without a `# Title` the "top heading level
  becomes the title level", and the one at line 81 sets code samples apart.

Two are visible in the code and not in a model, because the models take these handlers as one step or leave the value out: two ratings of one result
at the same moment both pass the check in `rate_eval_result`, which calls a rating final (`services/evaluation/results.py:63`); and
evaluation cases are listed by `position`, which `create_eval_case` takes from the number of cases, so that after a deletion a new case may share its
position with an older one (`EvaluationPage` has the positions; `CasesShown` does not compare the order).

Properties that hold serially and fail when requests overlap are stated once, so the boundary is visible: stamps, history,
drift and disconnection are right for one request at a time, ids, contiguous numbers, marks, redemption and admission always.
The serial runs therefore say nothing of the overlaps themselves (the token check outside the transaction, merged columns,
the version `disconnect_app` read before): those are what `library_lost_update` and the first two items above show.

**Bounds.** Two workers and two clients are the smallest numbers with an overlap and a
stale holder; every violation above needs no more. Two prompts allow a deletion of the newest
followed by a creation. Three requests on two workers let a third one observe what two left behind. Two accounts
on one row id are one reuse. Five credentials are a code, its refresh token, two
rotations and a second approval. Two clock readings two ticks apart let a stamp exceed the
clock. In the browser modules `MaxSteps` counts inputs only, and answers, failures of mutations in the editor, timers and renders come on top: four inputs are an edit, a
save, a foreign save and a reaction to the conflict, or a sign-in, a call, a sign-out and the next sign-in. Two
operations at a time on the library page are the fewest that overlap. A history of three runs with two to a page has
a page boundary, and the fourth run from elsewhere shifts it. The text tools see every text
of up to three tokens, every note of four lines of fifteen kinds, every table of four cells and every set of
database files. Symmetry is over workers and clients, and only in runs of safety properties.

**Fairness.** `LockReleased` needs weak fairness of each thread's own steps (locking,
queries, commits or their failure), which holds because threads are scheduled and every database
wait ends within the busy timeout. Nothing is assumed of providers, so a call may last for ever,
which is what the property is about, and nothing of who gets the lock next. In the browser modules requests end, with an answer or
an error (the browser gives up on a connection, and calls carry timeouts), answers run their handlers, and timers fire. Nothing is
assumed of the user, and no answer is assumed to be a success.

Deadlock is checked in the server's runs; where the bounds exhaust all requests, a `Quiescent` step stutters only
if no request is being served. The browser's runs do not check it: the user may stop.

## 4. What is proved

TLAPS checks each theorem for every value of the constants that meets the named assumptions: every number of worker
threads, users, clients, prompts, credentials, texts and names, every price, limit, calendar and clock, and every bound.
The assumptions (`LibraryAssumptions`, `OAuthAssumptions`, `SpendAssumptions`, `EstimateIsPessimistic`, `NamesAssumption`,
`BodiesAssumption`, `BoundsAssumption`, `InputsAssumption`, `NoneAssumption` of the editor, its helpers and the session, and `IdsAssumption`, `NamesAssumption`,
`NoneAssumption` of the library page, and `SettingsAssumption`, `ConnectionAssumption`, `EvaluationAssumption`, `ImportAssumption` of `Pages`) say what kind of value a constant is, that
normalizing a name twice is normalizing it once, that months do not run backwards, that the set of threads is finite, and that a call costs no more than its estimate
(section 2). TLC evaluates all of them in the runs.

None of the properties is inductive. Each module of proofs strengthens them by what is in flight, shows that the result holds initially
and over each action, one lemma or step per action, and reads the theorem off. Some theorems hold for one handler at a time: they assume
`Handlers = {h}`, which is what the runs `library_serial` and `oauth_serial` have, and where two handlers at a time break the property section 3 says so.

| Theorem | Property | |
|---|---|---|
| `PromptLibraryProofs!TypeCorrect`, `IdsAreNeverReused`, `NumbersAreContiguous`, `KnownGoodAlwaysExists` | `TypeOK`, `IdsNeverReused`, `VersionNumbersContiguous`, `KnownGoodExists` | any number of threads |
| `PromptLibraryProofs!VersionsAreTrue` | `VersionsWereLive` | any number of threads |
| `PromptLibraryProofs!TextIsRenderedSections`, `HistoryLosesNothing`, `StampsIdentifyEdits`, `NoUpdateIsLost` | `SectionsMatchText`, `HistoryExact`, `StampIdentifiesEdits`, `NoLostUpdate` | one thread |
| `OAuthGrantsProofs!GrantsAreConsistent`, `CredentialsAreRedeemedOnce`, `TokensFollowTheSession`, `RevocationsAreExact` | `GrantInvariant`, `RedeemedOnce`, `ApprovedByCurrentSession`, `RevokeIsExact` | any number of threads |
| `OAuthGrantsProofs!RevokedStaysRevoked`, `ValidTokensAreListed`, `DisconnectionIsFinal` | `RevokedForGood`, `ValidMeansListed`, `DisconnectEndsAccess` | one thread |
| `SpendBudgetProofs!SpendTypes`, `DailyCapHolds`, `PublicCapHolds`, `LedgerCovers` | `TypeOK`, `DailyCap`, `PublicCap`, `LedgerCoversReported` | any number of threads |
| `SpendBudgetProofs!OvershootIsBounded` | `OvershootBounded` | any number of threads |
| `PromptEditorProofs!EditorInvariantHolds`, `UnsavedEditsReturn` | `EditorInvariant`, `RecoversEdits` | |
| `PromptEditorProofs!EditorImplementsShared` | `OverwritesOnlyKnown`, the refinement of `SharedPrompt` | |
| `EditorAssistProofs!AssistHolds`, `DraftsApplyToTheirSource`, `UndoGivesBack` | `AssistInvariant`, `AppliesOnlyFreshDraft`, `UndoIsExact` | |
| `BrowserSessionProofs!SessionHolds`, `SessionIsKept` | `SessionInvariant`, `SessionSurvives` | |
| `LibraryViewProofs!PageHolds`, `UndoHolds` | `PageInvariant`, `UndoIsTrue` | any number of operations at a time |
| `PagesProofs!PagesHold`, from `SettingsHolds`, `ConnectionHolds`, `EvaluationHolds` | `PagesTruthful`, from `SettingsTruthful`, `ConnectionTruthful`, `EvaluationTruthful` | any number of requests at a time |
| `PagesProofs!ImportHolds` | `ImportExact` | any number of notes, prompts and edits elsewhere |

**PromptLibraryProofs.** `IInv` adds what handlers in flight carry: the number a snapshot will use is at most one above the current one
(`CommitOK`), so a commit that comes late repeats a number but never skips one; a known-good mark
that was checked stays within the versions that exist or that its own commit adds (`StampOK`, `CommitOK`), because
histories only grow while their prompt lives; ids up to the high-water mark are
live or spent (`IdsOK`), and clients only know such ids (`ViewsOK`).

For the past of a prompt `PastInv` adds that the row a handler has loaded was live once (`PastOK`), so whatever it snapshots was. With one
thread `SerialInv` follows a handler from load to commit: the row it holds is still the live one, and the one its client saw if it brought a
token (`HoldsLive`); its new text is its new sections, rendered (`TextInStep`); a write carries a newer stamp, and the next number or
an unchanged content (`WriteReady`). Folders may still be renamed and removed between the steps, which change a row's
folder and nothing else. `ViewsCurrent` makes a stamp a name: of the rows clients hold none is newer than the live row, and one with
its stamp is that row. `HistoryKept` and `VersionNumbersUnique` are the two halves of `HistoryExact`.

**OAuthGrantsProofs.** `IInv` adds where credentials come from: ids are handed out once and a redeemed row is in neither table (`IdsUnique`), subjects
belong to one account for ever (`SubjectsUnique`), a credential has the session version of its approval (`SessionsKept`), and a handler's
account keeps its subject or is gone (`TasksOK`). For one thread `SerialInv` adds `TokensBehind` (no token is ahead of the versions it is compared with, so a token
that fell behind never catches up: `VersionsAdvance` says that no version goes back while its holder exists), `DisconnectFresh` (the grant a disconnection has
read is as it was; this is where a second thread breaks it) and `TokensListed` (a valid token has a refresh token of its own line in the table,
which is what the list of connected apps is made from).

**SpendBudgetProofs.** `DailyInv` adds `Admission`: a visitor's request between the count and
the commit holds the lock, the room it counted is still there (only the holder adds rows, and a
new day starts empty), and no row lies in the future. `PublicInv` adds that each visitor's call stays within its estimate (`Estimates`) and that the ledger backs
the open reservations from every month on, and what was reported so far with their headroom (`Backed`); a reservation about to be written
fits (`UnderCeiling`). These are sums over all threads, which the provers cannot define recursively: `SumsTo` says that partial sums along some
listing of the threads exist, `SumChanges` moves a sum when one thread's share changes, and the inductions behind them go through the
library's well-foundedness of finite sets instead of an induction rule. `OvershootInv` bounds a ceiling that is checked and not reserved from
the other side: spend under the ceiling plus one dearest call for every thread that already has its place (`UserRoom`, `GlobalRoom`).
`GlobalRoom` is stated for every lower value of public spend, too, because a settlement lowers it while others act on what
they read before. `OvershootBounded` is about ceilings above 0; a ceiling of 0 refuses every call. The clock is assumed not to run backwards over midnight.

**PromptEditorProofs.** Several copies of the stored row are under way at any time: what the page works on, what Compare fetched, reads and
answers in flight, drafts, the stamps of requests. `IInv` ties them to the row by one relation: a copy is not newer than the row, and
one with the row's stamp has its text (`Past`). What the page works on was shown, written or accepted (`Pages`), drafts are based on such a text
(`DraftsKept`), and the row that a stamped request in flight would replace is such a text if the stamp still fits (`Mutations`): from this every accepted
save is a step `OwnSave` of `SharedPrompt`, every step of the others `OtherSave`, and what the page does by itself `Learn` or a stutter. `DraftsKept`
also says that what is stored under the draft key is what the last render would store, which gives back the edits. `Alone` says that
while nobody else wrote and no answer was lost every stamp under way is the stored one, the next in the queue getting it from the
answer before it.

**EditorAssistProofs.** `IInv` says of each helper what its answers will be about. A draft has its source beside it, section for section, and a
request that still counts is about that source (`RefineOK`, `AsksOK`), so what passes the staleness test of Apply changes was written for what it replaces;
a check that is offered, busy or done is one of the draft (`CheckOK`, kept by `Rerender` after every change); a pasted text, the
snapshot a conversion works on and the one Undo holds are equally coherent (`PasteOK`, `UndoOK`); the sections stay sections whatever
replaces them (`Contents`; a new section finds a free name by the pigeonhole principle, `UniqueNameIsNatural`). `ReviewReadsTheSame` goes through a reviewed text part by
part: a reused variable finds its own value under its new name because the review refuses two equal names, a fixed one is never empty.

**BrowserSessionProofs.** What a late answer may bring back depends on what is under way, so `IInv` follows the requests: there is at most one sign-in, registration, call or sign-out (here
or everywhere) under way, and the page is in the state that waits for it (`Requests`, `Expected`); a sign-out under way waits for
the one renewal the page knows of and keeps the form from sending a login (`LeavingOK`); and after a sign-out that nothing overlapped every renewal on its way
is either the one the sign-out waits for or was sent without a cookie and has not succeeded, and the cookie is gone unless the sign-out failed and no API call is left that could renew it (`Quiet`).
A free identifier for the next request always exists by the pigeonhole principle (`FreeIdIsNew`). The exceptions
`signedOut.amid` names are where the proof needs them: a password change, a forgotten renewal, a second sign-in and a call that outlives a failed sign-out each break a conjunct of `Quiet`.

**LibraryViewProofs.** `PageInvariant` speaks of the page at rest; `IInv` says what holds on the way there. Whatever happens, an operation has
the shape of its kind (`WellFormed`), a deletion taken back is in no window and in no request under way (`UndoneSafe`), the page is busy
exactly as long as its batch (`Owned`), and a read that ended was not overtaken by an announced change (`Fresh`). Until two operations overlap
(`Calm`), no two of them touch one prompt (`Apart`), each knows what the server has of its prompts (`ServerSide`: a batch has put back what it says
it has, a sent deletion is gone, a folder to go back to is the one the batch found), and every prompt outside `Unsure`, the few an operation is about to change in
the list, is listed as it is stored (`PageFits`). At rest `Unsure` is empty, and a list that shows each stored prompt once is as long as the store.
What the toast can take back is described the same way (`ToastFits`), because an Undo may come long after the operation and become one itself. The proof
follows every handler once for its types, once for the deletions and once for `Calm`. Its attempts
showed that the properties, which TLC had confirmed for three inputs, were false for longer sequences in cases `tainted` did not name,
all of them overlaps the code allows: a prompt changed in a list that could not be refreshed, deletions sent by leaving while an operation works on their
prompts, "Try again" during a deletion, and a second batch of other prompts before the first is undone, for which `before` now holds
each prompt's own last batch.

**PagesProofs.** The pages share no state, so each has its own invariant and `PagesHold` is their conjunction.
`EvaluationInv` ties the one request of the page to what it was sent for and to what the server has done of it: stored
cases are told apart by their ids and, sorted by position, they are what an idle page shows (the places of a total order on a finite set list every member once,
`InOrderLists`); the runs shown are the newest ones without a gap as far as the page has read, and a page that others' runs
have shifted meets what is shown already (`HistoryReaches`). `ConnectionInv` numbers the reads of the catalogue and the tests: one
that is still the latest is about the provider stored and the values tested, because whatever changes them takes a new
number, and unless an answer was lost a write that was served is the only one under way (`OneAtATime`, `Unwritten`). `SettingsInv` allows any
number of requests at a time, which is what the page does: the choices of the preference are numbered and served in turn, so the latest
is served last (`NotedRight`); without an overlap at most one other answer will bring a user, and it is the stored one (`UserShown`); and
a cache that holds or awaits a user has no change under way (`CacheFresh`), the answer it awaits being known by an identifier
nothing else has (`FreeIdentifier`, by the pigeonhole principle). `ImportInv` says of the prompts chosen for an import that the first ones
are settled, that those of them not confirmed are the ones listed as failed, and that the others are still to be written, in order (`InTurn`), so an
import that ends leaves exactly what failed. Whatever the page, the import or its updates hold of a stored prompt is not newer than
the prompt and has its text if it is as new (`CopyOf`, kept because every edit raises the stamp): an update the server accepts by its stamp
therefore replaces the text that was compared. What the session imported is listed by the page or still to be handed over
(`Handed`), and nothing is left to hand over once the dialog is closed, unless a drop overtook it (`DialogWaits`).

Only model-checked. Liveness (`LockReleased`, `SaveEnds`, `RefineEnds`, `WaitsEnd`, `DeletesEnd`, `PagesSettle`) is out of the
provers' reach. So are the text tools of `TextKept`: what a recursive function computes for every input needs induction over data.

## 5. Not modelled, and the plan

Left out for good: HTTP middleware, metrics, logging, email delivery, provider adapters and
transport (I/O without state the properties use), prompts sent to models, export (reads only), the public site (static).
The copy of evaluation cases in `duplicate_prompt`, favourites and tags on the server; PKCE, scopes and rate limits; the
password reset by mail and the registration gate; scoring and the judge of an evaluation; `promptLint`; the migration runner.

No safety property of the runs is left to prove but `TextKept`.
