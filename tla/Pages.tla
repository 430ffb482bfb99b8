------------------------------- MODULE Pages --------------------------------
(***************************************************************************)
(* One tab of the browser shows one of five parts of the app: the account  *)
(* settings, the form for an AI provider, the evaluation of a prompt, the  *)
(* import dialog, or a text tool.  The others hold nothing.                *)
(***************************************************************************)
EXTENDS Integers, Sequences, FiniteSets, TLC

CONSTANTS
  Tabs, None,
  \* SettingsPage
  Values, Apps, SettingsSteps,
  \* ConnectionForm
  Providers, Workspaced, KeyNeeded, Curated, Models, Keys, Workspaces, BadWorkspaces, FirstConnections,
  ServerDefault, FormSteps,
  \* EvaluationPage
  CASE_LIMIT, HISTORY_PAGE_SIZE, PromptTexts, Suggestions, FirstRuns, EvaluationSteps,
  \* ImportDialog
  Sources, Parsed, Notes, Titles, Library, Bodies, ImportSteps, MaxFaults,
  PromptNames, Wordings, \* what a name, and the wording of a text, may be
  \* TextTools
  Tokens, MaxTokens, MAX_CELLS, MAX_SECTION, MaxChars, Kinds, MaxLines, Headings, Cells, Files

VARIABLES
  tab,
  account, cache, page, net, overlapped, early, settingsSteps,
  stored, conn, form, catalogue, refs, tested, saving, testing, confirm, requests, vouched, lost, raced, formSteps,
  db, store, evaluation, job, check, kept, rechecked, newest, outside, evaluationSteps,
  ui, imported, sessionPrompts, existing, server, walks, reads, import, overtaken, importSteps, faults,
  input, result

S == INSTANCE SettingsPage WITH MaxSteps <- SettingsSteps, steps <- settingsSteps

C == INSTANCE ConnectionForm WITH MaxSteps <- FormSteps, net <- requests, steps <- formSteps

E == INSTANCE EvaluationPage WITH
       Texts <- PromptTexts, MaxSteps <- EvaluationSteps, page <- evaluation, steps <- evaluationSteps

I == INSTANCE ImportDialog WITH MaxSteps <- ImportSteps, job <- import, steps <- importSteps

T == INSTANCE TextTools

Users == [S!Fields -> Values]

SettingsAccounts == [user : Users, apps : SUBSET Apps]

ASSUME SettingsAssumption ==
  /\ Values # {}
  /\ None \notin Users \cup SettingsAccounts \cup {"saving", "saved"}
  /\ \A apps \in SUBSET Apps : apps # None
  /\ None \notin [request : Nat, user : Users \cup {None}]

(* The keys typed or stored earlier, and a connection as the form or the server hold it: the key known or only
   said to be stored. *)
HeldKeys == Keys \cup {c.key : c \in FirstConnections}

Connections ==
  [provider : Providers \cup {None}, model : Models \cup {""}, workspace : Workspaces \cup {""},
   key : HeldKeys \cup {"", "stored"}]

ASSUME ConnectionAssumption == None \notin Connections /\ FirstConnections \subseteq Connections

(* What the evaluation page holds: cases, runs as they are shown, the case being edited, and the request under way. *)
Contents == {"typed", "edited", "csv", "lacking"} \cup {Suggestions[i] : i \in DOMAIN Suggestions}

CaseRecords == [id : Nat, position : Nat, content : Contents]

ShownRuns == [id : Nat, version : Nat, stars : Nat, matches : BOOLEAN]

Editings == [id : Nat \cup {None}, index : Nat, content : Contents]

Jobs ==
  [kind : {"save", "delete", "import", "rate", "export", "generate", "run", "refresh", "history"},
   state : {"sent", "ok", "failed", "budget"},
   arg : Editings \cup Nat \cup Seq(Contents) \cup [run : Nat, stars : Nat] \cup {None},
   answer : Seq(CaseRecords) \cup Seq(ShownRuns) \cup ShownRuns \cup Nat \cup Seq(Contents) \cup {None}]

ASSUME EvaluationAssumption ==
  /\ CASE_LIMIT \in Nat \ {0} /\ HISTORY_PAGE_SIZE \in Nat \ {0} /\ FirstRuns \in Nat
  /\ PromptTexts # {} /\ Suggestions \in Seq(Contents)
  /\ None \notin Nat \cup Editings \cup Jobs \cup {"connected", "exhausted", "none"}

(* What a note, the library and the requests of an import hold. *)
ImportTexts ==
  [body : Wordings, place : {"none", "raw", "var"}, size : {"fits", "edge", "long"},
   head : PromptNames \cup {None}, cut : BOOLEAN]

ImportPrompts == [name : PromptNames, text : ImportTexts, flag : BOOLEAN, fav : BOOLEAN]

StoredPrompts == [name : PromptNames, text : ImportTexts, stamp : Nat]

SavedPrompts == [id : Nat, row : StoredPrompts, prompt : ImportPrompts]

ASSUME ImportAssumption ==
  /\ Titles \subseteq PromptNames /\ Bodies \subseteq Wordings /\ Notes \subseteq Sources
  /\ Library \in Seq(StoredPrompts) /\ Parsed \in [Sources -> [BOOLEAN -> Seq(ImportPrompts)]]
  /\ None \notin Sources \cup Seq(ImportPrompts) \cup SavedPrompts

settings == <<account, cache, page, net, overlapped, early, settingsSteps>>
connection == <<stored, conn, form, catalogue, refs, tested, saving, testing, confirm, requests, vouched, lost, raced,
                formSteps>>
evaluations == <<db, store, evaluation, job, check, kept, rechecked, newest, outside, evaluationSteps>>
imports == <<ui, imported, sessionPrompts, existing, server, walks, reads, import, overtaken, importSteps, faults>>
texts == <<input, result>>

vars == <<tab, settings, connection, evaluations, imports, texts>>

Init ==
  /\ tab \in Tabs
  /\ IF tab = "settings" THEN S!Init
     ELSE account = None /\ cache = None /\ page = None /\ net = None /\ overlapped = None /\ early = None
          /\ settingsSteps = None
  /\ IF tab = "connection" THEN C!Init
     ELSE stored = None /\ conn = None /\ form = None /\ catalogue = None /\ refs = None /\ tested = None
          /\ saving = None /\ testing = None /\ confirm = None /\ requests = None /\ vouched = None
          /\ lost = None /\ raced = None /\ formSteps = None
  /\ IF tab = "evaluation" THEN E!Init
     ELSE db = None /\ store = None /\ evaluation = None /\ job = None /\ check = None /\ kept = None
          /\ rechecked = None /\ newest = None /\ outside = None /\ evaluationSteps = None
  /\ IF tab = "import" THEN I!Init
     ELSE ui = None /\ imported = None /\ sessionPrompts = None /\ existing = None /\ server = None
          /\ walks = None /\ reads = None /\ import = None /\ overtaken = None /\ importSteps = None /\ faults = None
  /\ IF tab = "text" THEN T!Init ELSE input = None /\ result = None

AtSettings == tab = "settings" /\ UNCHANGED <<tab, connection, evaluations, imports, texts>>

AtConnection == tab = "connection" /\ UNCHANGED <<tab, settings, evaluations, imports, texts>>

AtEvaluation == tab = "evaluation" /\ UNCHANGED <<tab, settings, connection, imports, texts>>

AtImport == tab = "import" /\ UNCHANGED <<tab, settings, connection, evaluations, texts>>

AtText == tab = "text" /\ UNCHANGED <<tab, settings, connection, evaluations, imports>>

Next ==
  \/ AtSettings /\ S!Next
  \/ AtConnection /\ C!Next
  \/ AtEvaluation /\ E!Next
  \/ AtImport /\ I!Next
  \/ AtText /\ T!Apply

(* The fairness of each part: requests are answered or fail, timers fire, files are read. *)
Spec ==
  /\ Init /\ [][Next]_vars
  /\ WF_vars(AtSettings /\ S!Answers) /\ WF_vars(AtSettings /\ S!ViewTimerFires)
  /\ WF_vars(AtConnection /\ C!Network) /\ WF_vars(AtEvaluation /\ E!Answers)
  /\ WF_vars(AtImport /\ I!FileSteps) /\ WF_vars(AtImport /\ I!Answers)

-----------------------------------------------------------------------------
(* Properties: those of the parts, each stated and explained in its own module. *)

(* What a page shows as stored is stored.  The settings: the note beside the library preference is about the
   choice made last, the values and the cached user are the stored ones, an app no longer listed has no access. *)
SettingsTruthful ==
  tab = "settings" =>
    S!TypeOK /\ S!PreferenceStatus /\ S!ShowsWhatIsStored /\ S!CachedUserFresh /\ S!UnlistedIsDisconnected

(* The connection form: "Test passed" is said only of what the passed test used, and the models offered are the
   saved provider's. *)
ConnectionTruthful == tab = "connection" => C!TypeOK /\ C!TestVouches /\ C!CatalogueFits

(* The evaluation page: cases and ratings as stored, no run shown twice or skipped, paid suggestions kept until
   saved or discarded, no paid request after a refusal by the budget until a later check succeeded. *)
EvaluationTruthful ==
  tab = "evaluation" =>
    E!TypeOK /\ E!CasesShown /\ E!RatingShown /\ E!HistoryComplete /\ E!SuggestionsKept /\ E!BlockedUntilRecheck

(* What any of the three pages says is stored, tested, rated or paid for is. *)
PagesTruthful == SettingsTruthful /\ ConnectionTruthful /\ EvaluationTruthful

(* An import confirms, retries and hands over exactly what was written: the dialog's lists belong to the preview
   shown, a closed dialog has handed over what it imported, a retry holds what was not confirmed, and an update
   replaces only the text the dialog compared with. *)
ImportExact ==
  /\ [](tab = "import" => I!TypeOK /\ I!HandedOver)
  /\ [][tab = "import" => I!KeepsWhatFailed /\ I!ReplacesWhatItSaw]_imports

(* The text tools lose nothing and mix up nothing: a diff gives back both texts and is smallest, a long section
   is cut into sections that fit, no two sections of a prompt get the same tag, code and plain text of a note are
   kept under their heading while comments and asides are dropped, the top headings of a note without a title are its
   titles, a CSV table comes back as it was written, and a file is left out only if what replaces it is read. *)
TextKept ==
  tab = "text" =>
    /\ T!DiffExact /\ T!SplitKeeps /\ T!NamesUnique /\ T!NoteKept /\ T!HiddenDropped
    /\ T!HeadingsPromoted /\ T!CsvRoundTrip /\ T!NothingUnread

(* No page stays busy: the note beside the preference is taken down, and whatever a page waits for ends. *)
PagesSettle ==
  /\ (tab = "settings" /\ S!Noted) ~> ~(tab = "settings" /\ S!Noted)
  /\ saving = TRUE ~> saving # TRUE
  /\ testing = TRUE ~> testing # TRUE
  /\ (tab = "evaluation" /\ E!Busy) ~> ~(tab = "evaluation" /\ E!Busy)
  /\ (tab = "import" /\ I!Busy) ~> ~(tab = "import" /\ I!Busy)

=============================================================================
