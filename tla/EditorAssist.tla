---------------------------- MODULE EditorAssist ----------------------------
(***************************************************************************)
(* The helpers around the sections of the prompt editor: adding, removing  *)
(* and undoing, the Refine panel with its test evidence and draft check,   *)
(* Paste a prompt with its review, the variable settings and Try once.     *)
(* All of them work on one pair of sections and settings; each waits for   *)
(* an AI call while the others, a restore or a discard change that pair.   *)
(*                                                                         *)
(* A section is a name and a body; a body is a sequence of parts, each a   *)
(* word or a variable.  A section's name is a number, uniqueName's         *)
(* "Section n".                                                            *)
(***************************************************************************)
EXTENDS Integers, Sequences, FiniteSets, SequencesExt

CONSTANTS
  Vars, Words,        \* variable names; plain words, also used as values
  Bodies, Refined,    \* what the user types; what a refinement writes
  Elsewhere,          \* sections a restore or a discard may bring in
  PasteTexts, Conversion, Extracted, \* pasted texts, the sections AI makes of
                      \* each and the value it found for each variable
  Histories,          \* lists of evaluation runs, newest first
  MaxEvidence,        \* MAX_EVIDENCE
  MaxSections, MaxSteps, \* bounds: sections; edits and refine requests
  None

Settings == {"hint", "required", "example"}

Part == [kind : {"var"}, text : Vars] \cup [kind : {"word"}, text : STRING]
Section == [name : Nat, body : Seq(Part)]
Texts == {s \in Seq(Section) : Len(s) \in 1..MaxSections}

Values == Words \cup PasteTexts \cup {""}

VARIABLES
  sections, meta, filled,  \* the sections, the variables' settings, the values
  refineOpen, refine,      \* whether the panel is open; its session
  asks,                    \* its AI calls under way
  tests,                   \* the evaluation runs it loaded
  check,                   \* its draft check
  removed,                 \* the Undo of Remove section
  action,                  \* draftAction: the Undo of Apply and of Use in editor
  paste, pasteOpen,        \* importSession, importOpen
  parses,                  \* conversions under way
  pane,                    \* the preview pane: Try once
  steps

contents == <<sections, meta, filled>>
panel == <<refineOpen, refine, asks, tests>>
undo == <<removed, action>>
import == <<paste, pasteOpen, parses>>
vars == <<contents, panel, check, undo, import, pane, steps>>

Input == steps < MaxSteps /\ steps' = steps + 1

-----------------------------------------------------------------------------
(* Sections and variables *)

IsVar(part) == part.kind = "var"

VariablesIn(s) == {x \in Vars : \E i \in DOMAIN s : \E j \in DOMAIN s[i].body :
                                   s[i].body[j] = [kind |-> "var", text |-> x]}

(* Filled-in variables are replaced, the others stay as they are. *)
FillVariables(s, values) ==
  [i \in DOMAIN s |-> [s[i] EXCEPT !.body =
     [j \in DOMAIN @ |->
        IF IsVar(@[j]) /\ @[j].text \in DOMAIN values /\ values[@[j].text] # ""
        THEN [kind |-> "word", text |-> values[@[j].text]]
        ELSE @[j]]]]

HasContent(s) == \E i \in DOMAIN s : s[i].body # <<>>

BlankSections == <<[name |-> 1, body |-> <<>>]>>

UniqueName(s) ==
  CHOOSE n \in (Len(s) + 1)..(2 * Len(s) + 1) :
    /\ \A i \in DOMAIN s : s[i].name # n
    /\ \A m \in (Len(s) + 1)..(n - 1) : \E i \in DOMAIN s : s[i].name = m

NoValues == [x \in Vars |-> ""]
NoSettings == [x \in Vars |-> {}]

ASSUME BoundsAssumption == MaxEvidence \in Nat /\ MaxSections \in Nat \ {0}

ASSUME InputsAssumption ==
  /\ Words # {} /\ Values \subseteq STRING
  /\ Refined \in Seq(Part) /\ Bodies \subseteq Seq(Part) /\ Elsewhere \subseteq Texts
  /\ \A t \in PasteTexts : /\ Conversion[t] \in Texts
                            /\ \A x \in VariablesIn(Conversion[t]) : Extracted[t][x] \in Values

ASSUME NoneAssumption ==
  None \notin Texts /\ \A t \in PasteTexts : None # [of |-> t, fields |-> Conversion[t]]

-----------------------------------------------------------------------------
(* The Refine panel *)

NewSession(id) ==
  [source |-> None, questions |-> None, draft |-> None, review |-> FALSE, busy |-> "no",
   chosen |-> {}, id |-> id]

(* Mistake: only the number of sections is compared. *)
MutStale(r, s) == r.source # None /\ Len(r.source) # Len(s)

Stale(r, s) == r.source # None /\ r.source # s

Changed(r) == r.draft # None /\ r.draft.fields # r.source

Applied(r, s) == Changed(r) /\ r.draft.fields = s

(* The run whose results describe these sections. *)
EvidenceRun(runs, s) ==
  LET exact == {i \in DOMAIN runs : runs[i].tested = s}
      saved == {i \in DOMAIN runs : runs[i].version}
      first(I) == runs[CHOOSE i \in I : \A j \in I : i <= j]
  IN  IF exact # {} THEN first(exact) ELSE IF saved # {} THEN first(saved) ELSE None

LatestResults == IF tests = None \/ EvidenceRun(tests, sections) = None THEN {}
                 ELSE EvidenceRun(tests, sections).results

(* Choices from another run no longer apply. *)
Picked == refine.chosen \cap LatestResults

NoEvidence == [run |-> {}, results |-> {}]
Evidence == IF Picked = {} THEN NoEvidence ELSE [run |-> LatestResults, results |-> Picked]

CheckShown(r, s, t) ==
  /\ t # None /\ r.review /\ r.draft # None
  /\ Changed(r) /\ ~Stale(r, s) /\ ~Applied(r, s)

NoCheck == [state |-> "none", draft |-> None, ran |-> None]

(* DraftCheck is keyed by the draft: another draft, or leaving the review,  *)
(* starts it anew.                                                          *)
Rerender ==
  check' = IF ~CheckShown(refine', sections', tests') THEN NoCheck
           ELSE IF check.state # "none" /\ check.draft = refine'.draft.fields THEN check
           ELSE [state |-> "offered", draft |-> refine'.draft.fields, ran |-> None]

(* Opening reads the runs again; Refine needs content. *)
OpenRefine ==
  /\ ~refineOpen /\ ~pasteOpen /\ HasContent(sections)
  /\ refineOpen' = TRUE
  /\ pane' = [pane EXCEPT !.mounted = FALSE, !.trying = FALSE, !.result = None]
  /\ UNCHANGED <<contents, refine, asks, tests, undo, import, steps>>

LoadTests ==
  /\ Input /\ refineOpen
  /\ tests' \in Histories /\ tests' # tests
  /\ UNCHANGED <<contents, refineOpen, refine, asks, undo, import, pane>>

Close ==
  /\ refineOpen' = FALSE
  /\ pane' = [pane EXCEPT !.mounted = TRUE]

CloseRefine ==
  /\ refineOpen
  /\ Close
  /\ UNCHANGED <<contents, refine, asks, tests, undo, import, steps>>

(* A closed session stays in memory; only the newest request counts. *)
Ask(kind, source, evidence) ==
  /\ Input
  /\ refine' = [refine EXCEPT !.source = source, !.busy = kind, !.id = @ + 1]
  /\ asks' = asks \cup {[id |-> refine.id + 1, kind |-> kind, of |-> source, evidence |-> evidence]}
  /\ UNCHANGED <<contents, refineOpen, tests, undo, import, pane>>

Clarifying ==
  refineOpen /\ refine.busy = "no" /\ ~Stale(refine, sections) /\ ~refine.review

FindQuestions ==
  /\ Clarifying /\ refine.questions \in {None, 0}
  /\ Ask("questions", sections, NoEvidence)

Improve ==
  /\ Clarifying /\ refine.questions \in {None, 0}
  /\ Ask("draft", sections, Evidence)

CreateDraft ==
  /\ Clarifying /\ refine.questions \notin {None, 0} /\ refine.source # None
  /\ Ask("draft", refine.source, Evidence)

QuestionsAnswer(ask, n) ==
  /\ ask \in asks /\ ask.kind = "questions"
  /\ asks' = asks \ {ask}
  /\ refine' = IF ask.id # refine.id THEN refine
               ELSE [refine EXCEPT !.questions = n, !.draft = None, !.review = FALSE, !.busy = "no"]
  /\ UNCHANGED <<contents, refineOpen, tests, undo, import, pane, steps>>

DraftAnswer(ask, body) ==
  /\ ask \in asks /\ ask.kind = "draft"
  /\ asks' = asks \ {ask}
  /\ refine' = IF ask.id # refine.id THEN refine
               ELSE [refine EXCEPT !.review = TRUE, !.busy = "no",
                       !.draft = [of |-> ask.of,
                                  fields |-> [i \in DOMAIN ask.of |-> [ask.of[i] EXCEPT !.body = body]]]]
  /\ UNCHANGED <<contents, refineOpen, tests, undo, import, pane, steps>>

(* Mistake: a failed request leaves the panel busy. *)
MutAskFails(ask) ==
  /\ ask \in asks
  /\ asks' = asks \ {ask}
  /\ UNCHANGED <<contents, refineOpen, refine, tests, undo, import, pane, steps>>

AskFails(ask) ==
  /\ ask \in asks
  /\ asks' = asks \ {ask}
  /\ refine' = IF ask.id # refine.id THEN refine ELSE [refine EXCEPT !.busy = "no"]
  /\ UNCHANGED <<contents, refineOpen, tests, undo, import, pane, steps>>

Reset == NewSession(refine.id + 1)

StartAgain ==
  /\ refineOpen /\ (Stale(refine, sections) \/ Applied(refine, sections))
  /\ refine' = Reset
  /\ UNCHANGED <<contents, refineOpen, asks, tests, undo, import, pane, steps>>

DiscardSuggestion ==
  /\ refineOpen /\ refine.review /\ ~Stale(refine, sections)
  /\ refine' = Reset /\ Close
  /\ UNCHANGED <<contents, asks, tests, undo, import, steps>>

BackToAnswers ==
  /\ refineOpen /\ refine.review /\ ~Stale(refine, sections)
  /\ refine' = [refine EXCEPT !.review = FALSE]
  /\ UNCHANGED <<contents, refineOpen, asks, tests, undo, import, pane, steps>>

Choose(id) ==
  IF id \in Picked THEN Picked \ {id} ELSE Picked \cup {id}

PickResult(id) ==
  /\ Clarifying /\ id \in LatestResults
  /\ id \in Picked \/ Cardinality(Picked) < MaxEvidence
  /\ refine' = [refine EXCEPT !.chosen = Choose(id)]
  /\ UNCHANGED <<contents, refineOpen, asks, tests, undo, import, pane, steps>>

ApplyChanges ==
  /\ refineOpen /\ refine.review /\ ~Stale(refine, sections) /\ Changed(refine)
  /\ sections' = [i \in DOMAIN sections |-> [sections[i] EXCEPT !.body = refine.draft.fields[i].body]]
  /\ action' = [kind |-> "refine", before |-> contents,
                after |-> <<refine.draft.fields, meta, filled>>]
  /\ Close
  /\ UNCHANGED <<meta, filled, refine, asks, tests, removed, import, steps>>

(* DraftCheck: the test cases run on the draft and on its source. *)
RunCheck ==
  /\ refineOpen /\ check.state \in {"offered", "failed"}
  /\ check' = [check EXCEPT !.state = "busy", !.ran = check.draft]
  /\ UNCHANGED <<contents, panel, undo, import, pane, steps>>

CheckAnswer(outcome) ==
  /\ check.state = "busy"
  /\ check' = [check EXCEPT !.state = outcome]
  /\ UNCHANGED <<contents, panel, undo, import, pane, steps>>

-----------------------------------------------------------------------------
(* Sections, settings and values *)

Writing == ~refineOpen /\ ~pasteOpen

UpdateSection(i, body) ==
  /\ Input /\ Writing /\ i \in DOMAIN sections /\ body # sections[i].body
  /\ sections' = [sections EXCEPT ![i].body = body]
  /\ UNCHANGED <<meta, filled, panel, undo, import, pane>>

AddSection ==
  /\ Input /\ Writing /\ Len(sections) < MaxSections
  /\ sections' = Append(sections, [name |-> UniqueName(sections), body |-> <<>>])
  /\ UNCHANGED <<meta, filled, panel, undo, import, pane>>

RemoveSection(i) ==
  /\ Input /\ Writing /\ i \in DOMAIN sections
  /\ sections' = IF Len(sections) = 1 THEN BlankSections ELSE RemoveAt(sections, i)
  /\ removed' = [index |-> i, section |-> sections[i]]
  /\ UNCHANGED <<meta, filled, action, panel, import, pane>>

(* The notice with this Undo stays up while Refine is opened. *)
UndoRemove ==
  /\ Input /\ removed # None /\ ~pasteOpen /\ Len(sections) < MaxSections
  /\ sections' = InsertAt(sections, IF removed.index <= Len(sections) THEN removed.index
                                    ELSE Len(sections) + 1, removed.section)
  /\ removed' = None
  /\ UNCHANGED <<meta, filled, action, panel, import, pane>>

NoticeExpires ==
  /\ removed # None /\ removed' = None
  /\ UNCHANGED <<contents, action, panel, import, pane, steps>>

(* A starter template replaces everything. *)
ReplaceSections(s) ==
  /\ Input /\ Writing
  /\ sections' = s /\ meta' = NoSettings /\ filled' = NoValues
  /\ UNCHANGED <<panel, undo, import, pane>>

(* Selected text turned into a variable becomes its example. *)
InsertVariable(i, j, x) ==
  /\ Input /\ Writing /\ i \in DOMAIN sections /\ j \in DOMAIN sections[i].body
  /\ ~IsVar(sections[i].body[j])
  /\ sections' = [sections EXCEPT ![i].body[j] = [kind |-> "var", text |-> x]]
  /\ meta' = [meta EXCEPT ![x] = @ \cup {"example"}]
  /\ UNCHANGED <<filled, panel, undo, import, pane>>

ChangeMetadata(x, setting) ==
  /\ Input /\ Writing /\ x \in VariablesIn(sections)
  /\ meta' = [meta EXCEPT ![x] = IF setting \in @ THEN @ \ {setting} ELSE @ \cup {setting}]
  /\ UNCHANGED <<sections, filled, panel, undo, import, pane>>

(* Settings outlive their variable until they are removed. *)
RemoveSettings(x) ==
  /\ Input /\ Writing /\ x \notin VariablesIn(sections) /\ meta[x] # {}
  /\ meta' = [meta EXCEPT ![x] = {}]
  /\ UNCHANGED <<sections, filled, panel, undo, import, pane>>

ValueChange(x, value) ==
  /\ Input /\ Writing /\ x \in VariablesIn(sections) /\ filled[x] # value
  /\ filled' = [filled EXCEPT ![x] = value]
  /\ UNCHANGED <<sections, meta, panel, undo, import, pane>>

Example == CHOOSE w \in Words : TRUE

LoadExamples ==
  /\ Input /\ Writing
  /\ filled' = [x \in Vars |-> IF x \in VariablesIn(sections) /\ "example" \in meta[x]
                               THEN Example ELSE filled[x]]
  /\ filled' # filled
  /\ UNCHANGED <<sections, meta, panel, undo, import, pane>>

ClearValues ==
  /\ Input /\ Writing /\ filled # NoValues
  /\ filled' = NoValues
  /\ UNCHANGED <<sections, meta, panel, undo, import, pane>>

(* A restore is answered. *)
RestoredElsewhere(s) ==
  /\ Input /\ sections' = s
  /\ UNCHANGED <<meta, filled, panel, undo, import, pane>>

EmptyPaste == [text |-> "", conv |-> None, vars |-> <<>>, keep |-> FALSE, reviewing |-> FALSE]

(* Discard, or Use the saved version is answered. *)
Discarded(s) ==
  /\ Input /\ sections' = s /\ meta' = NoSettings
  /\ action' = None /\ removed' = None /\ paste' = EmptyPaste
  /\ UNCHANGED <<filled, panel, pasteOpen, parses, pane>>

(* A save is answered. *)
Saved ==
  /\ action # None /\ action' = None
  /\ UNCHANGED <<contents, panel, removed, import, pane, steps>>

(* Mistake: Undo brings back the sections without looking at what is there. *)
MutUnchangedSince == TRUE

UnchangedSince ==
  IF action.kind = "refine" THEN sections = action.after[1] ELSE contents = action.after

UndoAction ==
  /\ Input /\ action # None /\ ~refineOpen /\ ~pasteOpen
  /\ action' = None
  /\ IF ~UnchangedSince
     THEN removed' = None /\ UNCHANGED <<contents, paste>>
     ELSE /\ UNCHANGED removed
          /\ sections' = action.before[1]
          /\ IF action.kind = "refine" THEN UNCHANGED <<meta, filled, paste>>
             ELSE meta' = action.before[2] /\ filled' = action.before[3] /\ paste' = action.paste
  /\ UNCHANGED <<panel, pasteOpen, parses, pane>>

-----------------------------------------------------------------------------
(* Paste a prompt *)

OpenPaste ==
  /\ Writing
  /\ pasteOpen' = TRUE
  /\ UNCHANGED <<contents, panel, undo, paste, parses, pane, steps>>

ClosePaste ==
  /\ pasteOpen /\ parses = None
  /\ pasteOpen' = FALSE
  /\ UNCHANGED <<contents, panel, undo, paste, parses, pane, steps>>

PasteStep == UNCHANGED <<contents, panel, undo, pasteOpen, pane, steps>>

TypePaste(text) ==
  /\ pasteOpen /\ ~paste.reviewing /\ parses = None /\ text # paste.text
  /\ paste' = [EmptyPaste EXCEPT !.text = text]
  /\ PasteStep /\ UNCHANGED parses

Convert ==
  /\ pasteOpen /\ ~paste.reviewing /\ parses = None /\ paste.text # ""
  /\ parses' = paste
  /\ PasteStep /\ UNCHANGED paste

Converted(from, text) ==
  [from EXCEPT
     !.conv = [of |-> text, fields |-> Conversion[text]],
     !.vars = [x \in VariablesIn(Conversion[text]) |->
                 [name |-> x, value |-> Extracted[text][x], reuse |-> TRUE]],
     !.keep = FALSE, !.reviewing = TRUE]

ConvertAnswer ==
  /\ parses # None /\ parses' = None
  /\ paste' = Converted(parses, parses.text)
  /\ PasteStep

ConvertFails ==
  /\ parses # None /\ parses' = None
  /\ PasteStep /\ UNCHANGED paste

BackToSource ==
  /\ pasteOpen /\ paste.reviewing
  /\ paste' = [paste EXCEPT !.reviewing = FALSE]
  /\ PasteStep /\ UNCHANGED parses

ReturnToReview ==
  /\ pasteOpen /\ ~paste.reviewing /\ paste.conv # None /\ parses = None
  /\ paste' = [paste EXCEPT !.reviewing = TRUE]
  /\ PasteStep /\ UNCHANGED parses

Reusable(session) == {x \in DOMAIN session.vars : session.vars[x].reuse}

(* One property of one variable at a time; a fixed one cannot be renamed. *)
ChangeVariable(x, change) ==
  /\ Input /\ pasteOpen /\ paste.reviewing /\ x \in DOMAIN paste.vars
  /\ Cardinality({k \in {"name", "value", "reuse"} : change[k] # paste.vars[x][k]}) = 1
  /\ change.name # paste.vars[x].name => change.reuse
  /\ paste' = [paste EXCEPT !.vars[x] = change]
  /\ UNCHANGED <<contents, panel, undo, pasteOpen, parses, pane>>

KeepExamples ==
  /\ Input /\ pasteOpen /\ paste.reviewing /\ Reusable(paste) # {}
  /\ paste' = [paste EXCEPT !.keep = ~@]
  /\ UNCHANGED <<contents, panel, undo, pasteOpen, parses, pane>>

ReviewError(session) ==
  \/ \E x \in Reusable(session) : session.vars[x].name \notin Vars
  \/ \E x, y \in Reusable(session) : x # y /\ session.vars[x].name = session.vars[y].name
  \/ \E x \in DOMAIN session.vars \ Reusable(session) : session.vars[x].value = ""

(* Mistake: a placeholder is looked up under its new name. *)
MutReviewPart(session, part) ==
  LET named == {x \in DOMAIN session.vars : session.vars[x].name = part.text} IN
  IF ~IsVar(part) \/ named = {} THEN part
  ELSE LET variable == session.vars[CHOOSE x \in named : TRUE] IN
       IF variable.reuse THEN [kind |-> "var", text |-> variable.name]
       ELSE [kind |-> "word", text |-> variable.value]

(* A placeholder keeps its (new) name, or takes its fixed value. *)
ReviewPart(session, part) ==
  IF ~IsVar(part) \/ part.text \notin DOMAIN session.vars THEN part
  ELSE LET variable == session.vars[part.text] IN
       IF variable.reuse THEN [kind |-> "var", text |-> variable.name]
       ELSE [kind |-> "word", text |-> variable.value]

ReviewFields(session) ==
  LET fields == session.conv.fields IN
  [i \in DOMAIN fields |-> [fields[i] EXCEPT !.body =
     [j \in DOMAIN @ |-> ReviewPart(session, @[j])]]]

Inputs(session) ==
  [n \in {session.vars[x].name : x \in Reusable(session)} |->
     LET x == CHOOSE y \in Reusable(session) : session.vars[y].name = n IN session.vars[x].value]

(* importSections: everything is replaced, and can be brought back whole. *)
ImportSections(fields, settings, values) ==
  /\ sections' = fields /\ meta' = settings /\ filled' = values
  /\ action' = [kind |-> "import", before |-> contents, after |-> <<fields, settings, values>>,
                paste |-> paste]
  /\ paste' = EmptyPaste /\ pasteOpen' = FALSE
  /\ UNCHANGED <<panel, removed, parses, pane, steps>>

UseInEditor ==
  /\ pasteOpen /\ paste.reviewing /\ ~ReviewError(paste)
  /\ LET inputs == Inputs(paste) IN
     ImportSections(ReviewFields(paste),
       [n \in Vars |-> IF n \in DOMAIN inputs
                       THEN {"hint"} \cup (IF paste.keep /\ inputs[n] # "" THEN {"example"} ELSE {})
                       ELSE {}],
       [n \in Vars |-> IF n \in DOMAIN inputs THEN inputs[n] ELSE ""])

KeepAsWritten ==
  /\ pasteOpen /\ ~paste.reviewing /\ parses = None /\ paste.text # ""
  /\ ImportSections(<<[name |-> 1, body |-> <<[kind |-> "word", text |-> paste.text]>>]>>,
                    NoSettings, NoValues)

-----------------------------------------------------------------------------
(* Try once, in the preview pane; the pane goes away while Refine is open *)

MissingRequired ==
  {x \in VariablesIn(sections) : "required" \in meta[x] /\ filled[x] = ""}

TryEnabled == pane.mounted /\ ~pane.trying /\ HasContent(sections) /\ MissingRequired = {}

TryOnce ==
  /\ Input /\ Writing /\ TryEnabled
  /\ pane' = [pane EXCEPT !.trying = TRUE, !.sent = FillVariables(sections, filled)]
  /\ UNCHANGED <<contents, panel, undo, import>>

TryAnswer ==
  /\ pane.trying
  /\ pane' \in {[pane EXCEPT !.trying = FALSE, !.result = pane.sent], [pane EXCEPT !.trying = FALSE]}
  /\ UNCHANGED <<contents, panel, undo, import, steps>>

-----------------------------------------------------------------------------
Init ==
  /\ sections \in Elsewhere
  /\ meta = NoSettings /\ filled = NoValues
  /\ refineOpen = FALSE /\ refine = NewSession(0) /\ asks = {} /\ tests = None /\ check = NoCheck
  /\ removed = None /\ action = None
  /\ paste = EmptyPaste /\ pasteOpen = FALSE /\ parses = None
  /\ pane = [mounted |-> TRUE, trying |-> FALSE, sent |-> None, result |-> None]
  /\ steps = 0

Answers ==
  \E ask \in asks :
    \/ \E n \in {0, 2} : QuestionsAnswer(ask, n)
    \/ \E body \in {Refined} \cup Bodies : DraftAnswer(ask, body)
    \/ AskFails(ask)

Refining ==
  \/ OpenRefine \/ LoadTests \/ CloseRefine \/ FindQuestions \/ Improve \/ CreateDraft
  \/ Answers
  \/ StartAgain \/ DiscardSuggestion \/ BackToAnswers \/ ApplyChanges
  \/ \E id \in LatestResults : PickResult(id)

Editing ==
  \/ \E i \in 1..MaxSections : RemoveSection(i) \/ \E body \in Bodies : UpdateSection(i, body)
  \/ UndoRemove \/ NoticeExpires \/ Saved \/ UndoAction
  \/ \E s \in Elsewhere : RestoredElsewhere(s) \/ Discarded(s)

Filling ==
  \/ \E i \in 1..MaxSections, j \in 1..2, x \in Vars : InsertVariable(i, j, x)
  \/ AddSection \/ LoadExamples \/ ClearValues \/ TryOnce \/ TryAnswer
  \/ \E s \in Elsewhere : ReplaceSections(s)
  \/ \E x \in Vars :
       \/ \E setting \in Settings : ChangeMetadata(x, setting)
       \/ RemoveSettings(x)
       \/ \E value \in Words \cup {""} : ValueChange(x, value)

Pasting ==
  \/ OpenPaste \/ ClosePaste \/ Convert \/ ConvertAnswer \/ ConvertFails
  \/ BackToSource \/ ReturnToReview \/ KeepExamples \/ UseInEditor \/ KeepAsWritten
  \/ \E text \in PasteTexts : TypePaste(text)
  \/ \E x \in Vars : \E change \in [name : Vars \cup {"1x"}, value : Words \cup {""}, reuse : BOOLEAN] :
       ChangeVariable(x, change)

Next ==
  \/ (Refining \/ Editing \/ Filling \/ Pasting) /\ Rerender
  \/ RunCheck
  \/ \E outcome \in {"done", "failed"} : CheckAnswer(outcome)

(* Every AI call is answered or fails in the end. *)
Spec == Init /\ [][Next]_vars /\ WF_vars(Answers /\ Rerender)

-----------------------------------------------------------------------------
TypeOK ==
  /\ sections \in Texts
  /\ meta \in [Vars -> SUBSET Settings] /\ filled \in [Vars -> Values]
  /\ refine.busy \in {"no", "questions", "draft"}
  /\ check.state \in {"none", "offered", "busy", "done", "failed"}
  /\ paste.reviewing => paste.conv # None

(* "Changed editor contents must never accept a draft made against older    *)
(* contents": what Apply changes puts in the editor was written for exactly  *)
(* the sections it replaces, however Start again, late answers, restores and *)
(* Undo interleave.                                                          *)
AppliesOnlyFreshDraft == [][ApplyChanges => refine.draft.of = sections]_vars

(* The test results sent with a draft request are all results of the run     *)
(* named in it, and at most MAX_EVIDENCE, also after the runs were read anew *)
(* or the sections changed to another run's text.                            *)
EvidenceOfOneRun ==
  \A ask \in asks : /\ ask.evidence.results \subseteq ask.evidence.run
                    /\ Cardinality(ask.evidence.results) <= MaxEvidence

(* Test results shown beside a suggested draft are results of that draft.    *)
CheckIsOfDraft == check.state = "done" => refine.draft # None /\ check.ran = refine.draft.fields

(* The conversion under review was made of the text it is shown with.        *)
ConversionOfText == paste.conv # None => paste.conv.of = paste.text

(* Whatever is renamed, fixed or kept as a variable in the review, the       *)
(* prompt filled in with the current values reads the same.                  *)
ReviewKeepsText ==
  paste.reviewing /\ ~ReviewError(paste) =>
    LET direct(part) ==
          IF ~IsVar(part) THEN part
          ELSE LET variable == paste.vars[part.text] IN
               IF variable.value # "" THEN [kind |-> "word", text |-> variable.value]
               ELSE [kind |-> "var", text |-> variable.name]
    IN  FillVariables(ReviewFields(paste), Inputs(paste)) =
          [i \in DOMAIN paste.conv.fields |-> [paste.conv.fields[i] EXCEPT !.body =
             [j \in DOMAIN @ |-> direct(@[j])]]]

(* What the panel and the dialog show belongs to what it was asked about:    *)
(* the four above, in every state.                                           *)
AssistInvariant ==
  TypeOK /\ EvidenceOfOneRun /\ CheckIsOfDraft /\ ConversionOfText /\ ReviewKeepsText

(* Undo of Apply and of Use in editor either gives back exactly what was     *)
(* replaced or changes nothing: it never takes away what came later.         *)
UndoIsExact ==
  [][UndoAction /\ sections' # sections =>
       /\ sections = action.after[1] /\ sections' = action.before[1]
       /\ action.kind = "import" => contents = action.after /\ contents' = action.before]_vars

(* The panel does not stay busy: every question or draft request ends.       *)
RefineEnds == refine.busy # "no" ~> refine.busy = "no"

=============================================================================
