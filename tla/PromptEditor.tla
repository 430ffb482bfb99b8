---------------------------- MODULE PromptEditor ----------------------------
(***************************************************************************)
(* The prompt editor in one browser tab: usePromptEditor.ts with its draft *)
(* persistence, the header, conflict banner and history panel that drive   *)
(* it, against the stored prompt, which others change meanwhile.           *)
(*                                                                         *)
(* A section is a name and a body; variable settings and the version note  *)
(* travel with the body and are not told apart from it.  Names the server  *)
(* stores alike are tied by Normal, names that render as one tag by Tag.   *)
(* A request is sent, handled by the server and answered in three steps;   *)
(* it may fail, or be handled and its answer lost.  Reload stands for a    *)
(* reload, a crash or leaving and coming back; a request the page left     *)
(* behind that is handled later looks like somebody else's save.           *)
(***************************************************************************)
EXTENDS Integers, Sequences, FiniteSets

CONSTANTS
  Names, ValidNames,   \* section names as typed; those that pass VALID_NAME
  Normal, Tag,         \* normalizeSectionName and sectionTag, as functions
  Bodies, LongBodies,  \* section contents; those over 10,000 characters
  Blank,               \* the body that is empty once trimmed
  StartName,           \* the name of a new prompt's first section
  Edits, OthersTexts,  \* what the user types in a section; what others store
  MaxSections, MaxSteps, \* bounds: sections of a prompt; user and foreign inputs
  None

ASSUME NamesAssumption ==
  /\ ValidNames \subseteq Names /\ StartName \in ValidNames
  /\ Normal \in [Names -> Names] /\ \A n \in Names : Normal[Normal[n]] = Normal[n]
  /\ DOMAIN Tag = Names /\ \A n \in Names : Tag[Normal[n]] = Tag[n]

ASSUME BodiesAssumption == LongBodies \subseteq Bodies /\ Blank \in Bodies \ LongBodies

ASSUME BoundsAssumption == MaxSections \in Nat \ {0} /\ MaxSteps \in Nat

Section == [name : Names, body : Bodies]
Texts == UNION {[1..n -> Section] : n \in 1..MaxSections}

ASSUME InputsAssumption == OthersTexts \subseteq Texts /\ Edits \subseteq Section

Row == [text : Texts, stamp : Nat, by : {"own", "other", "restore"}]

VARIABLES
  row,       \* the stored prompt: its text, its concurrency stamp and last writer
  stored,    \* the versions the server keeps, oldest first
  drafts,    \* localStorage: the draft under the "new" and the "saved" key
  phase,     \* "new", "loading", "ready" or "failed"
  prompt,    \* the stored prompt as this tab last heard of it
  versions,  \* how many of the stored versions the tab has listed
  sections,  \* the sections in the editor
  values,    \* whether inputs are filled in
  remember,  \* rememberValues
  restored,  \* restoredDraft: the banner over a recovered draft
  panel,     \* "none", "history" or "refine"
  dialog,    \* whether the Save prompt dialog of a new prompt is open
  saving,    \* "no", "create", "patch" or "versions": what Saving... waits for
  conflict,  \* the conflict banner
  latest,    \* conflictLatest: what Compare fetched
  flight,    \* the mutation at the server
  queue,     \* mutationChain: the mutations waiting behind it
  gets,      \* reads on their way: the load and the three conflict buttons
  steps,     \* user and foreign inputs so far
  seen,      \* texts the user was shown in the editor, or wrote in it
  blind,     \* texts Keep my edits adopted without Compare
  disturbed, \* somebody else wrote, or an answer was lost
  crashed    \* what was unsaved when the page went away

server == <<row, stored>>
view == <<phase, prompt, versions, restored, panel, dialog>>
work == <<sections, values, remember>>
calls == <<flight, queue, gets>>
clash == <<conflict, latest>>
ghosts == <<seen, blind, disturbed, crashed>>
vars == <<server, drafts, view, work, saving, clash, calls, steps, ghosts>>

Idle == [status |-> "idle", row |-> None]
GetKinds == {"load", "compare", "keep", "take"}
Draft == [base : Texts \cup {None}, sections : Texts, remember : BOOLEAN, values : BOOLEAN]

(* A mutation of the prompt, from the moment it is queued to its answer. *)
Tasks == [kind : {"create", "save", "meta", "restore"}, fields : Texts \cup {<<>>},
          version : Nat, here : BOOLEAN, stamp : Nat,
          status : {"queued", "wait", "ok", "conflict", "error"}, row : Row \cup {None}]

ASSUME NoneAssumption == None \notin Texts \cup Row \cup Draft \cup Tasks

-----------------------------------------------------------------------------
(* Editor contents *)

ToFields(s) == [i \in DOMAIN s |-> [name |-> Normal[s[i].name], body |-> s[i].body]]

BlankSections == <<[name |-> StartName, body |-> Blank]>>

HasContent(s) == \E i \in DOMAIN s : s[i].body # Blank

SectionNameError(s, i) ==
  \/ Normal[s[i].name] \notin ValidNames
  \/ \E j \in DOMAIN s \ {i} : Tag[s[j].name] = Tag[s[i].name]

NameErrors(s) == \E i \in DOMAIN s : SectionNameError(s, i)

TooLong(s) == \E i \in DOMAIN s : s[i].body \in LongBodies

DirtyWith(p, s) ==
  IF p # None THEN ToFields(s) # p.text ELSE HasContent(s)

dirty == DirtyWith(prompt, sections)

DraftKey == IF phase = "new" THEN "new" ELSE "saved"

(* Mistake: what is unsaved is kept only along with remembered values. *)
MutPersisted(p, s, rem, vals) ==
  IF ~DirtyWith(p, s) \/ ~(rem /\ vals)
  THEN None
  ELSE [base |-> IF p = None THEN None ELSE p.text, sections |-> ToFields(s),
        remember |-> rem, values |-> rem /\ vals]

(* useDraftPersistence: what is stored under the draft key after a render. *)
Persisted(p, s, rem, vals) ==
  IF ~DirtyWith(p, s) /\ ~(rem /\ vals)
  THEN None
  ELSE [base |-> IF p = None THEN None ELSE p.text, sections |-> ToFields(s),
        remember |-> rem, values |-> rem /\ vals]

SaveDraft ==
  drafts' = [drafts EXCEPT ![DraftKey] = Persisted(prompt', sections', remember', values')]

TypeOK ==
  /\ row \in Row \cup {None}
  /\ stored \in Seq(Texts)
  /\ drafts \in [{"new", "saved"} -> Draft \cup {None}]
  /\ phase \in {"new", "loading", "ready", "failed"}
  /\ prompt \in Row \cup {None}
  /\ versions \in 0..Len(stored)
  /\ sections \in Texts
  /\ {values, remember, restored, dialog, conflict, disturbed} \subseteq BOOLEAN
  /\ panel \in {"none", "history", "refine"}
  /\ saving \in {"no", "create", "patch", "versions"}
  /\ latest \in Row \cup {None}
  /\ flight \in Tasks \cup {None} /\ queue \in Seq(Tasks)
  /\ gets \in [GetKinds -> [status : {"idle", "wait", "ok", "error"}, row : Row \cup {None}]]
  /\ seen \subseteq Texts /\ blind \subseteq Texts
  /\ steps \in 0..MaxSteps

-----------------------------------------------------------------------------
(* Opening the page *)

(* A draft brings its inputs back, and goes on remembering them. *)
RestoreInputs(draft, remembers) ==
  /\ values' = (draft # None /\ draft.values)
  /\ remember' = (remembers \/ (draft # None /\ draft.remember))

(* A new prompt picks up the unsaved one, and otherwise starts empty. *)
HydrateNew ==
  LET draft == drafts["new"] IN
  /\ phase' = "new"
  /\ sections' = IF draft = None THEN BlankSections ELSE draft.sections
  /\ RestoreInputs(draft, FALSE)
  /\ restored' = (draft # None)
  /\ prompt' = None

StartLoading ==
  /\ phase' = "loading"
  /\ sections' = BlankSections
  /\ remember' = TRUE /\ values' = FALSE /\ restored' = FALSE
  /\ prompt' = None

(* What a freshly mounted page has not kept from its last life. *)
Remount(g) ==
  /\ versions' = 0 /\ panel' = "none" /\ dialog' = FALSE /\ saving' = "no"
  /\ conflict' = FALSE /\ latest' = None
  /\ flight' = None /\ queue' = <<>>
  /\ gets' = [k \in GetKinds |-> IF k = "load" THEN g ELSE Idle]

Waiting == [status |-> "wait", row |-> None]

Init ==
  /\ row \in {None} \cup {[text |-> t, stamp |-> 0, by |-> "other"] : t \in OthersTexts}
  /\ stored = <<>>
  /\ drafts = [k \in {"new", "saved"} |-> None]
  /\ phase = IF row = None THEN "new" ELSE "loading"
  /\ prompt = None /\ versions = 0
  /\ sections = BlankSections /\ values = FALSE /\ remember = (row # None)
  /\ restored = FALSE /\ panel = "none" /\ dialog = FALSE /\ saving = "no"
  /\ conflict = FALSE /\ latest = None
  /\ flight = None /\ queue = <<>>
  /\ gets = [k \in GetKinds |-> IF k = "load" /\ row # None THEN Waiting ELSE Idle]
  /\ steps = 0 /\ seen = {} /\ blind = {} /\ disturbed = FALSE /\ crashed = None

Input == steps < MaxSteps /\ steps' = steps + 1

Editing == phase \in {"new", "ready"} /\ ~dialog

(* Mistake: a draft is taken up whatever text it was made against. *)
MutDraftIsCurrent(draft, got) == draft # None

(* A draft is taken up if it was made against the text just loaded. *)
DraftIsCurrent(draft, got) == draft # None /\ draft.base = got.text

Load ==
  LET draft == drafts["saved"]
      got == gets["load"].row
      current == DraftIsCurrent(draft, got)
  IN
  /\ phase = "loading" /\ gets["load"].status = "ok"
  /\ phase' = "ready"
  /\ prompt' = got /\ versions' \in 0..Len(stored)
  /\ sections' = IF current THEN draft.sections ELSE got.text
  /\ RestoreInputs(IF current THEN draft ELSE None, TRUE)
  /\ restored' = (current /\ draft.sections # got.text)
  /\ gets' = [gets EXCEPT !["load"] = Idle]
  /\ drafts' = [drafts EXCEPT !["saved"] = Persisted(got, sections', TRUE, values')]
  /\ seen' = IF current THEN seen ELSE seen \cup {got.text}
  /\ crashed' = None
  /\ UNCHANGED <<server, panel, dialog, saving, clash, flight, queue, steps, blind, disturbed>>

LoadFails ==
  /\ phase = "loading" /\ gets["load"].status = "error"
  /\ phase' = "failed"
  /\ gets' = [gets EXCEPT !["load"] = Idle]
  /\ UNCHANGED <<server, drafts, prompt, versions, restored, panel, dialog, work, saving, clash,
                 flight, queue, steps, ghosts>>

Reload ==
  /\ Input
  /\ crashed' = IF phase \in {"new", "ready"} /\ dirty
                THEN [base |-> IF prompt = None THEN None ELSE prompt.text,
                      sections |-> ToFields(sections)]
                ELSE IF phase \in {"new", "ready"} THEN None ELSE crashed
  /\ IF phase = "new"
     THEN HydrateNew /\ Remount(Idle)
     ELSE StartLoading /\ Remount(Waiting)
  /\ UNCHANGED <<server, drafts, seen, blind, disturbed>>

-----------------------------------------------------------------------------
(* Editing *)

Edited ==
  /\ UNCHANGED <<server, phase, prompt, versions, restored, panel, dialog, saving, clash, calls,
                 ghosts>>
  /\ SaveDraft

UpdateSection(i, s) ==
  /\ Input /\ Editing /\ panel # "refine"
  /\ i \in DOMAIN sections /\ s # sections[i]
  /\ sections' = [sections EXCEPT ![i] = s]
  /\ UNCHANGED <<values, remember>>
  /\ Edited

MoveSection(i) ==
  /\ Input /\ Editing /\ panel # "refine"
  /\ {i, i + 1} \subseteq DOMAIN sections
  /\ sections' = [sections EXCEPT ![i] = sections[i + 1], ![i + 1] = sections[i]]
  /\ UNCHANGED <<values, remember>>
  /\ Edited

SetValues(filled) ==
  /\ Input /\ Editing /\ panel # "refine"
  /\ values' = filled /\ values # filled
  /\ UNCHANGED <<sections, remember>>
  /\ Edited

(* discardEdits: back to base; values of variables it lacks are dropped. *)
DiscardTo(base) ==
  /\ sections' = IF base = None THEN BlankSections ELSE base.text
  /\ values' \in {values, FALSE}
  /\ restored' = FALSE /\ conflict' = FALSE
  /\ drafts' = [drafts EXCEPT ![DraftKey] = Persisted(base, sections', remember, values')]

DiscardEnabled ==
  IF prompt # None /\ dirty THEN panel # "refine" ELSE restored

Discard ==
  /\ Input /\ Editing /\ DiscardEnabled
  /\ DiscardTo(prompt)
  /\ UNCHANGED <<server, phase, prompt, versions, panel, dialog, remember, saving, latest, calls,
                 ghosts>>

RefineEnabled == saving = "no" /\ HasContent(sections) /\ ~NameErrors(sections)

(* Closing the history panel forgets that it waits for a restore. *)
Unwatched(task) == [task EXCEPT !.here = FALSE]
ClosePanel ==
  /\ flight' = IF flight = None THEN None ELSE Unwatched(flight)
  /\ queue' = [i \in DOMAIN queue |-> Unwatched(queue[i])]

ToggleRefine ==
  /\ Input /\ Editing /\ RefineEnabled
  /\ panel' = IF panel = "refine" THEN "none" ELSE "refine"
  /\ ClosePanel
  /\ UNCHANGED <<server, drafts, phase, prompt, versions, restored, dialog, work, saving, clash,
                 gets, ghosts>>

ToggleHistory ==
  /\ Input /\ phase = "ready"
  /\ panel' = IF panel = "history" THEN "none" ELSE "history"
  /\ ClosePanel
  /\ UNCHANGED <<server, drafts, phase, prompt, versions, restored, dialog, work, saving, clash,
                 gets, ghosts>>

-----------------------------------------------------------------------------
(* Mutations: one at a time, each stamped with what the last one returned *)

(* Mistake: the stamp is the one known when the change was queued. *)
MutSend(task, p) == [task EXCEPT !.stamp = prompt.stamp, !.status = "wait"]

Send(task, p) == [task EXCEPT !.stamp = p.stamp, !.status = "wait"]

Task(kind, fields, version) ==
  [kind |-> kind, fields |-> fields, version |-> version, here |-> kind = "restore",
   stamp |-> 0, status |-> "queued", row |-> None]

Enqueue(task) ==
  IF flight = None
  THEN flight' = Send(task, prompt) /\ UNCHANGED queue
  ELSE queue' = Append(queue, task) /\ UNCHANGED flight

(* The task behind the one that settled goes out with what is known by then. *)
Dequeue ==
  IF queue = <<>>
  THEN flight' = None /\ UNCHANGED queue
  ELSE flight' = Send(Head(queue), prompt') /\ queue' = Tail(queue)

SaveEnabled ==
  saving = "no" /\ panel # "refine" /\ HasContent(sections) /\ (prompt # None => dirty)

(* Ctrl+S asks nothing of the button. *)
SaveShortcut == ~dialog

Save ==
  /\ Input /\ Editing
  /\ SaveEnabled \/ SaveShortcut
  /\ saving = "no" /\ panel # "refine"
  /\ ~NameErrors(sections) /\ ~TooLong(sections)
  /\ \/ phase = "new" /\ dialog' = TRUE /\ UNCHANGED <<saving, flight, queue, seen>>
     \/ /\ phase = "ready" /\ dirty
        /\ saving' = "patch"
        /\ Enqueue(Task("save", ToFields(sections), 0))
        /\ seen' = seen \cup {ToFields(sections)}
        /\ UNCHANGED dialog
  /\ UNCHANGED <<server, drafts, phase, prompt, versions, restored, panel, work, clash, gets,
                 blind, disturbed, crashed>>

CloseDialog ==
  /\ Input /\ dialog /\ saving = "no"
  /\ dialog' = FALSE
  /\ UNCHANGED <<server, drafts, phase, prompt, versions, restored, panel, work, saving, clash,
                 calls, ghosts>>

CreatePrompt ==
  /\ Input /\ dialog /\ saving = "no" /\ ~TooLong(sections)
  /\ saving' = "create"
  /\ flight' = [Task("create", ToFields(sections), 0) EXCEPT !.status = "wait"]
  /\ seen' = seen \cup {ToFields(sections)}
  /\ UNCHANGED <<server, drafts, view, work, clash, queue, gets, blind, disturbed, crashed>>

Details ==
  /\ Input /\ phase = "ready"
  /\ Enqueue(Task("meta", <<>>, 0))
  /\ UNCHANGED <<server, drafts, view, work, saving, clash, gets, ghosts>>

RenameOffered == prompt # None
MoveOffered == prompt # None

Rename == RenameOffered /\ Details
MarkKnownGood == panel = "history" /\ Details
MoveToFolder == MoveOffered /\ Details

Restoring == \E t \in {flight} \cup {queue[i] : i \in DOMAIN queue} : t # None /\ t.here

RestoreEnabled(v) ==
  /\ panel = "history" /\ v \in 1..versions
  /\ ~dirty /\ ~Restoring /\ stored[v] # prompt.text

Restore(v) ==
  /\ Input /\ phase = "ready" /\ RestoreEnabled(v)
  /\ Enqueue(Task("restore", <<>>, v))
  /\ UNCHANGED <<server, drafts, view, work, saving, clash, gets, ghosts>>

-----------------------------------------------------------------------------
(* The server, and the others who write to the prompt *)

Handling(kind) == flight # None /\ flight.status = "wait" /\ flight.kind = kind

Answered(status) == flight' = [flight EXCEPT !.status = status, !.row = row']

Write(text, who) == row' = [text |-> text, stamp |-> row.stamp + 1, by |-> who]

Handled ==
  UNCHANGED <<drafts, view, work, saving, clash, queue, gets, steps, ghosts>>

(* A creation repeated after a lost answer makes another prompt, which the *)
(* tab opens; the first one is not followed further.                       *)
ServerCreate ==
  /\ Handling("create")
  /\ row' = [text |-> flight.fields, stamp |-> 0, by |-> "own"]
  /\ stored' = <<>>
  /\ Answered("ok") /\ Handled

(* update_prompt: the stamp is compared, what is replaced goes to history. *)
ServerUpdate ==
  /\ Handling("save") \/ Handling("meta")
  /\ IF flight.stamp # row.stamp
     THEN UNCHANGED server /\ Answered("conflict")
     ELSE /\ IF flight.kind = "meta" THEN Write(row.text, row.by) ELSE Write(flight.fields, "own")
          /\ stored' = IF row'.text = row.text THEN stored ELSE Append(stored, row.text)
          /\ Answered("ok")
  /\ Handled

(* A restore carries no stamp. *)
ServerRestore ==
  /\ Handling("restore")
  /\ Write(stored[flight.version], "restore")
  /\ stored' = Append(stored, row.text)
  /\ Answered("ok") /\ Handled

(* The request fails, or it was handled and its answer is lost. *)
ServerFail ==
  /\ flight # None /\ flight.status \in {"wait", "ok"}
  /\ flight' = [flight EXCEPT !.status = "error"]
  /\ disturbed' = (disturbed \/ flight.status = "ok")
  /\ UNCHANGED <<server, drafts, view, work, saving, clash, queue, gets, steps, seen, blind, crashed>>

ServerRead(k) ==
  /\ gets[k].status = "wait"
  /\ gets' = [gets EXCEPT ![k] = [status |-> "ok", row |-> row]]
  /\ UNCHANGED <<server, drafts, view, work, saving, clash, flight, queue, steps, ghosts>>

ReadFails(k) ==
  /\ gets[k].status = "wait"
  /\ gets' = [gets EXCEPT ![k].status = "error"]
  /\ UNCHANGED <<server, drafts, view, work, saving, clash, flight, queue, steps, ghosts>>

(* Another tab, another device or the plugin saves, or changes details only. *)
ForeignSave(text) ==
  /\ Input /\ row # None /\ phase # "new"
  /\ Write(text, IF text = row.text THEN row.by ELSE "other")
  /\ stored' = IF text = row.text THEN stored ELSE Append(stored, row.text)
  /\ disturbed' = TRUE
  /\ UNCHANGED <<drafts, view, work, saving, clash, calls, seen, blind, crashed>>

-----------------------------------------------------------------------------
(* Answers reach the page *)

Arrived(kind, status) == flight # None /\ flight.kind = kind /\ flight.status = status

ApplyPrompt == prompt' = flight.row

(* The created prompt's page opens with the inputs filled in so far. *)
CreateAnswer ==
  /\ Arrived("create", "ok")
  /\ drafts' = [drafts EXCEPT
       !["new"] = None,
       !["saved"] = IF remember \/ values
                    THEN [base |-> flight.row.text, sections |-> flight.row.text,
                          remember |-> TRUE, values |-> values]
                    ELSE drafts["saved"]]
  /\ StartLoading /\ Remount(Waiting)
  /\ crashed' = None
  /\ UNCHANGED <<server, steps, seen, blind, disturbed>>

CreateFails ==
  /\ Arrived("create", "error")
  /\ saving' = "no" /\ flight' = None
  /\ UNCHANGED <<server, drafts, view, work, clash, queue, gets, steps, ghosts>>

(* The editor takes the names as stored, by position. *)
AdoptNames(s, t) ==
  [i \in DOMAIN s |-> IF i \in DOMAIN t THEN [s[i] EXCEPT !.name = t[i].name] ELSE s[i]]

SaveAnswer ==
  /\ Arrived("save", "ok")
  /\ ApplyPrompt
  /\ sections' = AdoptNames(sections, flight.row.text)
  /\ restored' = FALSE /\ conflict' = FALSE
  /\ saving' = "versions"
  /\ UNCHANGED <<values, remember>>
  /\ SaveDraft /\ Dequeue
  /\ UNCHANGED <<server, phase, versions, panel, dialog, latest, gets, steps, ghosts>>

(* The version list is read after the save; it may fail. *)

VersionsAnswer ==
  /\ saving = "versions"
  /\ saving' = "no"
  /\ versions' \in versions..Len(stored)
  /\ UNCHANGED <<server, drafts, phase, prompt, restored, panel, dialog, work, clash, calls, steps, ghosts>>

(* reportError: a 409 opens the conflict banner anew, the rest is a notice. *)
ReportError ==
  IF flight.status = "conflict"
  THEN conflict' = TRUE /\ latest' = None
  ELSE UNCHANGED clash

(* Mistake: a refused save leaves Saving... on. *)
MutMutationFails ==
  /\ flight # None /\ flight.kind # "create" /\ flight.status \in {"conflict", "error"}
  /\ ReportError
  /\ UNCHANGED <<saving, prompt>> /\ Dequeue
  /\ UNCHANGED <<server, drafts, phase, versions, restored, panel, dialog, work, gets, steps, ghosts>>

MutationFails ==
  /\ flight # None /\ flight.kind # "create" /\ flight.status \in {"conflict", "error"}
  /\ ReportError
  /\ saving' = IF flight.kind = "save" THEN "no" ELSE saving
  /\ UNCHANGED prompt /\ Dequeue
  /\ UNCHANGED <<server, drafts, phase, versions, restored, panel, dialog, work, gets, steps, ghosts>>

MetaAnswer ==
  /\ Arrived("meta", "ok")
  /\ ApplyPrompt
  /\ UNCHANGED work
  /\ SaveDraft /\ Dequeue
  /\ UNCHANGED <<server, phase, versions, restored, panel, dialog, saving, clash, gets, steps, ghosts>>

RestoreAnswer ==
  /\ Arrived("restore", "ok")
  /\ ApplyPrompt
  /\ sections' = flight.row.text
  /\ UNCHANGED <<values, remember>>
  /\ versions' \in versions..Len(stored)
  /\ seen' = seen \cup {flight.row.text}
  /\ SaveDraft /\ Dequeue
  /\ UNCHANGED <<server, phase, restored, panel, dialog, saving, clash, gets, steps, blind, disturbed,
                 crashed>>

-----------------------------------------------------------------------------
(* The conflict banner *)

Fetch(k) ==
  /\ gets[k].status = "idle"
  /\ gets' = [gets EXCEPT ![k] = Waiting]

CompareOffered == conflict /\ latest = None

CompareConflict ==
  /\ CompareOffered
  /\ Fetch("compare")
  /\ UNCHANGED <<server, drafts, view, work, saving, clash, flight, queue, steps, ghosts>>

CompareAnswer ==
  /\ gets["compare"].status = "ok"
  /\ latest' = gets["compare"].row
  /\ gets' = [gets EXCEPT !["compare"] = Idle]
  /\ seen' = seen \cup {latest'.text}
  /\ UNCHANGED <<server, drafts, view, work, saving, conflict, flight, queue, steps, blind, disturbed,
                 crashed>>

(* The saved version becomes the base of the edits that are kept. *)
Rebase(p) ==
  /\ prompt' = p
  /\ conflict' = FALSE
  /\ versions' \in versions..Len(stored)
  /\ UNCHANGED work
  /\ SaveDraft

(* After Compare, keeping replaces only what was compared. *)
KeepCompared ==
  /\ conflict /\ latest # None
  /\ Rebase(latest)
  /\ UNCHANGED <<server, phase, restored, panel, dialog, saving, latest, calls, steps, ghosts>>

KeepUnseen ==
  /\ conflict /\ latest = None
  /\ Fetch("keep")
  /\ UNCHANGED <<server, drafts, view, work, saving, clash, flight, queue, steps, ghosts>>

KeepAnswer ==
  /\ gets["keep"].status = "ok"
  /\ Rebase(gets["keep"].row)
  /\ gets' = [gets EXCEPT !["keep"] = Idle]
  /\ blind' = blind \cup {prompt'.text}
  /\ UNCHANGED <<server, phase, restored, panel, dialog, saving, latest, flight, queue, steps, seen,
                 disturbed, crashed>>

TakeSavedVersion ==
  /\ conflict
  /\ Fetch("take")
  /\ UNCHANGED <<server, drafts, view, work, saving, clash, flight, queue, steps, ghosts>>

TakeAnswer ==
  /\ gets["take"].status = "ok"
  /\ prompt' = gets["take"].row
  /\ DiscardTo(prompt')
  /\ gets' = [gets EXCEPT !["take"] = Idle]
  /\ versions' \in versions..Len(stored)
  /\ seen' = seen \cup {prompt'.text}
  /\ UNCHANGED <<server, phase, panel, dialog, remember, saving, latest, flight, queue, steps, blind,
                 disturbed, crashed>>

ConflictReadFails(k) ==
  /\ k # "load" /\ gets[k].status = "error"
  /\ gets' = [gets EXCEPT ![k] = Idle]
  /\ UNCHANGED <<server, drafts, view, work, saving, clash, flight, queue, steps, ghosts>>

-----------------------------------------------------------------------------
Server == ServerCreate \/ ServerUpdate \/ ServerRestore \/ ServerFail

ServerReads == \E k \in GetKinds : ServerRead(k) \/ ReadFails(k)

Answer ==
  \/ CreateAnswer \/ CreateFails \/ SaveAnswer \/ MutationFails \/ MetaAnswer \/ RestoreAnswer

ReadAnswer ==
  \/ Load \/ LoadFails \/ CompareAnswer \/ KeepAnswer \/ TakeAnswer
  \/ \E k \in GetKinds : ConflictReadFails(k)

User ==
  \/ Reload
  \/ \E i \in 1..MaxSections : MoveSection(i) \/ \E s \in Edits : UpdateSection(i, s)
  \/ \E filled \in BOOLEAN : SetValues(filled)
  \/ Discard \/ ToggleRefine \/ ToggleHistory
  \/ Save \/ CloseDialog \/ CreatePrompt
  \/ Rename \/ MarkKnownGood \/ MoveToFolder
  \/ \E v \in 1..Len(stored) : Restore(v)
  \/ CompareConflict \/ KeepCompared \/ KeepUnseen \/ TakeSavedVersion

Others == row # None /\ \E t \in OthersTexts \cup {row.text} : ForeignSave(t)

Next == Server \/ ServerReads \/ Answer \/ VersionsAnswer \/ ReadAnswer \/ User \/ Others

(* Requests settle, with an answer or an error, and their handlers run. *)
Spec ==
  /\ Init /\ [][Next]_vars
  /\ WF_vars(Server) /\ WF_vars(Answer) /\ WF_vars(VersionsAnswer)
  /\ WF_vars(ServerReads) /\ WF_vars(ReadAnswer)

-----------------------------------------------------------------------------
Shared == INSTANCE SharedPrompt WITH
  text <- IF row = None THEN None ELSE row.text,
  by <- IF row = None THEN "other" ELSE row.by,
  known <- seen \cup blind

(* The editor's saves replace only a text its user saw in the editor, wrote *)
(* there or accepted to replace with Keep my edits; whatever interleaves:   *)
(* others' saves, recovered drafts, late answers, queued mutations.         *)
OverwritesOnlyKnown == Shared!Spec

(* The tab never conflicts with itself: while nobody else writes and no     *)
(* answer is lost, saves, renames, moves and restores queued behind one     *)
(* another never meet a 409 (patch reads promptRef when its turn comes).    *)
NoSelfConflict == conflict => disturbed

(* Both hold in every state. *)
EditorInvariant == TypeOK /\ NoSelfConflict

(* A page that goes away with unsaved edits shows them again when it comes  *)
(* back, unless the stored text they were based on was replaced meanwhile.  *)
RecoversEdits ==
  [][/\ Load /\ crashed # None /\ crashed.base = prompt'.text
          => ToFields(sections') = crashed.sections
     /\ Reload /\ phase = "new" /\ dirty => ToFields(sections') = ToFields(sections)]_vars

(* Every save ends: Saving... gives way whether the request is answered,    *)
(* refused or lost, and whether or not the version list can be read.        *)
SaveEnds == saving # "no" ~> saving = "no"

(* "A restore ... is unavailable while there are unsaved edits"             *)
(* (docs/saved-prompts.md): its answer would replace them.                  *)
RestoreSparesEdits == [][RestoreAnswer => ~dirty]_vars

=============================================================================
