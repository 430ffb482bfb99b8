---------------------------- MODULE ImportDialog ----------------------------
(***************************************************************************)
(* "Add existing prompts" (ImportPrompts.tsx): notes are pasted, chosen or *)
(* dropped, reviewed in a preview, and sent one request at a time; what    *)
(* failed stays for a retry.  Other devices edit the library meanwhile.    *)
(* Of a text the model keeps its wording, its first line, the spelling of  *)
(* its placeholder and whether it fits a section; folders are left out.    *)
(***************************************************************************)
EXTENDS Integers, Sequences, FiniteSets

CONSTANTS
  Sources,      \* what may be pasted or read
  Parsed,       \* Parsed[s][original]: the prompts a source holds, tidied or as written
  Notes,        \* those of the sources that are notes, not JSON or CSV
  Titles,       \* the titles typed in the preview
  Library,      \* the prompts stored at first, by id 1, 2, ...; stamp 0 if never edited
  Bodies,       \* texts other devices write
  MaxSteps,     \* bound: what the user does
  MaxFaults,    \* bound: edits elsewhere and requests that fail
  None

VARIABLES
  ui,           \* the dialog's own state
  imported,     \* what the import wrote since the dialog was opened
  sessionPrompts, \* what it wrote since the page was opened
  existing,     \* the library as the page shows it
  server,       \* the prompts stored
  walks,        \* dropped folders being listed
  reads,        \* files being read
  job,          \* importPrompts under way
  overtaken,    \* history: a drop was read while a preview or an import was under way
  steps, faults

vars == <<ui, imported, sessionPrompts, existing, server, walks, reads, job, overtaken, steps, faults>>
dialog == <<imported, sessionPrompts, existing>>
files == <<walks, reads, overtaken>>

Input == steps < MaxSteps /\ steps' = steps + 1
Fault == faults < MaxFaults /\ faults' = faults + 1

-----------------------------------------------------------------------------
(* Prompts *)

TooLong(text) == ~text.cut /\ (text.size = "long" \/ (text.size = "edge" /\ text.place = "var"))

ImportProblem(prompt) ==
  IF prompt.name = "" THEN "title" ELSE IF TooLong(prompt.text) THEN "section" ELSE None

ConvertPlaceholders(prompt) ==
  IF prompt.text.place = "raw" THEN [prompt EXCEPT !.text.place = "var"] ELSE prompt

(* Placeholders the library prompt already has as inputs are converted again. *)
ReapplyConversions(prompt, current) ==
  IF current.text.place = "var" THEN ConvertPlaceholders(prompt) ELSE prompt

SplitLongSections(prompt) ==
  IF TooLong(prompt.text) THEN [prompt EXCEPT !.text.cut = TRUE] ELSE prompt

WithoutTitleLine(prompt) ==
  IF prompt.text.cut \/ prompt.text.head # prompt.name \/ prompt.text.head = None
  THEN None ELSE [prompt EXCEPT !.text.head = None]

ValidateImportPrompts(prompts) == [i \in DOMAIN prompts |-> [prompts[i] EXCEPT !.flag = FALSE]]

-----------------------------------------------------------------------------
(* What the preview means: prompts of the library by title, and the choices. *)

(* Prompts by id, those of `new' in place of those of `old'. *)
Over(new, old) == [id \in DOMAIN new \cup DOMAIN old |-> IF id \in DOMAIN new THEN new[id] ELSE old[id]]

One(id, row) == [i \in {id} |-> row]

ByTitle == Over(sessionPrompts, existing)

Matches(prompt) == {id \in DOMAIN ByTitle : ByTitle[id].name = prompt.name}

IsDuplicate(prompt) == Matches(prompt) # {}

IsChanged(prompt) ==
  /\ IsDuplicate(prompt)
  /\ \A id \in Matches(prompt) :
       ByTitle[id].text \notin {prompt.text, ReapplyConversions(prompt, ByTitle[id]).text}

UpdateTarget(prompt) ==
  IF Cardinality(Matches(prompt)) = 1 THEN CHOOSE id \in Matches(prompt) : TRUE ELSE None

StartsUnticked(prompt) == IsDuplicate(prompt) \/ prompt.flag

Ticked(prompt, i) == StartsUnticked(prompt) = (i \in ui.toggled)

Updatable(prompt, i) == i \in ui.updating /\ IsChanged(prompt) /\ UpdateTarget(prompt) # None

WillSend(prompt, i) ==
  IF Updatable(prompt, i) THEN ReapplyConversions(prompt, ByTitle[UpdateTarget(prompt)]) ELSE prompt

Updates(prompt, i) == Updatable(prompt, i) /\ ImportProblem(WillSend(prompt, i)) = None

Included(prompt, i) == Ticked(prompt, i) /\ i \notin ui.updating /\ ImportProblem(prompt) = None

Rows == IF ui.preview = None THEN {} ELSE DOMAIN ui.preview

(* Rows of the preview, in order. *)
InOrder(rows) == [k \in 1..Cardinality(rows) |-> CHOOSE i \in rows : Cardinality({j \in rows : j < i}) = k - 1]

NewRows == InOrder({i \in Rows : Included(ui.preview[i], i)})

UpdatedRows == InOrder({i \in Rows : Updates(ui.preview[i], i)})

PromptsAt(rows) == [k \in DOMAIN rows |-> ui.preview[rows[k]]]

Placeholders ==
  \E i \in Rows : /\ Ticked(ui.preview[i], i) \/ Updates(ui.preview[i], i)
                  /\ WillSend(ui.preview[i], i).text.place = "raw"

FromNote == ui.source \in Notes

-----------------------------------------------------------------------------
(* Opening, closing and filling the dialog *)

Closed ==
  [open |-> FALSE, busy |-> FALSE, resumed |-> FALSE, source |-> None, file |-> FALSE, original |-> FALSE,
   preview |-> None, toggled |-> {}, updating |-> {}, before |-> None, unchosen |-> FALSE, done |-> 0]

Idle == [state |-> "idle", create |-> <<>>, update |-> <<>>, saved |-> None, created |-> <<>>, failed |-> <<>>,
         answered |-> {}, chosen |-> <<>>]

Init ==
  /\ ui = Closed
  /\ imported = <<>> /\ sessionPrompts = <<>>
  /\ existing = Library /\ server = Library
  /\ walks = {} /\ reads = {} /\ overtaken = FALSE
  /\ job = Idle
  /\ steps = 0 /\ faults = 0

Open ==
  /\ Input /\ ~ui.open
  /\ ui' = [ui EXCEPT !.open = TRUE, !.resumed = ui.preview # None]
  /\ UNCHANGED <<dialog, files, server, job, faults>>

MayClose == ui.open /\ ~ui.busy

AddImported == Over(imported, existing)

HandOver == /\ existing' = AddImported /\ imported' = <<>>

Close ==
  /\ Input /\ MayClose
  /\ ui' = [ui EXCEPT !.open = FALSE, !.done = 0]
  /\ HandOver
  /\ UNCHANGED <<sessionPrompts, files, server, job, faults>>

UpdateSource(state, source) == [state EXCEPT !.source = source, !.preview = None]

AtSource == ui.open /\ ui.preview = None /\ ui.done = 0

Paste(source) ==
  /\ Input /\ AtSource /\ ~ui.busy /\ ~ui.file
  /\ ui' = UpdateSource(ui, source)
  /\ UNCHANGED <<dialog, files, server, job, faults>>

ClearFiles ==
  /\ Input /\ AtSource /\ ui.file /\ ~ui.busy
  /\ ui' = [ui EXCEPT !.source = None, !.file = FALSE]
  /\ UNCHANGED <<dialog, files, server, job, faults>>

Drop(source) ==
  /\ Input /\ AtSource
  /\ walks' = walks \cup {source}
  /\ UNCHANGED <<ui, dialog, reads, overtaken, server, job, faults>>

(* readFiles up to its first wait; a selection without notes stops here. *)
StartsReading(source) ==
  /\ ui' = [UpdateSource(ui, None) EXCEPT !.file = FALSE, !.busy = (source # None \/ ui.busy)]
  /\ reads' = IF source = None THEN reads ELSE reads \cup {source}
  /\ overtaken' = (overtaken \/ ui.preview # None \/ job.state # "idle" \/ reads # {})

ChooseFiles(source) ==
  /\ Input /\ AtSource /\ ~ui.busy
  /\ StartsReading(source)
  /\ UNCHANGED <<walks, dialog, server, job, faults>>

DropListed(source) ==
  /\ source \in walks
  /\ walks' = walks \ {source}
  /\ StartsReading(source)
  /\ UNCHANGED <<dialog, server, job, steps, faults>>

(* Files may be unreadable; several are listed, one goes into the paste box. *)
FilesRead(source, ok, several) ==
  /\ source \in reads
  /\ IF ok THEN UNCHANGED faults ELSE Fault /\ ~several
  /\ reads' = reads \ {source}
  /\ ui' = [(IF ~ok THEN ui ELSE IF several THEN [ui EXCEPT !.source = source, !.file = TRUE]
             ELSE UpdateSource(ui, source)) EXCEPT !.busy = FALSE]
  /\ UNCHANGED <<walks, overtaken, dialog, server, job, steps>>

(* showPreview: a source without prompts leaves the preview as it was. *)
Preview(original) ==
  IF Parsed[ui.source][original] = <<>> THEN ui
  ELSE [ui EXCEPT !.preview = Parsed[ui.source][original], !.before = None, !.unchosen = FALSE,
                  !.toggled = {}, !.updating = {}]

ShowPreview ==
  /\ Input /\ AtSource /\ ~ui.busy /\ ui.source # None
  /\ ui' = Preview(ui.original)
  /\ UNCHANGED <<dialog, files, server, job, faults>>

-----------------------------------------------------------------------------
(* Reviewing the preview *)

Reviewing == ui.open /\ ui.preview # None /\ ~ui.busy

KeepOriginal ==
  /\ FromNote /\ Parsed[ui.source][TRUE] # Parsed[ui.source][FALSE]
  /\ ui' = [Preview(~ui.original) EXCEPT !.original = ~ui.original]

StartOver == ui.resumed /\ ui' = [Closed EXCEPT !.open = TRUE, !.done = ui.done]

Back == ui' = [ui EXCEPT !.preview = None, !.before = None]

Edit(i, change) == ui' = [ui EXCEPT !.preview[i] = change]

EditTitle(i, title) == Edit(i, [ui.preview[i] EXCEPT !.name = title])

TakeOutTitle(i) == WithoutTitleLine(ui.preview[i]) # None /\ Edit(i, WithoutTitleLine(ui.preview[i]))

SplitSection(i) ==
  LET sent == WillSend(ui.preview[i], i)
  IN  ImportProblem(sent) = "section" /\ Edit(i, SplitLongSections(sent))

Flip(set, i) == IF i \in set THEN set \ {i} ELSE set \cup {i}

Toggle(i) == ~IsChanged(ui.preview[i]) /\ ui' = [ui EXCEPT !.toggled = Flip(@, i)]

(* Leave it as it is, update it, or import a copy. *)
ChooseDuplicate(i, choice) ==
  /\ IsChanged(ui.preview[i])
  /\ choice = "update" => UpdateTarget(ui.preview[i]) # None
  /\ ui' = [ui EXCEPT !.updating = IF choice = "update" THEN @ \cup {i} ELSE @ \ {i},
                      !.toggled = IF choice = "copy" THEN @ \cup {i} ELSE @ \ {i}]

SelectAllNew == Cardinality(Rows) > 1 /\ ui' = [ui EXCEPT !.toggled = {}]

SelectNone ==
  Cardinality(Rows) > 1 /\ ui' = [ui EXCEPT !.toggled = {i \in Rows : ~StartsUnticked(ui.preview[i])}]

UnchoosePlaceholder == Placeholders /\ ui.before = None /\ ui' = [ui EXCEPT !.unchosen = ~@]

Convert ==
  /\ Placeholders /\ ui.before = None /\ ~ui.unchosen
  /\ ui' = [ui EXCEPT !.before = ui.preview, !.preview = [i \in Rows |-> ConvertPlaceholders(ui.preview[i])]]

UndoConvert ==
  /\ ui.before # None
  /\ ui' = [ui EXCEPT !.preview = [i \in Rows |-> [ui.preview[i] EXCEPT !.text = ui.before[i].text]],
                      !.before = None]

Review ==
  /\ Input /\ Reviewing
  /\ \/ KeepOriginal \/ StartOver \/ Back
     \/ SelectAllNew \/ SelectNone
     \/ UnchoosePlaceholder \/ Convert \/ UndoConvert
     \/ \E i \in Rows :
          \/ \E title \in Titles : EditTitle(i, title)
          \/ TakeOutTitle(i) \/ SplitSection(i) \/ Toggle(i)
          \/ \E choice \in {"skip", "update", "copy"} : ChooseDuplicate(i, choice)
  /\ UNCHANGED <<dialog, files, server, job, faults>>

(* One fresh note may go to the editor's AI conversion: the page is left. *)
ReuseWithAI ==
  /\ Input /\ Reviewing /\ FromNote /\ Cardinality(Rows) = 1
  /\ HandOver
  /\ ui' = Closed /\ sessionPrompts' = <<>>
  /\ UNCHANGED <<files, server, job, faults>>

ImportMore ==
  /\ Input /\ ui.open /\ ui.done > 0
  /\ ui' = [ui EXCEPT !.done = 0]
  /\ UNCHANGED <<dialog, files, server, job, faults>>

(* One imported prompt opens in the editor, several in the library, where the dialog stays. *)
ImportedHref == IF ui.done = 1 THEN "editor" ELSE "library"

OpenImported ==
  /\ Input /\ MayClose /\ ui.done > 0
  /\ HandOver
  /\ IF ImportedHref = "editor" THEN ui' = Closed /\ sessionPrompts' = <<>>
     ELSE ui' = [ui EXCEPT !.open = FALSE, !.done = 0] /\ UNCHANGED sessionPrompts
  /\ UNCHANGED <<files, server, job, faults>>

-----------------------------------------------------------------------------
(* importPrompts: the choices are those of the moment of the click. *)

StartImport ==
  /\ Input /\ Reviewing /\ job.state = "idle"
  /\ NewRows \o UpdatedRows # <<>>
  /\ job' = [Idle EXCEPT !.state = "create",
       !.chosen = ValidateImportPrompts(PromptsAt(NewRows \o UpdatedRows)),
       !.create = ValidateImportPrompts(PromptsAt(NewRows)),
       !.update = LET prompts == ValidateImportPrompts(PromptsAt(UpdatedRows))
                  IN  [k \in DOMAIN prompts |-> [prompt |-> prompts[k], id |-> UpdateTarget(prompts[k]),
                                                 current |-> ByTitle[UpdateTarget(prompts[k])]]]]
  /\ ui' = [ui EXCEPT !.busy = TRUE]
  /\ UNCHANGED <<dialog, files, server, faults>>

Saved(prompt) == [name |-> prompt.name, text |-> prompt.text, stamp |-> 0]
NextId == Cardinality(DOMAIN server) + 1
Position == Len(job.chosen) - Len(job.create) - Len(job.update) + 1

(* The prompt is stored or not; the answer arrives or not. *)
CreateAnswer(stored, arrives) ==
  /\ job.create # <<>> /\ job.saved = None
  /\ IF arrives THEN stored /\ UNCHANGED faults ELSE Fault
  /\ LET prompt == Head(job.create)
         row == One(NextId, Saved(prompt))
         rest == [job EXCEPT !.create = Tail(@), !.answered = IF arrives THEN @ \cup {Position} ELSE @]
     IN  /\ server' = IF stored THEN Over(row, server) ELSE server
         /\ job' = IF ~arrives THEN [rest EXCEPT !.failed = Append(@, prompt)]
                   ELSE IF prompt.fav THEN [rest EXCEPT !.saved = [id |-> NextId, row |-> Saved(prompt), prompt |-> prompt]]
                   ELSE [rest EXCEPT !.created = Over(row, @)]
  /\ UNCHANGED <<ui, dialog, files, steps>>

Edited(row, text) == [row EXCEPT !.text = text, !.stamp = @ + 1]

(* Mistake: a favourite that could not be marked counts as not imported. *)
MutFlagged(row, arrives) ==
  IF arrives THEN [job EXCEPT !.created = Over(One(job.saved.id, row), @), !.saved = None]
  ELSE [job EXCEPT !.failed = Append(@, job.saved.prompt), !.saved = None]

(* A failed favourite flag does not undo a successful import. *)
Flagged(row, arrives) ==
  [job EXCEPT !.created = Over(One(job.saved.id, IF arrives THEN row ELSE job.saved.row), @), !.saved = None]

FavoriteAnswer(stored, arrives) ==
  /\ job.saved # None
  /\ IF arrives THEN stored /\ UNCHANGED faults ELSE Fault
  /\ LET row == Edited(server[job.saved.id], server[job.saved.id].text)
     IN  /\ server' = IF stored THEN [server EXCEPT ![job.saved.id] = row] ELSE server
         /\ job' = Flagged(row, arrives)
  /\ UNCHANGED <<ui, dialog, files, steps>>

(* The server refuses a stamp that is no longer current; a prompt never edited has none to send. *)
Stale(update) == update.current.stamp # 0 /\ update.current.stamp # server[update.id].stamp

UpdateAnswer(stored, arrives) ==
  /\ job.create = <<>> /\ job.saved = None /\ job.update # <<>>
  /\ IF arrives THEN UNCHANGED faults ELSE Fault
  /\ LET update == Head(job.update)
         row == Edited(server[update.id], ReapplyConversions(update.prompt, update.current).text)
         rest == [job EXCEPT !.update = Tail(@), !.answered = IF arrives /\ stored THEN @ \cup {Position} ELSE @]
     IN  /\ IF Stale(update) THEN ~stored ELSE arrives => stored
         /\ server' = IF stored THEN [server EXCEPT ![update.id] = row] ELSE server
         /\ job' = IF arrives /\ stored THEN [rest EXCEPT !.created = Over(One(update.id, row), @)]
                   ELSE [rest EXCEPT !.failed = Append(@, update.prompt)]
  /\ UNCHANGED <<ui, dialog, files, steps>>

(* The dialog once everything was answered: what failed stays for a retry. *)
Imported(failed) ==
  [ui EXCEPT !.preview = IF failed = <<>> THEN None ELSE failed, !.done = IF failed = <<>> THEN Len(job.chosen) ELSE 0,
             !.toggled = {}, !.updating = {}, !.before = None, !.source = None, !.file = FALSE, !.busy = FALSE]

Done == job.state # "idle" /\ job.create = <<>> /\ job.update = <<>> /\ job.saved = None

ImportEnds ==
  /\ Done
  /\ ui' = Imported(job.failed)
  /\ imported' = Over(job.created, imported)
  /\ sessionPrompts' = Over(job.created, sessionPrompts)
  /\ job' = Idle
  /\ UNCHANGED <<existing, files, server, steps, faults>>

-----------------------------------------------------------------------------
(* Another device edits a prompt of the library. *)
ForeignEdit(id, body) ==
  /\ Fault
  /\ server' = [server EXCEPT ![id] = Edited(@, [@.text EXCEPT !.body = body])]
  /\ UNCHANGED <<ui, dialog, files, job, steps>>

Answers ==
  \/ \E stored, arrives \in BOOLEAN :
       CreateAnswer(stored, arrives) \/ FavoriteAnswer(stored, arrives) \/ UpdateAnswer(stored, arrives)
  \/ ImportEnds

FileSteps ==
  \/ \E source \in walks : DropListed(source)
  \/ \E source \in reads, ok, several \in BOOLEAN : FilesRead(source, ok, several)

Next ==
  \/ Open \/ Close \/ ClearFiles \/ ShowPreview \/ Review \/ ReuseWithAI \/ ImportMore \/ OpenImported \/ StartImport
  \/ \E source \in Sources : Paste(source) \/ Drop(source)
  \/ \E source \in Sources \cup {None} : ChooseFiles(source)
  \/ FileSteps \/ Answers
  \/ \E id \in DOMAIN Library, body \in Bodies : ForeignEdit(id, body)

(* Reads and requests end: the browser reports a failure where no answer comes. *)
Spec == Init /\ [][Next]_vars /\ WF_vars(FileSteps) /\ WF_vars(Answers)

-----------------------------------------------------------------------------
(* Properties *)

IsText(text) ==
  /\ DOMAIN text = {"body", "head", "place", "size", "cut"}
  /\ text.place \in {"none", "raw", "var"} /\ text.size \in {"fits", "edge", "long"} /\ text.cut \in BOOLEAN

IsRows(rows) == \A id \in DOMAIN rows : IsText(rows[id].text) /\ rows[id].stamp \in Nat

(* The dialog's lists always belong to the preview shown: the choices point at its rows, and Undo of a
   conversion (lines 368-371) finds the text from before it for every row, and not more. *)
TypeOK ==
  /\ ui.preview # None =>
       /\ \A i \in Rows : IsText(ui.preview[i].text)
       /\ ui.toggled \cup ui.updating \subseteq Rows
       /\ ui.before # None => DOMAIN ui.before = Rows
  /\ IsRows(server) /\ IsRows(existing) /\ IsRows(sessionPrompts) /\ DOMAIN imported \subseteq DOMAIN sessionPrompts
  /\ walks \cup reads \subseteq Sources /\ Len(job.failed) <= Len(job.chosen)

(* Once the dialog is closed the library page shows everything it imported, as last written (lines 77-83);
   a drop read during an import makes the dialog closable too early, which is left out here. *)
HandedOver ==
  ~ui.open /\ ~overtaken => \A id \in DOMAIN sessionPrompts : id \in DOMAIN existing /\ existing[id] = sessionPrompts[id]

(* When an import ends, the preview holds exactly the chosen prompts whose writing was not confirmed
   (lines 212-241): none that was is sent again by a retry, and none is forgotten. *)
KeepsWhatFailed ==
  ImportEnds =>
    LET failed == {job.chosen[k] : k \in DOMAIN job.chosen \ job.answered}
    IN  IF failed = {} THEN ui'.preview = None
        ELSE /\ {ui'.preview[i] : i \in DOMAIN ui'.preview} = failed
             /\ Len(ui'.preview) = Cardinality(DOMAIN job.chosen \ job.answered)
RetriesWhatFailed == [][KeepsWhatFailed]_vars

(* An update from an import replaces only the text the dialog compared the note with, when the library
   prompt had been edited before (lines 220-231). *)
ReplacesWhatItSaw ==
  \A id \in DOMAIN server :
    /\ job.update # <<>> /\ job'.update # job.update /\ id = Head(job.update).id /\ server'[id] # server[id]
    /\ Head(job.update).current.stamp # 0
    => server[id].text = Head(job.update).current.text
UpdateIsSafe == [][ReplacesWhatItSaw]_vars

(* A dialog that reads or imports becomes usable again (lines 184, 257). *)
Busy == ui.busy
BusyEnds == Busy ~> ~Busy

=============================================================================
