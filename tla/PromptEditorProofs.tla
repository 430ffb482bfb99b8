------------------------ MODULE PromptEditorProofs ------------------------
(***************************************************************************)
(* Proofs about PromptEditor: types, that the tab never conflicts with     *)
(* itself, that it implements SharedPrompt, and that unsaved edits are     *)
(* shown again when the page comes back.  They hold for every set of       *)
(* names and bodies, every behaviour of the others and every MaxSteps.     *)
(*                                                                         *)
(* The invariant ties together the copies of the stored row that are       *)
(* under way: a copy that carries the row's stamp carries its text         *)
(* (Past), what the page works on was shown, written or accepted (Pages),  *)
(* and so was the row that a stamped request will replace (FlightOK).      *)
(***************************************************************************)
EXTENDS PromptEditor, TLAPS

Known == seen \cup blind

(* A row heard of earlier: it is the stored one if it carries its stamp. *)
Past(r) == r \in Row /\ r.stamp <= row.stamp /\ (r.stamp = row.stamp => r.text = row.text)

(* A mutation of a prompt that exists. *)
QueuedOK(t) ==
  /\ t.kind \in {"save", "meta", "restore"}
  /\ t.kind = "restore" => t.version \in 1..Len(stored)
  /\ t.kind = "save" => t.fields \in seen

FlightOK(t) ==
  /\ t.status # "queued"
  /\ t.kind = "create" => phase = "new" /\ t.fields \in seen /\ t.status # "conflict"
  /\ t.kind # "create" => phase = "ready" /\ QueuedOK(t)
  /\ t.status = "ok" => Past(t.row) /\ row # None
  /\ t.status = "ok" /\ t.kind # "restore" => t.row.text \in Known
  /\ t.status = "wait" /\ t.kind \in {"save", "meta"} =>
       t.stamp <= row.stamp /\ (t.stamp = row.stamp => row.text \in Known)

Mutations ==
  /\ flight # None => FlightOK(flight)
  /\ \A i \in 1..Len(queue) : QueuedOK(queue[i])
  /\ queue # <<>> => flight # None /\ flight.kind # "create"

Reads ==
  /\ \A k \in GetKinds : gets[k].status = "ok" => Past(gets[k].row)
  /\ \A k \in {"compare", "keep", "take"} : gets[k].status # "idle" => phase = "ready"
  /\ gets["load"].status # "idle" => phase = "loading"

Pages ==
  /\ phase = "new" => prompt = None /\ (row # None => row.text \in seen) /\ versions = 0
  /\ phase # "new" => row # None
  /\ phase = "ready" <=> prompt # None
  /\ prompt # None => Past(prompt) /\ prompt.text \in Known
  /\ latest # None => Past(latest) /\ latest.text \in Known
  /\ conflict \/ latest # None \/ panel = "history" => phase = "ready"
  /\ dialog => phase = "new"
  /\ saving = "versions" => phase = "ready"

(* Names as the server stores them. *)
Normalized(s) == ToFields(s) = s

DraftsKept ==
  /\ drafts["saved"] # None => drafts["saved"].base \in Known
  /\ drafts["new"] # None => Normalized(drafts["new"].sections)
  /\ phase = "new" => drafts["new"] = Persisted(None, sections, remember, values)
  /\ phase = "ready" => drafts["saved"] = Persisted(prompt, sections, remember, values)
  /\ phase = "ready" => crashed = None
  /\ phase \in {"loading", "failed"} /\ crashed # None =>
       /\ drafts["saved"] # None
       /\ crashed.base = drafts["saved"].base /\ crashed.sections = drafts["saved"].sections
       /\ Normalized(crashed.sections)

(* While nobody else has written and no answer was lost, whatever will be    *)
(* sent or compared carries the stored stamp.                                *)
Alone ==
  ~disturbed =>
    /\ ~conflict /\ latest = None
    /\ \A k \in {"compare", "keep", "take"} : gets[k].status = "idle"
    /\ gets["load"].status = "ok" => gets["load"].row.stamp = row.stamp
    /\ phase = "ready" /\ (flight = None \/ flight.status # "ok") => prompt.stamp = row.stamp
    /\ flight # None =>
         /\ flight.status # "conflict"
         /\ flight.status = "ok" => flight.row.stamp = row.stamp
         /\ flight.status = "wait" /\ flight.kind # "create" => flight.stamp = row.stamp

IInv == TypeOK /\ Mutations /\ Reads /\ Pages /\ DraftsKept /\ Alone

-----------------------------------------------------------------------------
(* Texts and drafts *)

LEMMA TextShape ==
  ASSUME NEW t
  PROVE  t \in Texts <=> \E n \in 1..MaxSections : t \in [1..n -> Section]
  BY DEF Texts

(* The server's names for the sections of a text. *)
LEMMA FieldsAreText ==
  ASSUME NEW s \in Texts
  PROVE  /\ ToFields(s) \in Texts /\ DOMAIN ToFields(s) = DOMAIN s
         /\ Normalized(ToFields(s)) /\ HasContent(ToFields(s)) = HasContent(s)
  <1>1. PICK n \in 1..MaxSections : s \in [1..n -> Section]
    BY TextShape
  <1>2. \A i \in 1..n : s[i].name \in Names /\ s[i].body \in Bodies
    BY <1>1 DEF Section
  <1>3. \A i \in 1..n : [name |-> Normal[s[i].name], body |-> s[i].body] \in Section
    BY <1>2, NamesAssumption DEF Section
  <1>4. ToFields(s) = [i \in 1..n |-> [name |-> Normal[s[i].name], body |-> s[i].body]]
    BY <1>1 DEF ToFields
  <1>5. ToFields(s) \in [1..n -> Section]
    BY <1>3, <1>4
  <1>6. \A i \in 1..n : Normal[Normal[s[i].name]] = Normal[s[i].name]
    BY <1>2, NamesAssumption
  <1>7. ToFields(ToFields(s)) = [i \in 1..n |-> [name |-> Normal[Normal[s[i].name]], body |-> s[i].body]]
    BY <1>4, <1>5 DEF ToFields
  <1>8. ToFields(ToFields(s)) = ToFields(s)
    BY <1>4, <1>6, <1>7
  <1>9. HasContent(ToFields(s)) = HasContent(s)
    <2>1. DOMAIN ToFields(s) = DOMAIN s /\ DOMAIN s = 1..n
      BY <1>1, <1>4
    <2>2. \A i \in DOMAIN s : ToFields(s)[i].body = s[i].body
      BY <1>4, <2>1
    <2> QED BY <2>1, <2>2 DEF HasContent
  <1> QED BY <1>1, <1>4, <1>5, <1>8, <1>9, TextShape DEF Normalized

LEMMA BlankIsText == BlankSections \in Texts /\ ~HasContent(BlankSections)
  <1>1. [name |-> StartName, body |-> Blank] \in Section
    BY NamesAssumption, BodiesAssumption DEF Section
  <1>2. BlankSections \in [1..1 -> Section]
    BY <1>1 DEF BlankSections
  <1>3. \A i \in DOMAIN BlankSections : BlankSections[i].body = Blank
    BY DEF BlankSections
  <1>4. 1 \in 1..MaxSections
    BY BoundsAssumption
  <1>5. BlankSections \in Texts
    BY <1>2, <1>4, TextShape
  <1> QED BY <1>3, <1>5 DEF HasContent

LEMMA EditedIsText ==
  ASSUME NEW s \in Texts, NEW i \in DOMAIN s, NEW x \in Section
  PROVE  [s EXCEPT ![i] = x] \in Texts
  BY TextShape

LEMMA MovedIsText ==
  ASSUME NEW s \in Texts, NEW i, NEW j, {i, j} \subseteq DOMAIN s
  PROVE  [s EXCEPT ![i] = s[j], ![j] = s[i]] \in Texts
  <1>1. PICK n \in 1..MaxSections : s \in [1..n -> Section]
    BY TextShape
  <1>2. s[i] \in Section /\ s[j] \in Section
    BY <1>1
  <1>3. [s EXCEPT ![i] = s[j], ![j] = s[i]] \in [1..n -> Section]
    BY <1>1, <1>2
  <1> QED BY <1>3, TextShape

LEMMA AdoptedIsText ==
  ASSUME NEW s \in Texts, NEW t \in Texts
  PROVE  AdoptNames(s, t) \in Texts
  <1>1. PICK n \in 1..MaxSections : s \in [1..n -> Section]
    BY TextShape
  <1>2. PICK m \in 1..MaxSections : t \in [1..m -> Section]
    BY TextShape
  <1>3. \A i \in 1..n : (IF i \in DOMAIN t THEN [s[i] EXCEPT !.name = t[i].name] ELSE s[i]) \in Section
    BY <1>1, <1>2 DEF Section
  <1> QED BY <1>1, <1>3, TextShape DEF AdoptNames

(* What is stored under the draft key, and that it is based on p. *)
LEMMA PersistedIsDraft ==
  ASSUME NEW p \in Row \cup {None}, NEW s \in Texts, NEW rem \in BOOLEAN, NEW vals \in BOOLEAN
  PROVE  /\ Persisted(p, s, rem, vals) \in Draft \cup {None}
         /\ Persisted(p, s, rem, vals) # None =>
              /\ Persisted(p, s, rem, vals).base = IF p = None THEN None ELSE p.text
              /\ Persisted(p, s, rem, vals).sections = ToFields(s)
              /\ Normalized(Persisted(p, s, rem, vals).sections)
         /\ DirtyWith(p, s) => Persisted(p, s, rem, vals) # None
  <1>1. ToFields(s) \in Texts /\ Normalized(ToFields(s))
    BY FieldsAreText
  <1>2. p # None => p.text \in Texts
    BY DEF Row
  <1>3. PICK b : b = IF p = None THEN None ELSE p.text
    OBVIOUS
  <1>4. PICK d : d = [base |-> b, sections |-> ToFields(s), remember |-> rem, values |-> rem /\ vals]
    OBVIOUS
  <1>5. d \in Draft
    BY <1>1, <1>2, <1>3, <1>4 DEF Draft
  <1> QED BY <1>1, <1>3, <1>4, <1>5, NoneAssumption DEF Persisted

-----------------------------------------------------------------------------
(* Types *)

LEMMA TaskType ==
  ASSUME NEW kind \in {"create", "save", "meta", "restore"}, NEW fields \in Texts \cup {<<>>},
         NEW version \in Nat
  PROVE  Task(kind, fields, version) \in Tasks
  BY DEF Task, Tasks

LEMMA SendType ==
  ASSUME NEW t \in Tasks, NEW p \in Row
  PROVE  /\ Send(t, p) \in Tasks /\ Send(t, p).kind = t.kind /\ Send(t, p).fields = t.fields
         /\ Send(t, p).version = t.version /\ Send(t, p).stamp = p.stamp
         /\ Send(t, p).status = "wait"
  BY DEF Send, Tasks, Row

LEMMA SavedDraftType ==
  ASSUME TypeOK, prompt' \in Row \cup {None}, sections' \in Texts, values' \in BOOLEAN,
         remember' \in BOOLEAN, SaveDraft
  PROVE  drafts' \in [{"new", "saved"} -> Draft \cup {None}]
  <1>1. Persisted(prompt', sections', remember', values') \in Draft \cup {None}
    BY PersistedIsDraft
  <1> QED BY <1>1 DEF SaveDraft, TypeOK

LEMMA EnqueueType ==
  ASSUME TypeOK, NEW t \in Tasks, prompt \in Row, Enqueue(t)
  PROVE  flight' \in Tasks \cup {None} /\ queue' \in Seq(Tasks)
  <1>1. Send(t, prompt) \in Tasks
    BY SendType
  <1> QED BY <1>1 DEF Enqueue, TypeOK

LEMMA DequeueType ==
  ASSUME TypeOK, prompt' \in Row, Dequeue
  PROVE  flight' \in Tasks \cup {None} /\ queue' \in Seq(Tasks)
  <1>1. CASE queue = <<>>
    BY <1>1 DEF Dequeue, TypeOK
  <1>2. CASE queue # <<>>
    <2>1. Head(queue) \in Tasks /\ Tail(queue) \in Seq(Tasks)
      BY <1>2 DEF TypeOK
    <2>2. Send(Head(queue), prompt') \in Tasks
      BY <2>1, SendType
    <2> QED BY <1>2, <2>1, <2>2 DEF Dequeue
  <1> QED BY <1>1, <1>2

LEMMA ClosedType ==
  ASSUME TypeOK, ClosePanel
  PROVE  /\ flight' \in Tasks \cup {None} /\ queue' \in Seq(Tasks)
         /\ flight = None <=> flight' = None
         /\ flight # None => \A x \in {"kind", "fields", "version", "stamp", "status", "row"} :
                               flight'[x] = flight[x]
         /\ Len(queue') = Len(queue)
         /\ \A i \in 1..Len(queue) :
              \A x \in {"kind", "fields", "version"} : queue'[i][x] = queue[i][x]
  <1>1. \A t \in Tasks :
          /\ Unwatched(t) \in Tasks
          /\ \A x \in {"kind", "fields", "version", "stamp", "status", "row"} : Unwatched(t)[x] = t[x]
    BY DEF Unwatched, Tasks
  <1>2. queue \in Seq(Tasks) /\ DOMAIN queue = 1..Len(queue)
    BY DEF TypeOK
  <1>3. queue' \in [1..Len(queue) -> Tasks]
    BY <1>1, <1>2 DEF ClosePanel
  <1>4. queue' \in Seq(Tasks) /\ Len(queue') = Len(queue)
    BY <1>2, <1>3
  <1>5. \A i \in 1..Len(queue) : queue'[i] = Unwatched(queue[i]) /\ queue[i] \in Tasks
    BY <1>2 DEF ClosePanel
  <1> QED BY <1>1, <1>4, <1>5, NoneAssumption DEF ClosePanel, TypeOK

(* A mutation that goes out does so from a page that shows a prompt. *)
LEMMA ReadyHasPrompt ==
  ASSUME TypeOK, Mutations, Pages
  PROVE  /\ phase = "ready" => prompt \in Row /\ row \in Row
         /\ flight # None /\ flight.kind # "create" => phase = "ready" /\ prompt \in Row
         /\ flight # None /\ flight.kind # "create" /\ flight.status = "ok" =>
              flight.row \in Row
  BY DEF TypeOK, Mutations, Pages, FlightOK, Past

LEMMA InitType == Init => TypeOK
  <1> SUFFICES ASSUME Init PROVE TypeOK
    OBVIOUS
  <1>1. \A t \in OthersTexts : [text |-> t, stamp |-> 0, by |-> "other"] \in Row
    BY InputsAssumption DEF Row
  <1>2. gets \in [GetKinds -> [status : {"idle", "wait", "ok", "error"}, row : Row \cup {None}]]
    BY DEF Init, Idle, Waiting
  <1>3. sections \in Texts
    BY BlankIsText DEF Init
  <1>4. row \in Row \cup {None} /\ drafts \in [{"new", "saved"} -> Draft \cup {None}]
    BY <1>1 DEF Init
  <1>5. stored \in Seq(Texts) /\ queue \in Seq(Tasks) /\ versions \in 0..Len(stored)
    BY DEF Init
  <1>6. steps \in 0..MaxSteps
    BY BoundsAssumption DEF Init
  <1>7. {values, remember, restored, dialog, conflict, disturbed} \subseteq BOOLEAN
    BY DEF Init
  <1> QED BY <1>2, <1>3, <1>4, <1>5, <1>6, <1>7 DEF Init, TypeOK

(* The server's steps. *)
LEMMA ServerTypes ==
  ASSUME TypeOK, Mutations, Pages, Server
  PROVE  TypeOK'
  <1>1. CASE ServerCreate
    <2>1. flight \in Tasks /\ flight.fields \in Texts
      BY <1>1, NoneAssumption DEF ServerCreate, Handling, TypeOK, Mutations, FlightOK
    <2>2. row' \in Row /\ stored' = <<>> /\ versions = 0
      BY <1>1, <2>1 DEF ServerCreate, Row, Handling, Mutations, FlightOK, Pages
    <2>3. flight' \in Tasks
      BY <1>1, <2>1, <2>2 DEF ServerCreate, Answered, Tasks
    <2> QED BY <1>1, <2>2, <2>3 DEF ServerCreate, Handled, TypeOK, view, work, clash, ghosts
  <1>2. CASE ServerUpdate
    <2>1. flight \in Tasks /\ row \in Row /\ (flight.kind = "save" => flight.fields \in Texts)
      BY <1>2, ReadyHasPrompt
      DEF ServerUpdate, Handling, TypeOK, Mutations, FlightOK, QueuedOK
    <2>2. row' \in Row
      BY <1>2, <2>1 DEF ServerUpdate, Handling, Write, Row, server
    <2>3. flight' \in Tasks
      BY <1>2, <2>1, <2>2 DEF ServerUpdate, Answered, Tasks
    <2>4. stored' \in Seq(Texts) /\ Len(stored) <= Len(stored')
      <3>1. row.text \in Texts /\ stored \in Seq(Texts)
        BY <2>1 DEF TypeOK, Row
      <3>2. stored' = stored \/ stored' = Append(stored, row.text)
        BY <1>2 DEF ServerUpdate, server
      <3> QED BY <3>1, <3>2
    <2> QED BY <1>2, <2>2, <2>3, <2>4 DEF ServerUpdate, Handled, TypeOK, view, work, clash, ghosts
  <1>3. CASE ServerRestore
    <2>1. flight \in Tasks /\ row \in Row /\ flight.version \in 1..Len(stored)
      BY <1>3, ReadyHasPrompt
      DEF ServerRestore, Handling, TypeOK, Mutations, FlightOK, QueuedOK
    <2>2. stored[flight.version] \in Texts
      BY <2>1 DEF TypeOK
    <2>3. row' \in Row
      BY <1>3, <2>1, <2>2 DEF ServerRestore, Write, Row
    <2>4. flight' \in Tasks
      BY <1>3, <2>1, <2>3 DEF ServerRestore, Answered, Tasks
    <2>5. stored' \in Seq(Texts) /\ Len(stored) <= Len(stored')
      BY <1>3, <2>1 DEF ServerRestore, TypeOK, Row
    <2> QED BY <1>3, <2>3, <2>4, <2>5 DEF ServerRestore, Handled, TypeOK, view, work, clash, ghosts
  <1>4. CASE ServerFail
    <2>1. flight' \in Tasks
      BY <1>4 DEF ServerFail, TypeOK, Tasks
    <2> QED BY <1>4, <2>1 DEF ServerFail, TypeOK, server, view, work, clash
  <1> QED BY <1>1, <1>2, <1>3, <1>4 DEF Server

(* Reads at the server, and what others store. *)
LEMMA OutsideTypes ==
  ASSUME TypeOK, Pages, ServerReads \/ Others \/ VersionsAnswer
  PROVE  TypeOK'
  <1>1. CASE ServerReads
    <2>1. PICK k \in GetKinds : ServerRead(k) \/ ReadFails(k)
      BY <1>1 DEF ServerReads
    <2>2. gets' \in [GetKinds -> [status : {"idle", "wait", "ok", "error"}, row : Row \cup {None}]]
      <3>1. gets[k] \in [status : {"idle", "wait", "ok", "error"}, row : Row \cup {None}]
        BY DEF TypeOK
      <3>2. PICK g \in [status : {"idle", "wait", "ok", "error"}, row : Row \cup {None}] :
              gets' = [gets EXCEPT ![k] = g]
        <4>1. CASE ServerRead(k)
          BY <4>1 DEF ServerRead, TypeOK
        <4>2. CASE ReadFails(k)
          <5>1. [gets[k] EXCEPT !.status = "error"] \in
                  [status : {"idle", "wait", "ok", "error"}, row : Row \cup {None}]
            BY <3>1
          <5> QED BY <4>2, <5>1 DEF ReadFails
        <4> QED BY <2>1, <4>1, <4>2
      <3> QED BY <3>2 DEF TypeOK
    <2> QED BY <2>1, <2>2
        DEF ServerRead, ReadFails, TypeOK, server, view, work, clash, ghosts
  <1>2. CASE Others
    <2>1. PICK t \in OthersTexts \cup {row.text} : row # None /\ ForeignSave(t)
      BY <1>2 DEF Others
    <2>2. row \in Row /\ t \in Texts
      BY <2>1, InputsAssumption DEF TypeOK, Row
    <2>3. row' \in Row
      BY <2>1, <2>2 DEF ForeignSave, Write, Row
    <2>4. stored' \in Seq(Texts) /\ Len(stored) <= Len(stored')
      BY <2>1, <2>2 DEF ForeignSave, TypeOK, Row
    <2>5. steps' \in 0..MaxSteps
      BY <2>1, BoundsAssumption DEF ForeignSave, Input, TypeOK
    <2> QED BY <2>1, <2>3, <2>4, <2>5 DEF ForeignSave, TypeOK, view, work, clash, calls
  <1>3. CASE VersionsAnswer
    BY <1>3 DEF VersionsAnswer, TypeOK, server, work, clash, calls, ghosts
  <1> QED BY <1>1, <1>2, <1>3

(* Answers to mutations. *)
LEMMA AnswerTypes ==
  ASSUME TypeOK, Mutations, Pages, Answer
  PROVE  TypeOK'
  <1>1. CASE CreateAnswer
    <2>1. flight.row \in Row
      BY <1>1 DEF CreateAnswer, Arrived, Mutations, FlightOK, Past
    <2>2. drafts' \in [{"new", "saved"} -> Draft \cup {None}]
      BY <1>1, <2>1 DEF CreateAnswer, TypeOK, Draft, Row
    <2>3. gets' \in [GetKinds -> [status : {"idle", "wait", "ok", "error"}, row : Row \cup {None}]]
      BY <1>1 DEF CreateAnswer, Remount, Waiting, Idle
    <2>4. sections' \in Texts
      BY <1>1, BlankIsText DEF CreateAnswer, StartLoading
    <2>5. queue' \in Seq(Tasks) /\ versions' \in 0..Len(stored')
      BY <1>1 DEF CreateAnswer, Remount, TypeOK, server
    <2>6. {values, remember, restored, dialog, conflict, disturbed}' \subseteq BOOLEAN
      BY <1>1 DEF CreateAnswer, StartLoading, Remount, TypeOK
    <2> QED BY <1>1, <2>2, <2>3, <2>4, <2>5, <2>6
        DEF CreateAnswer, StartLoading, Remount, TypeOK, server
  <1>2. CASE CreateFails
    BY <1>2 DEF CreateFails, TypeOK, server, view, work, clash, ghosts
  <1>3. CASE SaveAnswer
    <2>1. prompt' \in Row
      BY <1>3, ReadyHasPrompt DEF SaveAnswer, Arrived, ApplyPrompt
    <2>2. sections' \in Texts
      <3>1. sections \in Texts /\ flight.row.text \in Texts
        BY <1>3, <2>1 DEF SaveAnswer, ApplyPrompt, TypeOK, Row
      <3> QED BY <1>3, <3>1, AdoptedIsText DEF SaveAnswer
    <2>3. drafts' \in [{"new", "saved"} -> Draft \cup {None}]
      BY <1>3, <2>1, <2>2, SavedDraftType DEF SaveAnswer, TypeOK
    <2>4. flight' \in Tasks \cup {None} /\ queue' \in Seq(Tasks)
      BY <1>3, <2>1, DequeueType DEF SaveAnswer
    <2> QED BY <1>3, <2>1, <2>2, <2>3, <2>4 DEF SaveAnswer, TypeOK, server, ghosts
  <1>4. CASE MutationFails
    <2>1. prompt' \in Row
      BY <1>4, ReadyHasPrompt DEF MutationFails
    <2>2. flight' \in Tasks \cup {None} /\ queue' \in Seq(Tasks)
      BY <1>4, <2>1, DequeueType DEF MutationFails
    <2> QED BY <1>4, <2>2
        DEF MutationFails, ReportError, TypeOK, server, work, ghosts, clash
  <1>5. CASE MetaAnswer
    <2>1. prompt' \in Row
      BY <1>5, ReadyHasPrompt DEF MetaAnswer, Arrived, ApplyPrompt
    <2>2. drafts' \in [{"new", "saved"} -> Draft \cup {None}]
      BY <1>5, <2>1, SavedDraftType DEF MetaAnswer, TypeOK, work
    <2>3. flight' \in Tasks \cup {None} /\ queue' \in Seq(Tasks)
      BY <1>5, <2>1, DequeueType DEF MetaAnswer
    <2> QED BY <1>5, <2>1, <2>2, <2>3 DEF MetaAnswer, TypeOK, server, work, clash, ghosts
  <1>6. CASE RestoreAnswer
    <2>1. prompt' \in Row /\ sections' \in Texts /\ flight.row.text \in Texts
      BY <1>6, ReadyHasPrompt DEF RestoreAnswer, Arrived, ApplyPrompt, Row
    <2>2. drafts' \in [{"new", "saved"} -> Draft \cup {None}]
      BY <1>6, <2>1, SavedDraftType DEF RestoreAnswer, TypeOK
    <2>3. flight' \in Tasks \cup {None} /\ queue' \in Seq(Tasks)
      BY <1>6, <2>1, DequeueType DEF RestoreAnswer
    <2> QED BY <1>6, <2>1, <2>2, <2>3 DEF RestoreAnswer, TypeOK, server, clash
  <1> QED BY <1>1, <1>2, <1>3, <1>4, <1>5, <1>6 DEF Answer

(* Answers to reads. *)
LEMMA ReadAnswerTypes ==
  ASSUME TypeOK, Reads, ReadAnswer
  PROVE  TypeOK'
  <1>1. ASSUME NEW k \in GetKinds
        PROVE  [gets EXCEPT ![k] = Idle] \in
                 [GetKinds -> [status : {"idle", "wait", "ok", "error"}, row : Row \cup {None}]]
    BY DEF TypeOK, Idle
  <1>2. \A k \in GetKinds : gets[k].status = "ok" => gets[k].row \in Row /\ gets[k].row.text \in Texts
    BY DEF Reads, Past, Row
  <1>3. CASE Load
    <2>1. gets["load"].row \in Row /\ gets["load"].row.text \in Texts /\ "load" \in GetKinds
      BY <1>2, <1>3 DEF Load, GetKinds
    <2>2. drafts["saved"] \in Draft \cup {None}
      BY DEF TypeOK
    <2>3. sections' \in Texts
      BY <1>3, <2>1, <2>2 DEF Load, DraftIsCurrent, Draft
    <2>4. values' \in BOOLEAN /\ remember' \in BOOLEAN
      BY <1>3, <2>2 DEF Load, DraftIsCurrent, RestoreInputs, Draft
    <2>5. Persisted(prompt', sections', TRUE, values') \in Draft \cup {None}
      BY <1>3, <2>1, <2>3, <2>4, PersistedIsDraft DEF Load
    <2>6. drafts' \in [{"new", "saved"} -> Draft \cup {None}]
      BY <1>3, <2>5 DEF Load, TypeOK
    <2>7. restored' \in BOOLEAN
      BY <1>3 DEF Load, DraftIsCurrent
    <2>8. seen' \subseteq Texts
      BY <1>3, <2>1 DEF Load, TypeOK
    <2>9. gets' \in [GetKinds -> [status : {"idle", "wait", "ok", "error"}, row : Row \cup {None}]]
      BY <1>1, <1>3, <2>1 DEF Load
    <2>10. prompt' \in Row /\ phase' = "ready" /\ versions' \in 0..Len(stored)
      BY <1>3, <2>1 DEF Load
    <2>11. UNCHANGED <<row, stored, panel, dialog, saving, conflict, latest, flight, queue, steps, blind,
                       disturbed>>
      BY <1>3 DEF Load, server, clash
    <2> QED BY <2>3, <2>4, <2>6, <2>7, <2>8, <2>9, <2>10, <2>11 DEF TypeOK
  <1>4. CASE LoadFails
    BY <1>1, <1>4 DEF LoadFails, TypeOK, GetKinds, server, work, clash, ghosts
  <1>5. CASE CompareAnswer
    <2>1. latest' \in Row /\ latest'.text \in Texts
      BY <1>2, <1>5 DEF CompareAnswer, GetKinds
    <2> QED BY <1>1, <1>5, <2>1 DEF CompareAnswer, TypeOK, GetKinds, server, view, work
  <1>6. CASE KeepAnswer
    <2>1. prompt' \in Row /\ prompt'.text \in Texts
      BY <1>2, <1>6 DEF KeepAnswer, Rebase, GetKinds
    <2>2. drafts' \in [{"new", "saved"} -> Draft \cup {None}]
      BY <1>6, <2>1, SavedDraftType DEF KeepAnswer, Rebase, TypeOK, work
    <2>3. versions' \in 0..Len(stored)
      BY <1>6 DEF KeepAnswer, Rebase, TypeOK
    <2> QED BY <1>1, <1>6, <2>1, <2>2, <2>3
        DEF KeepAnswer, Rebase, TypeOK, GetKinds, server, work
  <1>7. CASE TakeAnswer
    <2>1. prompt' \in Row /\ prompt'.text \in Texts
      BY <1>2, <1>7 DEF TakeAnswer, GetKinds
    <2>2. sections' \in Texts /\ values' \in BOOLEAN
      BY <1>7, <2>1, BlankIsText DEF TakeAnswer, DiscardTo, TypeOK
    <2>3. Persisted(prompt', sections', remember, values') \in Draft \cup {None}
      BY <2>1, <2>2, PersistedIsDraft DEF TypeOK
    <2>4. drafts' \in [{"new", "saved"} -> Draft \cup {None}]
      BY <1>7, <2>3 DEF TakeAnswer, DiscardTo, TypeOK
    <2>5. versions' \in 0..Len(stored)
      BY <1>7 DEF TakeAnswer, TypeOK
    <2> QED BY <1>1, <1>7, <2>1, <2>2, <2>4, <2>5
        DEF TakeAnswer, DiscardTo, TypeOK, GetKinds, server
  <1>8. ASSUME NEW k \in GetKinds, ConflictReadFails(k) PROVE TypeOK'
    BY <1>1, <1>8 DEF ConflictReadFails, TypeOK, server, view, work, clash, ghosts
  <1> QED BY <1>3, <1>4, <1>5, <1>6, <1>7, <1>8 DEF ReadAnswer

(* What the user does. *)
LEMMA EditTypes ==
  ASSUME TypeOK,
         \/ \E i \in 1..MaxSections : MoveSection(i) \/ \E s \in Edits : UpdateSection(i, s)
         \/ \E filled \in BOOLEAN : SetValues(filled)
         \/ Discard
  PROVE  TypeOK'
  <1>1. Input => steps' \in 0..MaxSteps
    BY BoundsAssumption DEF Input, TypeOK
  <1>2. ASSUME Edited, Input, sections' \in Texts, values' \in BOOLEAN, UNCHANGED remember
        PROVE  TypeOK'
    <2>1. drafts' \in [{"new", "saved"} -> Draft \cup {None}]
      BY <1>2, SavedDraftType DEF Edited, TypeOK
    <2> QED BY <1>1, <1>2, <2>1 DEF Edited, TypeOK, server, clash, calls, ghosts
  <1>3. ASSUME NEW i \in 1..MaxSections, MoveSection(i) PROVE TypeOK'
    <2>1. sections' \in Texts
      BY <1>3, MovedIsText DEF MoveSection, TypeOK
    <2> QED BY <1>2, <1>3, <2>1 DEF MoveSection, TypeOK
  <1>4. ASSUME NEW i \in 1..MaxSections, NEW s \in Edits, UpdateSection(i, s) PROVE TypeOK'
    <2>1. sections' \in Texts
      BY <1>4, EditedIsText, InputsAssumption DEF UpdateSection, TypeOK
    <2> QED BY <1>2, <1>4, <2>1 DEF UpdateSection, TypeOK
  <1>5. ASSUME NEW filled \in BOOLEAN, SetValues(filled) PROVE TypeOK'
    BY <1>2, <1>5 DEF SetValues, TypeOK
  <1>6. CASE Discard
    <2>1. sections' \in Texts /\ values' \in BOOLEAN
      BY <1>6, BlankIsText DEF Discard, DiscardTo, TypeOK, Row
    <2>2. Persisted(prompt, sections', remember, values') \in Draft \cup {None}
      BY <2>1, PersistedIsDraft DEF TypeOK
    <2>3. drafts' \in [{"new", "saved"} -> Draft \cup {None}]
      BY <1>6, <2>2 DEF Discard, DiscardTo, TypeOK
    <2> QED BY <1>1, <1>6, <2>1, <2>3 DEF Discard, DiscardTo, TypeOK, server, calls, ghosts
  <1> QED BY <1>3, <1>4, <1>5, <1>6

LEMMA UserTypes ==
  ASSUME TypeOK, Pages, User
  PROVE  TypeOK'
  <1>1. Input => steps' \in 0..MaxSteps
    BY BoundsAssumption DEF Input, TypeOK
  <1>2. phase = "ready" => prompt \in Row
    BY DEF TypeOK, Pages
  <1>3. ToFields(sections) \in Texts
    BY FieldsAreText DEF TypeOK
  <1>4. CASE Reload
    <2>1. drafts["new"] \in Draft \cup {None}
      BY DEF TypeOK
    <2>2. sections' \in Texts /\ {values, remember, restored}' \subseteq BOOLEAN
      BY <1>4, <2>1, BlankIsText DEF Reload, HydrateNew, RestoreInputs, StartLoading, Draft
    <2>3. gets' \in [GetKinds -> [status : {"idle", "wait", "ok", "error"}, row : Row \cup {None}]]
      BY <1>4 DEF Reload, Remount, Waiting, Idle
    <2>4. queue' \in Seq(Tasks) /\ versions' \in 0..Len(stored')
      <3>1. queue' = <<>> /\ versions' = 0 /\ stored' = stored
        BY <1>4 DEF Reload, Remount, server
      <3> QED BY <3>1 DEF TypeOK
    <2>5. phase' \in {"new", "loading"} /\ prompt' = None /\ flight' = None /\ latest' = None
          /\ {dialog, conflict, disturbed}' \subseteq BOOLEAN /\ panel' = "none" /\ saving' = "no"
      BY <1>4 DEF Reload, Remount, HydrateNew, StartLoading, TypeOK
    <2> QED BY <1>1, <1>4, <2>2, <2>3, <2>4, <2>5 DEF Reload, TypeOK, server
  <1>5. CASE \/ \E i \in 1..MaxSections : MoveSection(i) \/ \E s \in Edits : UpdateSection(i, s)
             \/ \E filled \in BOOLEAN : SetValues(filled)
             \/ Discard
    BY <1>5, EditTypes
  <1>6. CASE ToggleRefine \/ ToggleHistory
    <2>1. flight' \in Tasks \cup {None} /\ queue' \in Seq(Tasks)
      BY <1>6, ClosedType DEF ToggleRefine, ToggleHistory
    <2> QED BY <1>1, <1>6, <2>1
        DEF ToggleRefine, ToggleHistory, TypeOK, server, work, clash, ghosts
  <1>7. CASE Save
    <2>1. CASE phase = "ready" /\ Enqueue(Task("save", ToFields(sections), 0))
      <3>1. flight' \in Tasks \cup {None} /\ queue' \in Seq(Tasks)
        BY <1>2, <1>3, <2>1, TaskType, EnqueueType
      <3> QED BY <1>1, <1>3, <1>7, <3>1 DEF Save, TypeOK, server, work, clash
    <2>2. CASE phase = "new"
      BY <1>1, <1>7, <2>2 DEF Save, TypeOK, server, work, clash
    <2> QED BY <1>7, <2>1, <2>2 DEF Save
  <1>8. CASE CloseDialog
    BY <1>1, <1>8 DEF CloseDialog, TypeOK, server, work, clash, calls, ghosts
  <1>9. CASE CreatePrompt
    <2>1. Task("create", ToFields(sections), 0) \in Tasks
      BY <1>3, TaskType
    <2>2. flight' \in Tasks
      BY <1>9, <2>1 DEF CreatePrompt, Tasks
    <2> QED BY <1>1, <1>3, <1>9, <2>2 DEF CreatePrompt, TypeOK, server, view, work, clash
  <1>10. ASSUME Input, phase = "ready",
                NEW kind \in {"meta", "restore"}, NEW v \in Nat, Enqueue(Task(kind, <<>>, v)),
                UNCHANGED <<server, drafts, view, work, saving, clash, gets, ghosts>>
         PROVE  TypeOK'
    <2>1. flight' \in Tasks \cup {None} /\ queue' \in Seq(Tasks)
      BY <1>2, <1>10, TaskType, EnqueueType
    <2> QED BY <1>1, <1>10, <2>1 DEF TypeOK, server, view, work, clash, ghosts
  <1>11. CASE Rename \/ MarkKnownGood \/ MoveToFolder
    BY <1>10, <1>11 DEF Rename, MarkKnownGood, MoveToFolder, Details
  <1>12. ASSUME NEW v \in 1..Len(stored), Restore(v) PROVE TypeOK'
    <2>1. v \in Nat
      BY DEF TypeOK
    <2> QED BY <1>10, <1>12, <2>1 DEF Restore
  <1>13. CASE CompareConflict \/ KeepUnseen \/ TakeSavedVersion
    <2>1. gets' \in [GetKinds -> [status : {"idle", "wait", "ok", "error"}, row : Row \cup {None}]]
      BY <1>13
      DEF CompareConflict, KeepUnseen, TakeSavedVersion, Fetch, Waiting, TypeOK
    <2> QED BY <1>13, <2>1
        DEF CompareConflict, KeepUnseen, TakeSavedVersion, TypeOK, server, view, work, clash, ghosts
  <1>14. CASE KeepCompared
    <2>1. prompt' \in Row
      BY <1>14 DEF KeepCompared, Rebase, TypeOK
    <2>2. drafts' \in [{"new", "saved"} -> Draft \cup {None}]
      BY <1>14, <2>1, SavedDraftType DEF KeepCompared, Rebase, TypeOK, work
    <2>3. versions' \in 0..Len(stored)
      BY <1>14 DEF KeepCompared, Rebase, TypeOK
    <2> QED BY <1>14, <2>1, <2>2, <2>3
        DEF KeepCompared, Rebase, TypeOK, server, work, calls, ghosts
  <1> QED BY <1>4, <1>5, <1>6, <1>7, <1>8, <1>9, <1>11, <1>12, <1>13, <1>14 DEF User

LEMMA NextType ==
  ASSUME TypeOK, Mutations, Reads, Pages, [Next]_vars
  PROVE  TypeOK'
  <1>1. CASE UNCHANGED vars
    BY <1>1 DEF TypeOK, vars, server, view, work, clash, calls, ghosts
  <1>2. CASE Next
    BY <1>2, ServerTypes, OutsideTypes, AnswerTypes, ReadAnswerTypes, UserTypes DEF Next
  <1> QED BY <1>1, <1>2

-----------------------------------------------------------------------------
(* The row, what is heard of it, and what is known of it *)

LEMMA InitInv == Init => IInv
  <1> SUFFICES ASSUME Init PROVE IInv
    OBVIOUS
  <1>1. TypeOK
    BY InitType
  <1>2. Mutations /\ Reads
    BY DEF Init, Mutations, Reads, Waiting, Idle, GetKinds
  <1>3. Pages
    BY DEF Init, Pages
  <1>4. DraftsKept
    BY BlankIsText DEF Init, DraftsKept, Persisted, DirtyWith
  <1>5. Alone
    BY <1>1 DEF Init, Alone, Waiting, Idle, GetKinds
  <1> QED BY <1>1, <1>2, <1>3, <1>4, <1>5 DEF IInv

(* The stored row stays, or gets a newer stamp and none is lost. *)
LEMMA PastStays ==
  ASSUME NEW r, Past(r), row \in Row, row' \in Row, row' = row \/ row'.stamp = row.stamp + 1
  PROVE  Past(r)'
  <1>1. r.stamp \in Nat /\ row.stamp \in Nat
    BY DEF Past, Row
  <1> QED BY <1>1 DEF Past

(* While the row stays and no page is left, what was known stays known. *)
LEMMA MutationsStay ==
  ASSUME Mutations, UNCHANGED <<row, stored, phase>>, seen \subseteq seen', blind \subseteq blind',
         UNCHANGED <<flight, queue>>
  PROVE  Mutations'
  BY DEF Mutations, FlightOK, QueuedOK, Past, Known

(* A change of what is shown. *)
LEMMA PagesStay ==
  ASSUME Pages, UNCHANGED <<row, phase>>, seen \subseteq seen', blind \subseteq blind',
         versions' = versions \/ phase = "ready",
         prompt' = prompt \/ (phase = "ready" /\ prompt' # None /\ Past(prompt') /\ prompt'.text \in Known'),
         latest' = latest \/ latest' = None
           \/ (phase = "ready" /\ Past(latest') /\ latest'.text \in Known'),
         conflict' => conflict \/ phase = "ready", dialog' => dialog \/ phase = "new",
         panel' = "history" => panel = "history" \/ phase = "ready",
         saving' = "versions" => saving = "versions" \/ phase = "ready"
  PROVE  Pages'
  BY DEF Pages, Past, Known

LEMMA EnqueueMutations ==
  ASSUME TypeOK, Mutations, NEW t \in Tasks, Enqueue(t), prompt \in Row, Past(prompt),
         prompt.text \in Known, phase = "ready", UNCHANGED <<row, stored, phase>>,
         seen \subseteq seen', blind \subseteq blind', QueuedOK(t)'
  PROVE  Mutations'
  <1>1. \A x : (QueuedOK(x) => QueuedOK(x)') /\ (FlightOK(x) => FlightOK(x)')
    BY DEF QueuedOK, FlightOK, Past, Known
  <1>2. CASE flight = None
    <2>1. PICK f : f = Send(t, prompt)
      OBVIOUS
    <2>2. FlightOK(f)' /\ f.kind # "create"
      BY <2>1, SendType DEF FlightOK, QueuedOK, Past, Known
    <2>3. flight' = f /\ queue' = queue
      BY <1>2, <2>1 DEF Enqueue
    <2>4. queue = <<>> /\ FlightOK(flight)'
      BY <1>2, <2>2, <2>3 DEF Mutations, FlightOK
    <2> QED BY <2>3, <2>4 DEF Mutations
  <1>3. CASE flight # None
    <2>1. flight' = flight /\ queue' = Append(queue, t)
      BY <1>3 DEF Enqueue
    <2>2. flight.kind # "create" /\ FlightOK(flight)'
      <3>1. PICK f : f = flight /\ FlightOK(f)
        BY <1>3 DEF Mutations
      <3>2. FlightOK(f)' /\ f.kind # "create"
        BY <1>1, <3>1 DEF FlightOK
      <3> QED BY <2>1, <3>1, <3>2 DEF FlightOK
    <2>3. ASSUME NEW i \in 1..Len(queue') PROVE QueuedOK(queue[i])'
      <3>1. PICK x : x = queue'[i]
        OBVIOUS
      <3>2. x = t \/ (i \in 1..Len(queue) /\ x = queue[i])
        BY <2>1, <3>1 DEF TypeOK
      <3>3. QueuedOK(x)'
        BY <1>1, <3>2 DEF Mutations
      <3> QED BY <3>1, <3>3 DEF QueuedOK
    <2> QED BY <1>3, <2>1, <2>2, <2>3 DEF Mutations
  <1> QED BY <1>2, <1>3

LEMMA DequeueMutations ==
  ASSUME TypeOK, Mutations, Dequeue, prompt' \in Row, Past(prompt'), prompt'.text \in Known',
         phase = "ready", UNCHANGED <<row, stored, phase>>,
         seen \subseteq seen', blind \subseteq blind'
  PROVE  Mutations'
  <1>1. CASE queue = <<>>
    BY <1>1 DEF Dequeue, Mutations
  <1>2. CASE queue # <<>>
    <2>0. PICK q \in Seq(Tasks) : q = queue /\ q # <<>>
      BY <1>2 DEF TypeOK
    <2>1. /\ Head(queue) \in Tasks /\ queue' = Tail(queue) /\ Head(queue) = queue[1]
          /\ flight' = Send(Head(queue), prompt') /\ 1 \in 1..Len(queue)
          /\ \A i \in 1..Len(queue') : queue'[i] = queue[i + 1] /\ i + 1 \in 1..Len(queue)
      <3>1. Head(q) \in Tasks /\ Head(q) = q[1] /\ 1 \in 1..Len(q) /\ Len(Tail(q)) = Len(q) - 1
            /\ Len(q) \in Nat
        BY <2>0
      <3>2. \A i \in 1..Len(Tail(q)) : Tail(q)[i] = q[i + 1]
        BY <2>0
      <3>3. \A i \in 1..Len(Tail(q)) : i + 1 \in 1..Len(q)
        BY <3>1
      <3>4. queue' = Tail(q) /\ flight' = Send(Head(queue), prompt')
        BY <1>2, <2>0 DEF Dequeue
      <3> QED BY <2>0, <3>1, <3>2, <3>3, <3>4
    <2>2. \A x : QueuedOK(x) => QueuedOK(x)'
      BY DEF QueuedOK
    <2>3. ASSUME NEW i \in 1..Len(queue') PROVE QueuedOK(queue[i])'
      <3>1. PICK x : x = queue[i + 1] /\ QueuedOK(x)
        BY <2>1 DEF Mutations
      <3>2. QueuedOK(x)' /\ queue'[i] = x
        BY <2>1, <2>2, <3>1
      <3> QED BY <3>2 DEF QueuedOK
    <2>4. PICK t, p : t = Head(queue) /\ p = prompt' /\ QueuedOK(t)
      BY <2>1 DEF Mutations
    <2>5. p \in Row /\ p.stamp <= row.stamp /\ (p.stamp = row.stamp => row.text \in Known')
      BY <2>4 DEF Past
    <2>6. PICK f : f = Send(t, p)
      OBVIOUS
    <2>7. f \in Tasks /\ f.kind = t.kind /\ f.fields = t.fields /\ f.version = t.version
          /\ f.stamp = p.stamp /\ f.status = "wait"
      BY <2>1, <2>4, <2>5, <2>6, SendType
    <2>8. QueuedOK(t)'
      BY <2>2, <2>4
    <2>9. flight' = f
      BY <2>1, <2>4, <2>6
    <2>10. FlightOK(flight)' /\ flight' # None /\ flight'.kind # "create"
      BY <2>5, <2>7, <2>8, <2>9, NoneAssumption DEF FlightOK, QueuedOK, Known
    <2> QED BY <2>3, <2>10 DEF Mutations
  <1> QED BY <1>1, <1>2

(* What waits goes on waiting. *)
LEMMA QueueFollows ==
  ASSUME Mutations, queue' = queue, \A t : QueuedOK(t) => QueuedOK(t)'
  PROVE  (\A i \in 1..Len(queue) : QueuedOK(queue[i]))'
  <1>1. ASSUME NEW i \in 1..Len(queue') PROVE QueuedOK(queue[i])'
    <2>1. PICK x : x = queue[i] /\ QueuedOK(x)
      BY DEF Mutations
    <2>2. QueuedOK(x)' /\ queue'[i] = x
      BY <2>1
    <2> QED BY <2>2 DEF QueuedOK
  <1> QED BY <1>1

(* What is at the server or behind it, step by step. *)
LEMMA ServerMutations ==
  ASSUME TypeOK, TypeOK', Mutations, Pages, Server
  PROVE  Mutations'
  <1>0. flight \in Tasks /\ flight # None /\ FlightOK(flight)
    BY NoneAssumption
    DEF Server, ServerCreate, ServerUpdate, ServerRestore, ServerFail, Handling, TypeOK, Mutations
  <1>1. CASE ServerCreate
    <2>1. /\ flight.kind = "create" /\ flight.fields \in seen /\ phase = "new"
          /\ row' = [text |-> flight.fields, stamp |-> 0, by |-> "own"]
          /\ flight' = [flight EXCEPT !.status = "ok", !.row = row']
          /\ UNCHANGED <<phase, queue, seen, blind>>
      BY <1>0, <1>1 DEF ServerCreate, Handling, FlightOK, Answered, Handled, view, ghosts
    <2>2. row' \in Row
      BY <2>1, NoneAssumption DEF TypeOK, Row
    <2>3. flight'.kind = "create" /\ flight'.status = "ok" /\ flight'.row = row'
          /\ flight'.fields = flight.fields
      BY <1>0, <2>1 DEF Tasks
    <2>4. FlightOK(flight)'
      BY <2>1, <2>2, <2>3, NoneAssumption DEF FlightOK, Past, Known, Row
    <2>5. queue = <<>>
      BY <1>0, <2>1 DEF Mutations
    <2> QED BY <2>1, <2>4, <2>5 DEF Mutations
  <1>2. CASE ServerUpdate
    <2>1. /\ flight.kind \in {"save", "meta"} /\ row \in Row /\ flight.status = "wait"
          /\ UNCHANGED <<phase, queue, seen, blind>> /\ phase = "ready"
      BY <1>0, <1>2, ReadyHasPrompt
      DEF ServerUpdate, Handling, Handled, view, ghosts
    <2>2. PICK st : /\ st \in {"ok", "conflict"} /\ flight' = [flight EXCEPT !.status = st, !.row = row']
                    /\ st = "ok" => flight.stamp = row.stamp /\ row'.text \in Known
                    /\ row' \in Row
      <3>1. CASE flight.stamp # row.stamp
        BY <1>2, <2>1, <3>1 DEF ServerUpdate, Answered, server
      <3>2. CASE flight.stamp = row.stamp
        <4>1. row.text \in Known /\ (flight.kind = "save" => flight.fields \in Known)
          BY <1>0, <2>1, <3>2 DEF FlightOK, QueuedOK, Known
        <4>2. row'.text \in Known /\ flight' = [flight EXCEPT !.status = "ok", !.row = row']
          BY <1>2, <2>1, <3>2, <4>1 DEF ServerUpdate, Write, Answered
        <4>3. row' \in Row
          BY <1>0, <1>2, <2>1, <3>2, <4>1
          DEF ServerUpdate, Write, Row, TypeOK, Known
        <4> QED BY <3>2, <4>2, <4>3
      <3> QED BY <3>1, <3>2
    <2>3. /\ flight'.kind = flight.kind /\ flight'.fields = flight.fields
          /\ flight'.version = flight.version /\ flight'.status = st /\ flight'.row = row'
          /\ flight' \in Tasks
      BY <1>0, <2>2 DEF Tasks
    <2>4. Len(stored) <= Len(stored')
      <3>1. row.text \in Texts /\ stored \in Seq(Texts)
        BY <2>1 DEF TypeOK, Row
      <3>2. stored' = stored \/ stored' = Append(stored, row.text)
        BY <1>2 DEF ServerUpdate, server
      <3> QED BY <3>1, <3>2
    <2>5. \A t : QueuedOK(t) => QueuedOK(t)'
      BY <2>1, <2>4 DEF QueuedOK, TypeOK
    <2>6. FlightOK(flight)'
      BY <1>0, <2>1, <2>2, <2>3, <2>5, NoneAssumption DEF FlightOK, QueuedOK, Past, Known, Row
    <2> QED BY <1>0, <2>1, <2>3, <2>5, <2>6, QueueFollows, NoneAssumption DEF Mutations
  <1>3. CASE ServerRestore
    <2>1. /\ flight.kind = "restore" /\ row \in Row /\ flight.status = "wait"
          /\ UNCHANGED <<phase, queue, seen, blind>> /\ phase = "ready"
          /\ flight.version \in 1..Len(stored) /\ stored \in Seq(Texts) /\ row.text \in Texts
      BY <1>0, <1>3, ReadyHasPrompt
      DEF ServerRestore, Handling, Handled, view, ghosts, FlightOK, QueuedOK, TypeOK, Row
    <2>2. /\ flight' = [flight EXCEPT !.status = "ok", !.row = row']
          /\ row' = [text |-> stored[flight.version], stamp |-> row.stamp + 1, by |-> "restore"]
          /\ stored' = Append(stored, row.text)
      BY <1>3 DEF ServerRestore, Answered, Write
    <2>4. row' \in Row
      BY <2>1, <2>2 DEF Row
    <2>3. /\ flight'.kind = flight.kind /\ flight'.fields = flight.fields
          /\ flight'.version = flight.version /\ flight'.status = "ok" /\ flight'.row = row'
          /\ flight' \in Tasks
      BY <1>0, <2>2, <2>4 DEF Tasks
    <2>5. Len(stored') = Len(stored) + 1
      BY <2>1, <2>2
    <2>6. \A t : QueuedOK(t) => QueuedOK(t)'
      BY <2>1, <2>5 DEF QueuedOK
    <2>7. FlightOK(flight)'
      BY <1>0, <2>1, <2>3, <2>4, <2>5, NoneAssumption DEF FlightOK, QueuedOK, Past, Known, Row
    <2> QED BY <1>0, <2>1, <2>3, <2>6, <2>7, QueueFollows, NoneAssumption DEF Mutations
  <1>4. CASE ServerFail
    <2>1. flight' = [flight EXCEPT !.status = "error"]
          /\ UNCHANGED <<row, stored, phase, queue, seen, blind>>
      BY <1>4 DEF ServerFail, server, view
    <2>2. flight'.kind = flight.kind /\ flight'.fields = flight.fields
          /\ flight'.version = flight.version /\ flight'.status = "error"
          /\ flight' \in Tasks
      BY <1>0, <2>1 DEF Tasks
    <2>3. FlightOK(flight)'
      BY <1>0, <2>1, <2>2 DEF FlightOK, QueuedOK
    <2>4. \A t : QueuedOK(t) => QueuedOK(t)'
      BY <2>1 DEF QueuedOK
    <2> QED BY <1>0, <2>1, <2>2, <2>3, <2>4, QueueFollows, NoneAssumption DEF Mutations
  <1> QED BY <1>1, <1>2, <1>3, <1>4 DEF Server

LEMMA OutsideMutations ==
  ASSUME TypeOK, TypeOK', Mutations, Pages, ServerReads \/ Others \/ VersionsAnswer
  PROVE  Mutations'
  <1>1. CASE ServerReads \/ VersionsAnswer
    BY <1>1, MutationsStay
    DEF ServerReads, ServerRead, ReadFails, VersionsAnswer, server, view, calls, ghosts
  <1>2. CASE Others
    <2>1. PICK w \in OthersTexts \cup {row.text} : row # None /\ ForeignSave(w)
      BY <1>2 DEF Others
    <2>2. /\ row \in Row /\ row.text \in Texts /\ stored \in Seq(Texts)
          /\ UNCHANGED <<phase, flight, queue, seen, blind>>
      BY <2>1 DEF TypeOK, Row, ForeignSave, view, calls
    <2>3. row' \in Row /\ row'.stamp = row.stamp + 1
      <3>1. w \in Texts /\ row.stamp \in Nat /\ row.by \in {"own", "other", "restore"}
        BY <2>2, InputsAssumption DEF Row
      <3> QED BY <2>1, <3>1 DEF ForeignSave, Write, Row
    <2>4. Len(stored) <= Len(stored')
      BY <2>1, <2>2 DEF ForeignSave
    <2>5. \A t : QueuedOK(t) => QueuedOK(t)'
      BY <2>2, <2>4 DEF QueuedOK, TypeOK
    <2>6. ASSUME flight # None PROVE FlightOK(flight)'
      <3>1. PICK f \in Tasks : f = flight /\ FlightOK(f)
        BY <2>6 DEF TypeOK, Mutations
      <3>2. (Past(f.row) => Past(f.row)') /\ (QueuedOK(f) => QueuedOK(f)')
        BY <2>2, <2>3, <2>5, PastStays
      <3>3. f.stamp <= row.stamp => f.stamp <= row'.stamp /\ f.stamp # row'.stamp
        <4>1. f.stamp \in Nat /\ row.stamp \in Nat
          BY <2>2 DEF Tasks, Row
        <4> QED BY <2>3, <4>1
      <3>4. FlightOK(f)'
        BY <2>2, <3>1, <3>2, <3>3, <2>3, NoneAssumption DEF FlightOK, Known
      <3> QED BY <2>2, <3>1, <3>4 DEF FlightOK
    <2> QED BY <2>2, <2>5, <2>6, QueueFollows DEF Mutations
  <1> QED BY <1>1, <1>2

(* Where an answer leads: the page then works on the row it brings. *)
LEMMA AnswerBrings ==
  ASSUME TypeOK, Mutations, Pages, SaveAnswer \/ MetaAnswer \/ RestoreAnswer \/ MutationFails
  PROVE  /\ phase = "ready" /\ row \in Row
         /\ prompt' \in Row /\ Past(prompt') /\ prompt'.text \in Known'
         /\ UNCHANGED <<row, stored, phase, blind, gets>> /\ seen \subseteq seen' /\ Dequeue
  <1>1. flight # None /\ FlightOK(flight) /\ flight.kind # "create"
    BY DEF SaveAnswer, MetaAnswer, RestoreAnswer, MutationFails, Arrived, Mutations
  <1>2. phase = "ready" /\ prompt \in Row /\ row \in Row
    BY <1>1, ReadyHasPrompt
  <1>3. /\ UNCHANGED <<row, stored, phase, blind, gets>> /\ seen \subseteq seen' /\ Dequeue
    BY DEF SaveAnswer, MetaAnswer, RestoreAnswer, MutationFails, server, ghosts
  <1>4. CASE MutationFails
    BY <1>2, <1>3, <1>4, NoneAssumption DEF MutationFails, Pages, Known
  <1>5. CASE SaveAnswer \/ MetaAnswer
    BY <1>1, <1>2, <1>3, <1>5 DEF SaveAnswer, MetaAnswer, Arrived, ApplyPrompt, FlightOK, Past, Known
  <1>6. CASE RestoreAnswer
    BY <1>1, <1>2, <1>3, <1>6 DEF RestoreAnswer, Arrived, ApplyPrompt, FlightOK, Past, Known
  <1> QED BY <1>4, <1>5, <1>6

LEMMA AnswerMutations ==
  ASSUME TypeOK, Mutations, Pages, Reads, Answer \/ ReadAnswer
  PROVE  Mutations'
  <1>1. CASE CreateAnswer
    BY <1>1 DEF CreateAnswer, Remount, Mutations
  <1>2. CASE CreateFails
    BY <1>2 DEF CreateFails, Arrived, Mutations
  <1>3. CASE SaveAnswer \/ MetaAnswer \/ RestoreAnswer \/ MutationFails
    BY <1>3, AnswerBrings, DequeueMutations
  <1>4. CASE Load \/ LoadFails
    <2>1. flight = None /\ queue = <<>>
      BY <1>4 DEF Load, LoadFails, Mutations, FlightOK
    <2>2. flight' = flight /\ queue' = queue
      BY <1>4 DEF Load, LoadFails
    <2> QED BY <2>1, <2>2 DEF Mutations
  <1>5. CASE CompareAnswer \/ KeepAnswer \/ TakeAnswer \/ \E k \in GetKinds : ConflictReadFails(k)
    BY <1>5, MutationsStay
    DEF CompareAnswer, KeepAnswer, TakeAnswer, ConflictReadFails, Rebase, server, view, ghosts
  <1> QED BY <1>1, <1>2, <1>3, <1>4, <1>5 DEF Answer, ReadAnswer

LEMMA UserMutations ==
  ASSUME TypeOK, Mutations, Pages, User
  PROVE  Mutations'
  <1>1. phase = "ready" => prompt \in Row /\ Past(prompt) /\ prompt.text \in Known
    BY DEF TypeOK, Pages
  <1>2. ToFields(sections) \in Texts
    BY FieldsAreText DEF TypeOK
  <1>3. CASE Reload
    BY <1>3 DEF Reload, Remount, Mutations
  <1>4. CASE \/ \E i \in 1..MaxSections : MoveSection(i) \/ \E s \in Edits : UpdateSection(i, s)
             \/ \E filled \in BOOLEAN : SetValues(filled)
             \/ Discard \/ CloseDialog \/ CompareConflict \/ KeepUnseen \/ TakeSavedVersion
             \/ KeepCompared
    BY <1>4, MutationsStay
    DEF MoveSection, UpdateSection, SetValues, Edited, Discard, CloseDialog, CompareConflict,
        KeepUnseen, TakeSavedVersion, KeepCompared, Rebase, server, view, calls, ghosts
  <1>5. CASE ToggleRefine \/ ToggleHistory
    <2>1. ClosePanel /\ UNCHANGED <<row, stored, phase, seen, blind>>
      BY <1>5 DEF ToggleRefine, ToggleHistory, server, ghosts
    <2>2. ASSUME flight' # None PROVE FlightOK(flight)'
      <3>1. PICK f : f = flight /\ f # None /\ FlightOK(f)
        BY <2>1, <2>2, ClosedType DEF Mutations
      <3>2. FlightOK(f)'
        BY <2>1, <3>1 DEF FlightOK, QueuedOK, Past, Known
      <3>3. /\ flight'.kind = f.kind /\ flight'.fields = f.fields /\ flight'.version = f.version
            /\ flight'.stamp = f.stamp /\ flight'.status = f.status /\ flight'.row = f.row
        BY <2>1, <3>1, ClosedType DEF TypeOK, Tasks
      <3> QED BY <3>2, <3>3 DEF FlightOK, QueuedOK
    <2>3. ASSUME NEW i \in 1..Len(queue') PROVE QueuedOK(queue[i])'
      <3>1. PICK x : x = queue[i] /\ QueuedOK(x)
        BY <2>1, ClosedType DEF Mutations
      <3>2. queue'[i].kind = x.kind /\ queue'[i].fields = x.fields /\ queue'[i].version = x.version
        BY <2>1, <3>1, ClosedType
      <3>3. QueuedOK(x)'
        BY <2>1, <3>1 DEF QueuedOK
      <3> QED BY <3>2, <3>3 DEF QueuedOK
    <2>4. queue' # <<>> => flight' # None /\ flight'.kind # "create"
      BY <2>1, ClosedType DEF Mutations, TypeOK
    <2> QED BY <2>2, <2>3, <2>4 DEF Mutations
  <1>6. CASE Save
    <2>1. UNCHANGED <<row, stored, phase, blind>> /\ seen \subseteq seen'
      BY <1>6 DEF Save, server, view
    <2>2. CASE phase = "ready" /\ Enqueue(Task("save", ToFields(sections), 0))
      <3>1. PICK t \in Tasks : t = Task("save", ToFields(sections), 0)
        BY <1>2, TaskType
      <3>2. ToFields(sections) \in seen'
        BY <1>6, <2>2 DEF Save
      <3>3. QueuedOK(t)'
        BY <3>1, <3>2 DEF QueuedOK, Task
      <3> QED BY <1>1, <2>1, <2>2, <3>1, <3>3, EnqueueMutations
    <2>3. CASE UNCHANGED <<flight, queue>>
      BY <2>1, <2>3, MutationsStay
    <2> QED BY <1>6, <2>2, <2>3 DEF Save
  <1>7. CASE CreatePrompt
    <2>1. /\ flight' = [Task("create", ToFields(sections), 0) EXCEPT !.status = "wait"]
          /\ ToFields(sections) \in seen' /\ phase' = phase /\ phase = "new" /\ queue' = queue
      BY <1>7 DEF CreatePrompt, Pages, view
    <2>2. flight'.kind = "create" /\ flight'.fields = ToFields(sections) /\ flight'.status = "wait"
      BY <2>1 DEF Task
    <2>3. queue = <<>>
      BY <2>1 DEF Mutations, FlightOK
    <2> QED BY <2>1, <2>2, <2>3 DEF Mutations, FlightOK
  <1>8. ASSUME phase = "ready",
               NEW kind \in {"meta", "restore"}, NEW v \in Nat, Enqueue(Task(kind, <<>>, v)),
               kind = "restore" => v \in 1..Len(stored),
               UNCHANGED <<row, stored, phase, seen, blind>>
         PROVE  Mutations'
    <2>1. PICK t \in Tasks : t = Task(kind, <<>>, v)
      BY TaskType
    <2>2. QueuedOK(t)'
      BY <1>8, <2>1 DEF QueuedOK, Task
    <2> QED BY <1>1, <1>8, <2>1, <2>2, EnqueueMutations
  <1>9. CASE Rename \/ MarkKnownGood \/ MoveToFolder
    BY <1>8, <1>9 DEF Rename, MarkKnownGood, MoveToFolder, Details, server, view, ghosts
  <1>10. ASSUME NEW v \in 1..Len(stored), Restore(v) PROVE Mutations'
    <2>1. v \in Nat
      BY DEF TypeOK
    <2> QED BY <1>8, <1>10, <2>1 DEF Restore, server, view, ghosts
  <1> QED BY <1>3, <1>4, <1>5, <1>6, <1>7, <1>9, <1>10 DEF User

(* The row is only ever replaced, by a newer one once a page shows it. *)
LEMMA RowMoves ==
  ASSUME TypeOK, Mutations, Pages, Server \/ Others
  PROVE  /\ UNCHANGED <<phase, prompt, latest, versions, conflict, panel, dialog, saving, seen, blind,
                        gets>>
         /\ phase # "new" => /\ row \in Row /\ row' \in Row
                             /\ row' = row \/ row'.stamp = row.stamp + 1
         /\ phase = "new" /\ row' # None => row'.text \in seen
  <1>1. CASE ServerCreate
    <2>1. phase = "new" /\ flight.fields \in seen /\ row'.text = flight.fields
      BY <1>1 DEF ServerCreate, Handling, Mutations, FlightOK
    <2> QED BY <1>1, <2>1 DEF ServerCreate, Handled, view, clash, ghosts
  <1>2. CASE ServerUpdate
    <2>1. phase = "ready" /\ row \in Row
      BY <1>2, ReadyHasPrompt DEF ServerUpdate, Handling
    <2>2. flight.kind = "save" => flight.fields \in Texts
      BY <1>2 DEF ServerUpdate, Handling, Mutations, FlightOK, QueuedOK, TypeOK
    <2>3. row' = row \/ (row' \in Row /\ row'.stamp = row.stamp + 1)
      BY <1>2, <2>1, <2>2 DEF ServerUpdate, Handling, Write, Row, server
    <2> QED BY <1>2, <2>1, <2>3 DEF ServerUpdate, Handled, view, clash, ghosts
  <1>3. CASE ServerRestore
    <2>1. phase = "ready" /\ row \in Row /\ flight.version \in 1..Len(stored)
      BY <1>3, ReadyHasPrompt
      DEF ServerRestore, Handling, Mutations, FlightOK, QueuedOK
    <2>2. stored[flight.version] \in Texts
      BY <2>1 DEF TypeOK
    <2>3. row' \in Row /\ row'.stamp = row.stamp + 1
      BY <1>3, <2>1, <2>2 DEF ServerRestore, Write, Row
    <2> QED BY <1>3, <2>1, <2>3 DEF ServerRestore, Handled, view, clash, ghosts
  <1>4. CASE ServerFail
    BY <1>4 DEF ServerFail, server, view, clash, TypeOK, Pages
  <1>5. CASE Others
    <2>1. PICK w \in OthersTexts \cup {row.text} : row # None /\ ForeignSave(w)
      BY <1>5 DEF Others
    <2>2. row \in Row /\ w \in Texts
      BY <2>1, InputsAssumption DEF TypeOK, Row
    <2>3. row' \in Row /\ row'.stamp = row.stamp + 1
      BY <2>1, <2>2 DEF ForeignSave, Write, Row
    <2> QED BY <2>1, <2>2, <2>3 DEF ForeignSave, view, clash, calls
  <1> QED BY <1>1, <1>2, <1>3, <1>4, <1>5 DEF Server

(* Reads in progress, and what they bring. *)
LEMMA NextReads ==
  ASSUME TypeOK, Mutations, Reads, Pages, [Next]_vars
  PROVE  Reads'
  <1>1. CASE Server \/ Others
    <2>1. UNCHANGED <<phase, gets>>
      BY <1>1, RowMoves
    <2>2. CASE phase = "new"
      BY <2>1, <2>2 DEF Reads, GetKinds
    <2>3. CASE phase # "new"
      <3>1. row \in Row /\ row' \in Row /\ (row' = row \/ row'.stamp = row.stamp + 1)
        BY <1>1, <2>3, RowMoves
      <3>2. ASSUME NEW k \in GetKinds, gets'[k].status = "ok" PROVE Past(gets[k].row)'
        <4>1. PICK r : r = gets[k].row /\ Past(r)
          BY <2>1, <3>2 DEF Reads
        <4>2. Past(r)' /\ gets'[k].row = r
          BY <2>1, <3>1, <4>1, PastStays
        <4> QED BY <4>2 DEF Past
      <3> QED BY <2>1, <3>2 DEF Reads
    <2> QED BY <2>2, <2>3
  <1>2. CASE ServerReads
    <2>1. PICK k \in GetKinds : ServerRead(k) \/ ReadFails(k)
      BY <1>2 DEF ServerReads
    <2>2. /\ UNCHANGED <<row, phase>> /\ gets[k].status = "wait"
          /\ \A j \in GetKinds \ {k} : gets'[j] = gets[j]
          /\ gets'[k].status = "error" \/ (gets'[k].status = "ok" /\ gets'[k].row = row)
      BY <2>1 DEF ServerRead, ReadFails, server, view, TypeOK
    <2>3. phase # "new"
      BY <2>2 DEF Reads, GetKinds
    <2>4. row \in Row /\ row.stamp \in Nat
      BY <2>3 DEF Pages, TypeOK, Row
    <2> QED BY <2>2, <2>4 DEF Reads, Past, GetKinds
  <1>3. ASSUME UNCHANGED <<row, phase, gets>> PROVE Reads'
    BY <1>3 DEF Reads, Past
  <1>4. ASSUME NEW k \in GetKinds, UNCHANGED row, gets' = [gets EXCEPT ![k] = Idle],
               k = "load" \/ phase' = phase, \A j \in {"compare", "keep", "take"} : gets[j].status = "idle" \/ phase' = phase
        PROVE  Reads'
    BY <1>4 DEF Reads, Past, TypeOK, GetKinds, Idle
  <1>5. CASE Load \/ LoadFails
    <2>1. phase = "loading" /\ row' = row /\ gets' = [gets EXCEPT !["load"] = Idle]
      BY <1>5 DEF Load, LoadFails, server
    <2>2. \A j \in {"compare", "keep", "take"} : gets[j].status = "idle"
      BY <2>1 DEF Reads
    <2> QED BY <1>4, <2>1, <2>2 DEF GetKinds
  <1>6. CASE CompareAnswer \/ KeepAnswer \/ TakeAnswer \/ \E k \in GetKinds : ConflictReadFails(k)
    BY <1>4, <1>6
    DEF CompareAnswer, KeepAnswer, TakeAnswer, ConflictReadFails, Rebase, server, view, GetKinds
  <1>7. CASE CompareConflict \/ KeepUnseen \/ TakeSavedVersion
    <2>1. phase = "ready" /\ UNCHANGED <<row, phase>>
      BY <1>7 DEF CompareConflict, KeepUnseen, TakeSavedVersion, CompareOffered, Pages, server, view
    <2>2. \E k \in {"compare", "keep", "take"} : gets' = [gets EXCEPT ![k] = Waiting]
      BY <1>7 DEF CompareConflict, KeepUnseen, TakeSavedVersion, Fetch
    <2> QED BY <2>1, <2>2 DEF Reads, Past, TypeOK, GetKinds, Waiting
  <1>8. CASE CreateAnswer
    BY <1>8 DEF CreateAnswer, StartLoading, Remount, Reads, GetKinds, Waiting, Idle
  <1>9. CASE Reload
    <2>1. \A k \in {"compare", "keep", "take"} : gets'[k].status = "idle"
      BY <1>9 DEF Reload, Remount, GetKinds, Idle
    <2>2. gets'["load"].status # "ok" /\ (gets'["load"].status # "idle" => phase' = "loading")
      <3>1. CASE phase = "new"
        <4>1. gets' = [k \in GetKinds |-> IF k = "load" THEN Idle ELSE Idle]
          BY <1>9, <3>1 DEF Reload, Remount
        <4> QED BY <4>1 DEF GetKinds, Idle
      <3>2. CASE phase # "new"
        <4>1. phase' = "loading" /\ gets' = [k \in GetKinds |-> IF k = "load" THEN Waiting ELSE Idle]
          BY <1>9, <3>2 DEF Reload, Remount, StartLoading
        <4> QED BY <4>1 DEF GetKinds, Waiting
      <3> QED BY <3>1, <3>2
    <2> QED BY <2>1, <2>2 DEF Reads, GetKinds
  <1>10. CASE CreateFails \/ VersionsAnswer
    BY <1>3, <1>10 DEF CreateFails, VersionsAnswer, server, view, calls
  <1>11. CASE SaveAnswer \/ MetaAnswer \/ RestoreAnswer \/ MutationFails
    BY <1>3, <1>11, AnswerBrings
  <1>12. CASE \/ \E i \in 1..MaxSections : MoveSection(i) \/ \E s \in Edits : UpdateSection(i, s)
              \/ \E filled \in BOOLEAN : SetValues(filled)
              \/ Discard \/ CloseDialog \/ KeepCompared \/ UNCHANGED vars
    BY <1>3, <1>12
    DEF MoveSection, UpdateSection, SetValues, Edited, Discard, CloseDialog, KeepCompared, Rebase,
        vars, server, view, calls
  <1>13. CASE \/ ToggleRefine \/ ToggleHistory \/ Save \/ CreatePrompt
              \/ Rename \/ MarkKnownGood \/ MoveToFolder
              \/ \E v \in 1..Len(stored) : Restore(v)
    BY <1>3, <1>13
    DEF ToggleRefine, ToggleHistory, Save, CreatePrompt, Rename, MarkKnownGood, MoveToFolder,
        Details, Restore, server, view
  <1> QED BY <1>1, <1>2, <1>5, <1>6, <1>7, <1>8, <1>9, <1>10, <1>11, <1>12, <1>13
          DEF Next, User, Answer, ReadAnswer

(* What the page shows and works on. *)
LEMMA NextPages ==
  ASSUME TypeOK, TypeOK', Mutations, Reads, Pages, DraftsKept, [Next]_vars
  PROVE  Pages'
  <1>1. CASE Server \/ Others
    <2>1. UNCHANGED <<phase, prompt, latest, versions, conflict, panel, dialog, saving, seen, blind>>
      BY <1>1, RowMoves
    <2>2. CASE phase = "new"
      <3>1. row' # None => row'.text \in seen
        BY <1>1, <2>2, RowMoves
      <3> QED BY <2>1, <2>2, <3>1 DEF Pages
    <2>3. CASE phase # "new"
      <3>1. row \in Row /\ row' \in Row /\ (row' = row \/ row'.stamp = row.stamp + 1)
        BY <1>1, <2>3, RowMoves
      <3>2. \A r : Past(r) => Past(r)'
        BY <3>1, PastStays
      <3>3. prompt # None => Past(prompt)'
        BY <2>1, <3>2 DEF Pages, Past
      <3>4. latest # None => Past(latest)'
        BY <2>1, <3>2 DEF Pages, Past
      <3> QED BY <2>1, <2>3, <3>1, <3>3, <3>4, NoneAssumption DEF Pages, Known
    <2> QED BY <2>2, <2>3
  <1>2. CASE SaveAnswer \/ MetaAnswer \/ RestoreAnswer \/ MutationFails
    <2>1. prompt' # None
      BY <1>2, AnswerBrings, NoneAssumption
    <2>2. /\ latest' = latest \/ latest' = None
          /\ conflict' => conflict \/ phase = "ready"
          /\ panel' = panel /\ dialog' = dialog /\ phase = "ready"
      BY <1>2, AnswerBrings
      DEF SaveAnswer, MetaAnswer, RestoreAnswer, MutationFails, ReportError, clash
    <2> QED BY <1>2, <2>1, <2>2, AnswerBrings, PagesStay
  <1>3. CASE CreateAnswer
    <2>1. row # None
      BY <1>3 DEF CreateAnswer, Arrived, Mutations, FlightOK
    <2> QED BY <1>3, <2>1 DEF CreateAnswer, StartLoading, Remount, Pages, server
  <1>4. CASE Reload
    <2>1. UNCHANGED <<row, seen, blind>> /\ prompt' = None /\ versions' = 0 /\ latest' = None
          /\ ~conflict' /\ ~dialog' /\ panel' # "history" /\ saving' = "no"
          /\ ((phase = "new" /\ phase' = "new") \/ (phase # "new" /\ phase' = "loading"))
      BY <1>4 DEF Reload, HydrateNew, StartLoading, Remount, server
    <2> QED BY <2>1 DEF Pages
  <1>5. CASE Load
    <2>1. /\ phase = "loading" /\ phase' = "ready" /\ row' = row /\ gets["load"].status = "ok"
          /\ prompt' = gets["load"].row /\ seen \subseteq seen' /\ blind' = blind
          /\ UNCHANGED <<latest, conflict, panel, dialog>>
      BY <1>5 DEF Load, server, clash
    <2>2. Past(prompt')
      BY <2>1 DEF Reads, GetKinds
    <2>3. prompt'.text \in Known'
      BY <1>5, <2>1 DEF Load, DraftIsCurrent, DraftsKept, Known
    <2>4. latest = None /\ ~conflict /\ panel # "history" /\ ~dialog
      BY <2>1 DEF Pages
    <2>5. prompt' # None
      BY <2>2, NoneAssumption DEF Past
    <2> QED BY <2>1, <2>2, <2>3, <2>4, <2>5 DEF Pages, Past
  <1>6. CASE LoadFails
    <2>1. /\ phase = "loading" /\ phase' = "failed" /\ UNCHANGED <<row, prompt, latest, conflict, panel, dialog, saving, seen, blind>>
      BY <1>6 DEF LoadFails, server, clash, ghosts
    <2> QED BY <2>1 DEF Pages
  <1>7. CASE CompareAnswer
    <2>1. phase = "ready" /\ Past(latest') /\ latest'.text \in Known'
      BY <1>7 DEF CompareAnswer, Reads, GetKinds, Known
    <2> QED BY <1>7, <2>1, PagesStay DEF CompareAnswer, server, view
  <1>8. CASE KeepAnswer \/ TakeAnswer
    <2>1. phase = "ready" /\ Past(prompt') /\ prompt'.text \in Known'
      BY <1>8 DEF KeepAnswer, TakeAnswer, Rebase, Reads, GetKinds, Known
    <2>2. prompt' # None
      BY <2>1, NoneAssumption DEF Past
    <2>3. UNCHANGED <<row, phase, panel, dialog, saving, latest>> /\ ~conflict'
          /\ seen \subseteq seen' /\ blind \subseteq blind'
      BY <1>8 DEF KeepAnswer, TakeAnswer, Rebase, DiscardTo, server
    <2> QED BY <2>1, <2>2, <2>3, PagesStay
  <1>9. CASE KeepCompared
    <2>1. phase = "ready" /\ Past(prompt') /\ prompt'.text \in Known' /\ prompt' # None
      BY <1>9 DEF KeepCompared, Rebase, Pages, ghosts, Known
    <2> QED BY <1>9, <2>1, PagesStay DEF KeepCompared, Rebase, server, ghosts
  <1>10. CASE VersionsAnswer
    <2>1. phase = "ready"
      BY <1>10 DEF VersionsAnswer, Pages
    <2>2. UNCHANGED <<row, phase, prompt, latest, conflict, panel, dialog, seen, blind>> /\ saving' = "no"
      BY <1>10 DEF VersionsAnswer, server, clash, ghosts
    <2> QED BY <2>1, <2>2, PagesStay
  <1>11. CASE \/ ServerReads \/ CreateFails \/ \E k \in GetKinds : ConflictReadFails(k)
              \/ CompareConflict \/ KeepUnseen \/ TakeSavedVersion
              \/ \E i \in 1..MaxSections : MoveSection(i) \/ \E s \in Edits : UpdateSection(i, s)
              \/ \E filled \in BOOLEAN : SetValues(filled)
              \/ CloseDialog \/ UNCHANGED vars
    BY <1>11, PagesStay
    DEF ServerReads, ServerRead, ReadFails, CreateFails, ConflictReadFails, CompareConflict,
        KeepUnseen, TakeSavedVersion, MoveSection, UpdateSection, SetValues, Edited,
        CloseDialog, vars, server, view, clash, calls, ghosts
  <1>12. CASE ToggleRefine \/ ToggleHistory
    <2>1. /\ UNCHANGED <<row, phase, prompt, versions, latest, conflict, dialog, saving, seen, blind>>
          /\ panel' = "history" => phase = "ready"
      BY <1>12 DEF ToggleRefine, ToggleHistory, server, clash, ghosts
    <2> QED BY <2>1, PagesStay
  <1>14. CASE Discard
    <2>1. UNCHANGED <<row, phase, prompt, versions, latest, panel, dialog, saving, seen, blind>> /\ ~conflict'
      BY <1>14 DEF Discard, DiscardTo, server, ghosts
    <2> QED BY <2>1, PagesStay
  <1>15. CASE \/ CreatePrompt \/ Rename \/ MarkKnownGood \/ MoveToFolder
              \/ \E v \in 1..Len(stored) : Restore(v)
    <2>1. /\ UNCHANGED <<row, phase, prompt, versions, latest, panel, conflict, dialog>>
          /\ seen \subseteq seen' /\ blind \subseteq blind' /\ saving' \in {saving, "create"}
      BY <1>15
      DEF CreatePrompt, Rename, MarkKnownGood, MoveToFolder, Details, Restore, server, view, clash, ghosts
    <2> QED BY <2>1, PagesStay
  <1>13. CASE Save
    BY <1>13, PagesStay DEF Save, server, clash
  <1> QED BY <1>1, <1>2, <1>3, <1>4, <1>5, <1>6, <1>7, <1>8, <1>9, <1>10, <1>11, <1>12, <1>13,
             <1>14, <1>15
          DEF Next, User, Answer, ReadAnswer

LEMMA NextMutations ==
  ASSUME TypeOK, TypeOK', Mutations, Reads, Pages, [Next]_vars
  PROVE  Mutations'
  <1>1. CASE UNCHANGED vars
    BY <1>1, MutationsStay DEF vars, server, view, calls, ghosts
  <1>2. CASE Next
    BY <1>2, ServerMutations, OutsideMutations, AnswerMutations, UserMutations DEF Next
  <1> QED BY <1>1, <1>2

-----------------------------------------------------------------------------
(* Drafts *)

LEMMA DraftsStay ==
  ASSUME DraftsKept, UNCHANGED <<drafts, phase, prompt, sections, remember, values, crashed>>,
         seen \subseteq seen', blind \subseteq blind'
  PROVE  DraftsKept'
  BY DEF DraftsKept, Known

LEMMA SaveDraftKeeps ==
  ASSUME TypeOK, TypeOK', DraftsKept, Pages', SaveDraft, phase \in {"new", "ready"},
         UNCHANGED <<phase, crashed>>, seen \subseteq seen', blind \subseteq blind'
  PROVE  DraftsKept'
  <1>1. PICK d : d = Persisted(prompt', sections', remember', values')
    OBVIOUS
  <1>2. d # None => /\ d.base = (IF prompt' = None THEN None ELSE prompt'.text)
                    /\ Normalized(d.sections)
    <2>1. prompt' \in Row \cup {None} /\ sections' \in Texts /\ remember' \in BOOLEAN /\ values' \in BOOLEAN
      BY DEF TypeOK
    <2> QED BY <1>1, <2>1, PersistedIsDraft
  <1>3. /\ drafts'["new"] = (IF phase = "new" THEN d ELSE drafts["new"])
        /\ drafts'["saved"] = (IF phase = "new" THEN drafts["saved"] ELSE d)
    BY <1>1 DEF SaveDraft, DraftKey, TypeOK
  <1>4. CASE phase = "new"
    <2>1. prompt' = None
      BY <1>4 DEF Pages
    <2> QED BY <1>1, <1>2, <1>3, <1>4, <2>1 DEF DraftsKept, Known
  <1>5. CASE phase = "ready"
    <2>1. prompt' # None /\ prompt'.text \in Known'
      BY <1>5 DEF Pages
    <2> QED BY <1>1, <1>2, <1>3, <1>5, <2>1 DEF DraftsKept
  <1> QED BY <1>4, <1>5

(* A new prompt comes back from its draft with the draft it came from. *)
LEMMA HydratedDraft ==
  ASSUME NEW s \in Texts, NEW rem \in BOOLEAN, NEW vals \in BOOLEAN,
         NEW d, d = Persisted(None, s, rem, vals), d # None
  PROVE  d = Persisted(None, d.sections, d.remember, d.values)
  <1>1. ToFields(s) \in Texts /\ ToFields(ToFields(s)) = ToFields(s)
        /\ HasContent(ToFields(s)) = HasContent(s)
    BY FieldsAreText DEF Normalized
  <1>2. /\ d = [base |-> None, sections |-> ToFields(s), remember |-> rem, values |-> rem /\ vals]
        /\ HasContent(s) \/ (rem /\ vals)
    BY DEF Persisted, DirtyWith
  <1>3. d.sections = ToFields(s) /\ d.remember = rem /\ d.values = (rem /\ vals)
    BY <1>2
  <1>4. (rem /\ (rem /\ vals)) = (rem /\ vals)
    OBVIOUS
  <1>5. Persisted(None, ToFields(s), rem, rem /\ vals)
          = [base |-> None, sections |-> ToFields(s), remember |-> rem, values |-> rem /\ vals]
    BY <1>1, <1>2, <1>4 DEF Persisted, DirtyWith
  <1> QED BY <1>2, <1>3, <1>5

LEMMA ReloadKeeps ==
  ASSUME TypeOK, Pages, DraftsKept, Reload
  PROVE  /\ DraftsKept'
         /\ phase = "new" /\ dirty => ToFields(sections') = ToFields(sections)
  <1>1. UNCHANGED <<drafts, seen, blind>>
    BY DEF Reload
  <1>2. CASE phase = "new"
    <2>1. PICK d : d = drafts["new"] /\ d = Persisted(None, sections, remember, values)
      BY <1>2 DEF DraftsKept
    <2>2. phase' = "new" /\ sections' = (IF d = None THEN BlankSections ELSE d.sections)
          /\ values' = (d # None /\ d.values) /\ remember' = (d # None /\ d.remember)
      BY <1>2, <2>1 DEF Reload, HydrateNew, RestoreInputs
    <2>3. ASSUME d = None PROVE DraftsKept'
      <3>1. Persisted(None, sections', remember', values') = None
        BY <2>2, <2>3, BlankIsText DEF Persisted, DirtyWith
      <3>2. drafts'["new"] = Persisted(None, sections', remember', values')
        BY <1>1, <2>1, <2>3, <3>1
      <3> QED BY <1>1, <2>1, <2>2, <2>3, <3>2 DEF DraftsKept, Known
    <2>4. ASSUME d # None PROVE DraftsKept'
      <3>1. d.sections = ToFields(sections) /\ d.remember \in BOOLEAN /\ d.values \in BOOLEAN
        BY <2>1, <2>4 DEF Persisted, TypeOK
      <3>2. sections' = d.sections /\ values' = d.values /\ remember' = d.remember
        BY <2>2, <2>4, <3>1
      <3>3. d = Persisted(None, sections', remember', values')
        BY <2>1, <2>4, <3>2, HydratedDraft DEF TypeOK
      <3>4. drafts'["new"] = Persisted(None, sections', remember', values')
        BY <1>1, <2>1, <3>3
      <3> QED BY <1>1, <2>1, <2>2, <3>4 DEF DraftsKept, Known
    <2>5. ASSUME dirty PROVE ToFields(sections') = ToFields(sections)
      <3>1. HasContent(sections)
        BY <1>2, <2>5 DEF dirty, DirtyWith, Pages
      <3>2. d # None
        BY <2>1, <3>1, PersistedIsDraft DEF DirtyWith, TypeOK
      <3>3. sections' = ToFields(sections)
        BY <2>1, <2>2, <3>2 DEF Persisted
      <3> QED BY <3>3, FieldsAreText DEF Normalized, TypeOK
    <2> QED BY <2>3, <2>4, <2>5
  <1>3. CASE phase # "new"
    <2>1. phase' = "loading"
      BY <1>3 DEF Reload, StartLoading
    <2>2. CASE phase = "ready" /\ dirty
      <3>1. PICK d : d = drafts["saved"] /\ d = Persisted(prompt, sections, remember, values)
        BY <2>2 DEF DraftsKept
      <3>2. prompt # None
        BY <2>2 DEF Pages
      <3>3. d # None /\ d.base = prompt.text /\ d.sections = ToFields(sections) /\ Normalized(d.sections)
        BY <2>2, <3>1, <3>2, PersistedIsDraft DEF dirty, TypeOK
      <3>4. crashed' = [base |-> prompt.text, sections |-> ToFields(sections)]
        BY <2>2, <3>2 DEF Reload
      <3>5. crashed'.base = d.base /\ crashed'.sections = d.sections
        BY <3>3, <3>4
      <3> QED BY <1>1, <1>3, <2>1, <3>1, <3>3, <3>5 DEF DraftsKept, Known
    <2>3. CASE phase = "ready" /\ ~dirty
      <3>1. crashed' = None
        BY <2>3 DEF Reload
      <3> QED BY <1>1, <1>3, <2>1, <3>1 DEF DraftsKept, Known
    <2>4. CASE phase # "ready"
      <3>1. crashed' = crashed /\ phase \in {"loading", "failed"}
        BY <1>3, <2>4 DEF Reload, TypeOK
      <3> QED BY <1>1, <1>3, <2>1, <3>1 DEF DraftsKept, Known
    <2> QED BY <1>3, <2>2, <2>3, <2>4
  <1> QED BY <1>2, <1>3

LEMMA NextDrafts ==
  ASSUME TypeOK, TypeOK', Mutations, Reads, Pages, Pages', DraftsKept, [Next]_vars
  PROVE  DraftsKept'
  <1>1. CASE ServerReads \/ VersionsAnswer \/ LoadFails
    <2>1. /\ UNCHANGED <<drafts, prompt, sections, remember, values, crashed, seen, blind>>
          /\ phase' = phase \/ (phase = "loading" /\ phase' = "failed")
      BY <1>1 DEF ServerReads, ServerRead, ReadFails, VersionsAnswer, LoadFails, view, work, ghosts
    <2> QED BY <2>1, DraftsStay DEF DraftsKept, Known
  <1>2. CASE Server \/ Others
    BY <1>2, DraftsStay
    DEF Server, ServerCreate, ServerUpdate, ServerRestore, ServerFail, Handled, Others, ForeignSave,
        view, work, ghosts
  <1>3. CASE CreateFails \/ MutationFails \/ CompareAnswer \/ \E k \in GetKinds : ConflictReadFails(k)
    BY <1>3, DraftsStay
    DEF CreateFails, MutationFails, CompareAnswer, ConflictReadFails, view, work, ghosts
  <1>4. CASE CreateAnswer
    <2>1. phase' = "loading" /\ crashed' = None /\ UNCHANGED <<seen, blind>>
      BY <1>4 DEF CreateAnswer, StartLoading
    <2>2. flight.row.text \in Known
      BY <1>4 DEF CreateAnswer, Arrived, Mutations, FlightOK
    <2>3. drafts'["new"] = None
          /\ (drafts'["saved"] = drafts["saved"] \/ drafts'["saved"].base = flight.row.text)
      BY <1>4 DEF CreateAnswer, TypeOK
    <2> QED BY <2>1, <2>2, <2>3 DEF DraftsKept, Known
  <1>5. CASE SaveAnswer \/ MetaAnswer \/ RestoreAnswer
    <2>1. phase = "ready" /\ phase' = phase /\ seen \subseteq seen' /\ blind \subseteq blind'
      BY <1>5, AnswerBrings
    <2>2. SaveDraft /\ crashed' = crashed
      BY <1>5 DEF SaveAnswer, MetaAnswer, RestoreAnswer, ghosts
    <2> QED BY <2>1, <2>2, SaveDraftKeeps
  <1>6. CASE Load
    <2>1. /\ phase' = "ready" /\ crashed' = None /\ remember' = TRUE
          /\ drafts' = [drafts EXCEPT !["saved"] = Persisted(prompt', sections', remember', values')]
          /\ seen \subseteq seen' /\ blind' = blind
      BY <1>6 DEF Load, RestoreInputs
    <2>2. prompt' # None /\ prompt'.text \in Known'
      BY <2>1 DEF Pages
    <2>3. PICK d : d = Persisted(prompt', sections', remember', values')
      OBVIOUS
    <2>4. d # None => d.base = prompt'.text
      BY <2>2, <2>3, PersistedIsDraft DEF TypeOK
    <2>5. drafts'["saved"] = d /\ drafts'["new"] = drafts["new"]
      BY <2>1, <2>3 DEF TypeOK
    <2> QED BY <2>1, <2>2, <2>3, <2>4, <2>5 DEF DraftsKept
  <1>7. CASE Reload
    BY <1>7, ReloadKeeps
  <1>8. CASE KeepAnswer \/ TakeAnswer \/ KeepCompared
    <2>1. phase = "ready" /\ phase' = phase /\ crashed' = crashed /\ seen \subseteq seen' /\ blind \subseteq blind'
      BY <1>8 DEF KeepAnswer, TakeAnswer, KeepCompared, Reads, Pages, GetKinds, ghosts
    <2>2. SaveDraft
      BY <1>8 DEF KeepAnswer, TakeAnswer, KeepCompared, Rebase, DiscardTo, SaveDraft
    <2> QED BY <2>1, <2>2, SaveDraftKeeps
  <1>9. CASE \/ \E i \in 1..MaxSections : MoveSection(i) \/ \E s \in Edits : UpdateSection(i, s)
             \/ \E filled \in BOOLEAN : SetValues(filled)
             \/ Discard
    <2>1. phase \in {"new", "ready"} /\ UNCHANGED <<phase, crashed, seen, blind>>
      BY <1>9 DEF MoveSection, UpdateSection, SetValues, Edited, Discard, Editing, ghosts
    <2>2. SaveDraft
      BY <1>9 DEF MoveSection, UpdateSection, SetValues, Edited, Discard, DiscardTo, SaveDraft
    <2> QED BY <2>1, <2>2, SaveDraftKeeps
  <1>10. CASE ToggleRefine \/ ToggleHistory \/ CloseDialog \/ Save \/ CreatePrompt
    BY <1>10, DraftsStay
    DEF ToggleRefine, ToggleHistory, CloseDialog, Save, CreatePrompt, view, work, ghosts
  <1>11. CASE \/ Rename \/ MarkKnownGood \/ MoveToFolder \/ \E v \in 1..Len(stored) : Restore(v)
              \/ CompareConflict \/ KeepUnseen \/ TakeSavedVersion \/ UNCHANGED vars
    BY <1>11, DraftsStay
    DEF Rename, MarkKnownGood, MoveToFolder, Details, Restore, CompareConflict, KeepUnseen,
        TakeSavedVersion, vars, view, work, ghosts
  <1> QED BY <1>1, <1>2, <1>3, <1>4, <1>5, <1>6, <1>7, <1>8, <1>9, <1>10, <1>11
          DEF Next, User, Answer, ReadAnswer

-----------------------------------------------------------------------------
(* Alone with the prompt, the page keeps up with its stamp *)

LEMMA AloneStays ==
  ASSUME Alone, UNCHANGED <<row, phase, prompt, flight, gets, latest, disturbed>>, conflict' => conflict
  PROVE  Alone'
  BY DEF Alone

(* A mutation that goes out at once, and one that waits. *)
LEMMA EnqueueAlone ==
  ASSUME TypeOK, Alone, phase = "ready", prompt \in Row, NEW t \in Tasks, Enqueue(t),
         UNCHANGED <<row, phase, prompt, gets, latest, conflict, disturbed>>
  PROVE  Alone'
  <1>1. CASE flight # None
    BY <1>1, AloneStays DEF Enqueue
  <1>2. CASE flight = None
    <2>1. PICK f : f = Send(t, prompt)
      OBVIOUS
    <2>2. f.stamp = prompt.stamp /\ f.status = "wait"
      BY <2>1, SendType
    <2>3. flight' = f
      BY <1>2, <2>1 DEF Enqueue
    <2> QED BY <1>2, <2>2, <2>3 DEF Alone
  <1> QED BY <1>1, <1>2

(* The mutation behind one that settled goes out with the stamp it brought. *)
LEMMA DequeueAlone ==
  ASSUME TypeOK, Alone, Dequeue, prompt' \in Row, ~disturbed => prompt'.stamp = row.stamp,
         UNCHANGED <<row, gets, disturbed>>, gets["load"].status # "ok",
         ~disturbed => ~conflict' /\ latest' = None
  PROVE  Alone'
  <1>1. CASE queue = <<>>
    <2>1. flight' = None
      BY <1>1 DEF Dequeue
    <2> QED BY <2>1 DEF Alone
  <1>2. CASE queue # <<>>
    <2>1. PICK t \in Tasks : t = Head(queue)
      BY <1>2 DEF TypeOK
    <2>2. PICK f : f = Send(t, prompt')
      OBVIOUS
    <2>3. f.stamp = prompt'.stamp /\ f.status = "wait"
      BY <2>2, SendType
    <2>4. flight' = f
      BY <1>2, <2>1, <2>2 DEF Dequeue
    <2> QED BY <2>3, <2>4 DEF Alone
  <1> QED BY <1>1, <1>2

LEMMA ServerAlone ==
  ASSUME TypeOK, TypeOK', Mutations, Reads, Pages, Alone, Server
  PROVE  Alone'
  <1>0. flight \in Tasks /\ flight # None /\ FlightOK(flight)
    BY NoneAssumption
    DEF Server, ServerCreate, ServerUpdate, ServerRestore, ServerFail, Handling, TypeOK, Mutations
  <1>1. phase \in {"new", "ready"}
    BY <1>0 DEF FlightOK
  <1>2. gets["load"].status = "idle"
    BY <1>1 DEF Reads, TypeOK
  <1>3. UNCHANGED <<phase, prompt, gets, latest, conflict>>
    BY DEF Server, ServerCreate, ServerUpdate, ServerRestore, ServerFail, Handled, view, clash
  <1>4. CASE flight' = [flight EXCEPT !.status = "ok", !.row = row'] /\ disturbed' = disturbed
    <2>1. flight'.status = "ok" /\ flight'.row = row'
      BY <1>0, <1>4 DEF Tasks
    <2>2. disturbed' = disturbed
      BY <1>4
    <2>3. flight' \in Tasks
      BY <1>0, <1>4 DEF Tasks, TypeOK
    <2> QED BY <1>2, <1>3, <2>1, <2>2, <2>3, NoneAssumption DEF Alone
  <1>5. CASE ServerCreate \/ ServerRestore
    BY <1>4, <1>5 DEF ServerCreate, ServerRestore, Answered, Handled, ghosts
  <1>6. CASE ServerUpdate
    <2>1. CASE flight.stamp = row.stamp
      BY <1>4, <1>6, <2>1 DEF ServerUpdate, Answered, Handled, ghosts
    <2>2. CASE flight.stamp # row.stamp
      <3>0. flight.status = "wait" /\ flight.kind # "create" /\ flight # None
        BY <1>6 DEF ServerUpdate, Handling
      <3>1. disturbed
        BY <2>2, <3>0 DEF Alone
      <3>2. disturbed' = disturbed
        BY <1>6 DEF ServerUpdate, Handled, ghosts
      <3> QED BY <3>1, <3>2 DEF Alone
    <2> QED BY <2>1, <2>2
  <1>7. CASE ServerFail
    <2>1. flight' = [flight EXCEPT !.status = "error"] /\ row' = row
          /\ disturbed' = (disturbed \/ flight.status = "ok")
      BY <1>7 DEF ServerFail, server
    <2>2. flight'.status = "error"
      BY <1>0, <2>1 DEF Tasks
    <2> QED BY <1>2, <1>3, <2>1, <2>2 DEF Alone
  <1> QED BY <1>5, <1>6, <1>7 DEF Server

LEMMA AnswerAlone ==
  ASSUME TypeOK, TypeOK', Mutations, Reads, Pages, Alone, Answer
  PROVE  Alone'
  <1>1. CASE CreateAnswer
    <2>1. /\ phase' = "loading" /\ flight' = None /\ ~conflict' /\ latest' = None
          /\ gets' = [k \in GetKinds |-> IF k = "load" THEN Waiting ELSE Idle]
      BY <1>1 DEF CreateAnswer, StartLoading, Remount
    <2> QED BY <2>1 DEF Alone, GetKinds, Waiting, Idle
  <1>2. CASE CreateFails
    <2>1. phase = "new"
      BY <1>2 DEF CreateFails, Arrived, Mutations, FlightOK
    <2>2. flight' = None /\ UNCHANGED <<row, phase, gets, conflict, latest, disturbed>>
      BY <1>2 DEF CreateFails, server, view, clash, ghosts
    <2> QED BY <2>1, <2>2 DEF Alone
  <1>3. CASE SaveAnswer \/ MetaAnswer \/ RestoreAnswer \/ MutationFails
    <2>1. phase = "ready" /\ prompt' \in Row /\ UNCHANGED <<row, gets>> /\ Dequeue
      BY <1>3, AnswerBrings
    <2>2. gets["load"].status # "ok" /\ disturbed' = disturbed
      BY <1>3, <2>1
      DEF SaveAnswer, MetaAnswer, RestoreAnswer, MutationFails, Reads, TypeOK, ghosts
    <2>3. ASSUME ~disturbed PROVE prompt'.stamp = row.stamp /\ ~conflict' /\ latest' = None
      <3>1. CASE SaveAnswer \/ MetaAnswer \/ RestoreAnswer
        BY <2>3, <3>1 DEF SaveAnswer, MetaAnswer, RestoreAnswer, Arrived, ApplyPrompt, Alone, clash
      <3>2. CASE MutationFails
        <4>1. flight # None /\ flight.status = "error" /\ prompt' = prompt /\ ReportError
          BY <2>3, <3>2 DEF MutationFails, Alone
        <4> QED BY <2>1, <2>3, <4>1 DEF Alone, ReportError, clash
      <3> QED BY <1>3, <3>1, <3>2
    <2> QED BY <2>1, <2>2, <2>3, DequeueAlone
  <1> QED BY <1>1, <1>2, <1>3 DEF Answer

LEMMA NextAlone ==
  ASSUME TypeOK, TypeOK', Mutations, Reads, Pages, Alone, [Next]_vars
  PROVE  Alone'
  <1>1. CASE Server \/ Answer
    BY <1>1, ServerAlone, AnswerAlone
  <1>2. CASE Others
    BY <1>2 DEF Others, ForeignSave, Alone
  <1>3. CASE ServerReads
    <2>1. PICK k \in GetKinds : ServerRead(k) \/ ReadFails(k)
      BY <1>3 DEF ServerReads
    <2>2. /\ UNCHANGED <<row, phase, prompt, flight, latest, conflict, disturbed>> /\ gets[k].status = "wait"
          /\ \A j \in GetKinds \ {k} : gets'[j] = gets[j]
          /\ gets'[k].status = "error" \/ (gets'[k].status = "ok" /\ gets'[k].row = row)
      BY <2>1 DEF ServerRead, ReadFails, server, view, clash, ghosts, TypeOK
    <2> QED BY <2>2 DEF Alone, GetKinds
  <1>4. CASE Load
    <2>1. /\ phase = "loading" /\ gets["load"].status = "ok" /\ prompt' = gets["load"].row
          /\ gets' = [gets EXCEPT !["load"] = Idle]
          /\ UNCHANGED <<row, conflict, latest, flight, disturbed>>
      BY <1>4 DEF Load, server, clash
    <2>2. flight = None
      BY <2>1 DEF Mutations, FlightOK
    <2>3. gets'["load"].status = "idle" /\ \A k \in {"compare", "keep", "take"} : gets'[k] = gets[k]
      BY <2>1 DEF TypeOK, GetKinds, Idle
    <2> QED BY <2>1, <2>2, <2>3 DEF Alone
  <1>5. CASE LoadFails
    <2>1. /\ phase = "loading" /\ phase' = "failed" /\ gets' = [gets EXCEPT !["load"] = Idle]
          /\ UNCHANGED <<row, conflict, latest, flight, disturbed>>
      BY <1>5 DEF LoadFails, server, clash, ghosts
    <2>2. flight = None
      BY <2>1 DEF Mutations, FlightOK
    <2>3. gets'["load"].status = "idle" /\ \A k \in {"compare", "keep", "take"} : gets'[k] = gets[k]
      BY <2>1 DEF TypeOK, GetKinds, Idle
    <2> QED BY <2>1, <2>2, <2>3 DEF Alone
  <1>6. CASE \/ CompareAnswer \/ KeepAnswer \/ TakeAnswer \/ \E k \in GetKinds : ConflictReadFails(k)
             \/ KeepCompared \/ CompareConflict \/ KeepUnseen \/ TakeSavedVersion
    <2>1. disturbed
      BY <1>6 DEF CompareAnswer, KeepAnswer, TakeAnswer, ConflictReadFails, KeepCompared,
                  CompareConflict, CompareOffered, KeepUnseen, TakeSavedVersion, Alone, GetKinds
    <2>2. disturbed' = disturbed
      BY <1>6 DEF CompareAnswer, KeepAnswer, TakeAnswer, ConflictReadFails, KeepCompared,
                  CompareConflict, KeepUnseen, TakeSavedVersion, ghosts
    <2> QED BY <2>1, <2>2 DEF Alone
  <1>7. CASE Reload
    <2>1. /\ phase' \in {"new", "loading"} /\ flight' = None /\ ~conflict' /\ latest' = None
          /\ \E g \in {Idle, Waiting} : gets' = [k \in GetKinds |-> IF k = "load" THEN g ELSE Idle]
      BY <1>7 DEF Reload, HydrateNew, StartLoading, Remount
    <2> QED BY <2>1 DEF Alone, GetKinds, Waiting, Idle
  <1>8. CASE \/ \E i \in 1..MaxSections : MoveSection(i) \/ \E s \in Edits : UpdateSection(i, s)
             \/ \E filled \in BOOLEAN : SetValues(filled)
             \/ Discard \/ CloseDialog \/ VersionsAnswer \/ UNCHANGED vars
    <2>1. CASE \/ \E i \in 1..MaxSections : MoveSection(i) \/ \E s \in Edits : UpdateSection(i, s)
               \/ \E filled \in BOOLEAN : SetValues(filled)
      BY <2>1, AloneStays
      DEF MoveSection, UpdateSection, SetValues, Edited, server, clash, calls, ghosts
    <2>2. CASE Discard
      BY <2>2, AloneStays DEF Discard, DiscardTo, server, calls, ghosts
    <2>3. CASE CloseDialog \/ VersionsAnswer \/ UNCHANGED vars
      BY <2>3, AloneStays DEF CloseDialog, VersionsAnswer, vars, server, view, clash, calls, ghosts
    <2> QED BY <1>8, <2>1, <2>2, <2>3
  <1>9. CASE ToggleRefine \/ ToggleHistory
    <2>1. ClosePanel /\ UNCHANGED <<row, phase, prompt, gets, conflict, latest, disturbed>>
      BY <1>9 DEF ToggleRefine, ToggleHistory, server, clash, ghosts
    <2>2. flight' # None <=> flight # None
      BY <2>1, ClosedType
    <2>3. flight # None => /\ flight'.kind = flight.kind /\ flight'.stamp = flight.stamp
                           /\ flight'.status = flight.status /\ flight'.row = flight.row
      BY <2>1, ClosedType
    <2> QED BY <2>1, <2>2, <2>3 DEF Alone
  <1>10. phase = "ready" => prompt \in Row
    BY DEF TypeOK, Pages
  <1>11. CASE Save
    <2>1. UNCHANGED <<row, phase, prompt, gets, latest, conflict, disturbed>>
      BY <1>11 DEF Save, server, clash
    <2>2. ToFields(sections) \in Texts
      BY FieldsAreText DEF TypeOK
    <2>3. CASE phase = "ready" /\ Enqueue(Task("save", ToFields(sections), 0))
      BY <1>10, <2>1, <2>2, <2>3, TaskType, EnqueueAlone
    <2>4. CASE flight' = flight
      BY <2>1, <2>4, AloneStays
    <2> QED BY <1>11, <2>3, <2>4 DEF Save
  <1>12. CASE CreatePrompt
    <2>1. phase = "new" /\ UNCHANGED <<row, phase, prompt, gets, latest, conflict, disturbed>>
          /\ flight' = [Task("create", ToFields(sections), 0) EXCEPT !.status = "wait"]
      BY <1>12 DEF CreatePrompt, Pages, server, view, clash
    <2>2. flight'.kind = "create" /\ flight'.status = "wait"
      BY <2>1 DEF Task
    <2> QED BY <2>1, <2>2 DEF Alone
  <1>13. ASSUME phase = "ready", NEW kind \in {"meta", "restore"}, NEW v \in Nat,
                Enqueue(Task(kind, <<>>, v)),
                UNCHANGED <<row, phase, prompt, gets, latest, conflict, disturbed>>
         PROVE  Alone'
    BY <1>10, <1>13, TaskType, EnqueueAlone
  <1>14. CASE Rename \/ MarkKnownGood \/ MoveToFolder
    BY <1>13, <1>14 DEF Rename, MarkKnownGood, MoveToFolder, Details, server, view, clash, ghosts
  <1>15. ASSUME NEW v \in 1..Len(stored), Restore(v) PROVE Alone'
    <2>1. v \in Nat
      BY DEF TypeOK
    <2> QED BY <1>13, <1>15, <2>1 DEF Restore, server, view, clash, ghosts
  <1> QED BY <1>1, <1>2, <1>3, <1>4, <1>5, <1>6, <1>7, <1>8, <1>9, <1>11, <1>12, <1>14, <1>15
          DEF Next, User, ReadAnswer


-----------------------------------------------------------------------------
(* The invariant, and what it gives *)

LEMMA Step == IInv /\ [Next]_vars => IInv'
  <1> SUFFICES ASSUME IInv, [Next]_vars PROVE IInv'
    OBVIOUS
  <1>0. TypeOK /\ Mutations /\ Reads /\ Pages /\ DraftsKept /\ Alone
    BY DEF IInv
  <1>1. TypeOK'
    BY <1>0, NextType
  <1>2. Mutations' /\ Reads' /\ Pages'
    BY <1>0, <1>1, NextMutations, NextReads, NextPages
  <1>3. DraftsKept' /\ Alone'
    BY <1>0, <1>1, <1>2, NextDrafts, NextAlone
  <1> QED BY <1>1, <1>2, <1>3 DEF IInv

LEMMA Inductive == Spec => []IInv
  BY InitInv, Step, PTL DEF Spec

(* Types are kept, and the tab never conflicts with itself: while nobody    *)
(* else writes and no answer is lost, what is queued behind a mutation goes *)
(* out with the stamp that one brought, and no save meets a 409.            *)
THEOREM EditorInvariantHolds == Spec => []EditorInvariant
  <1>1. IInv => EditorInvariant
    BY DEF IInv, Alone, EditorInvariant, NoSelfConflict
  <1> QED BY <1>1, Inductive, PTL

(* The reading of each step that is not a write: the user learns of texts. *)
LEMMA OnlyLearns ==
  ASSUME ServerReads \/ Answer \/ VersionsAnswer \/ ReadAnswer \/ User
  PROVE  row' = row /\ seen \subseteq seen' /\ blind \subseteq blind'
  <1>1. CASE ServerReads \/ VersionsAnswer
    BY <1>1 DEF ServerReads, ServerRead, ReadFails, VersionsAnswer, server, ghosts
  <1>2. CASE Answer
    BY <1>2 DEF Answer, CreateAnswer, CreateFails, SaveAnswer, MutationFails, MetaAnswer,
                RestoreAnswer, server, ghosts
  <1>3. CASE ReadAnswer
    BY <1>3 DEF ReadAnswer, Load, LoadFails, CompareAnswer, KeepAnswer, TakeAnswer,
                ConflictReadFails, server, ghosts
  <1>4. CASE \/ Reload \/ Discard \/ ToggleRefine \/ ToggleHistory \/ Save \/ CloseDialog \/ CreatePrompt
             \/ \E i \in 1..MaxSections : MoveSection(i) \/ \E s \in Edits : UpdateSection(i, s)
             \/ \E filled \in BOOLEAN : SetValues(filled)
    BY <1>4 DEF Reload, Discard, ToggleRefine, ToggleHistory, Save, CloseDialog, CreatePrompt,
                MoveSection, UpdateSection, SetValues, Edited, server, ghosts
  <1>5. CASE \/ Rename \/ MarkKnownGood \/ MoveToFolder \/ \E v \in 1..Len(stored) : Restore(v)
             \/ CompareConflict \/ KeepCompared \/ KeepUnseen \/ TakeSavedVersion
    BY <1>5 DEF Rename, MarkKnownGood, MoveToFolder, Details, Restore, CompareConflict, KeepCompared,
                KeepUnseen, TakeSavedVersion, server, ghosts
  <1> QED BY <1>1, <1>2, <1>3, <1>4, <1>5 DEF User

LEMMA SharedInit == Init => Shared!Init
  <1> SUFFICES ASSUME Init PROVE Shared!Init
    OBVIOUS
  <1>1. row = None \/ (row.text \in Texts /\ row.by = "other")
    BY InputsAssumption DEF Init
  <1> QED BY <1>1 DEF Init, Shared!Init

(* Every step of the page, the server and the others is a step or a stutter *)
(* of SharedPrompt.                                                         *)
LEMMA SharedStep == IInv /\ IInv' /\ [Next]_vars => [Shared!Next]_(Shared!vars)
  <1> SUFFICES ASSUME IInv, IInv', [Next]_vars PROVE [Shared!Next]_(Shared!vars)
    OBVIOUS
  <1>0. TypeOK /\ TypeOK' /\ Mutations /\ Pages
    BY DEF IInv
  <1>1. ASSUME UNCHANGED <<row, seen, blind>> PROVE [Shared!Next]_(Shared!vars)
    BY <1>1 DEF Shared!vars
  <1>2. ASSUME row' = row, seen \subseteq seen', blind \subseteq blind'
        PROVE  [Shared!Next]_(Shared!vars)
    <2>1. (seen \cup blind)' \subseteq Texts
      BY <1>0 DEF TypeOK
    <2> QED BY <1>2, <2>1 DEF Shared!Next, Shared!Learn
  <1>3. ASSUME row' \in Row, UNCHANGED <<seen, blind>>,
               \/ row = None /\ row'.by = "own"
               \/ row # None /\ row.text \in Known /\ row'.by = "own"
               \/ row # None /\ row'.by \in {"other", "restore"}
               \/ row # None /\ row'.text = row.text /\ row'.by = row.by
        PROVE  [Shared!Next]_(Shared!vars)
    <2>1. row' # None /\ row'.text \in Texts
      BY <1>3, NoneAssumption DEF Row
    <2>2. row # None => row.text # None
      BY <1>0, NoneAssumption DEF TypeOK, Row
    <2>3. CASE row = None
      BY <1>3, <2>1, <2>3 DEF Shared!Next, Shared!Create
    <2>4. CASE row # None /\ row.text \in Known /\ row'.by = "own"
      BY <1>3, <2>1, <2>4 DEF Shared!Next, Shared!OwnSave, Known
    <2>5. CASE row # None /\ row'.by = "other"
      BY <1>3, <2>1, <2>5, <2>2 DEF Shared!Next, Shared!OtherSave
    <2>6. CASE row # None /\ row'.by = "restore"
      BY <1>3, <2>1, <2>6, <2>2 DEF Shared!Next, Shared!Restore
    <2>7. CASE row # None /\ row'.text = row.text /\ row'.by = row.by
      BY <1>3, <2>1, <2>7 DEF Shared!vars
    <2> QED BY <1>3, <2>3, <2>4, <2>5, <2>6, <2>7
  <1>4. CASE ServerCreate
    <2>1. row' = [text |-> flight.fields, stamp |-> 0, by |-> "own"] /\ phase = "new"
          /\ UNCHANGED <<seen, blind>> /\ flight.fields \in Texts
      BY <1>0, <1>4 DEF ServerCreate, Handling, Handled, ghosts, Mutations, FlightOK, TypeOK
    <2>2. row' \in Row /\ row'.by = "own"
      BY <2>1 DEF Row
    <2>3. row # None => row.text \in Known
      BY <1>0, <2>1 DEF Pages, Known
    <2> QED BY <1>3, <2>1, <2>2, <2>3
  <1>5. CASE ServerUpdate
    <2>1. UNCHANGED <<seen, blind>> /\ row \in Row /\ flight # None /\ flight.status = "wait"
          /\ flight.kind \in {"save", "meta"}
      BY <1>0, <1>5, ReadyHasPrompt DEF ServerUpdate, Handling, Handled, ghosts
    <2>2. CASE flight.stamp # row.stamp
      BY <1>1, <1>5, <2>1, <2>2 DEF ServerUpdate, server
    <2>3. CASE flight.stamp = row.stamp
      <3>1. row # None /\ row' \in Row
        <4>1. row' # None
          BY <1>0, <2>1, RowMoves, <1>5, NoneAssumption DEF Server, Pages, Mutations, FlightOK
        <4> QED BY <1>0, <2>1, <4>1, NoneAssumption DEF TypeOK
      <3>2. row.text \in Known
        BY <1>0, <2>1, <2>3 DEF Mutations, FlightOK
      <3>3. row'.by = "own" \/ (row'.text = row.text /\ row'.by = row.by)
        BY <1>5, <2>1, <2>3 DEF ServerUpdate, Write
      <3> QED BY <1>3, <2>1, <3>1, <3>2, <3>3
    <2> QED BY <2>2, <2>3
  <1>6. CASE ServerRestore
    <2>1. UNCHANGED <<seen, blind>> /\ row \in Row /\ flight # None /\ phase = "ready"
          /\ row'.by = "restore"
      BY <1>0, <1>6, ReadyHasPrompt DEF ServerRestore, Handling, Handled, ghosts, Write
    <2>2. row' \in Row
      BY <1>0, <1>6, <2>1, RowMoves DEF Server
    <2> QED BY <1>3, <2>1, <2>2, NoneAssumption
  <1>7. CASE ServerFail
    BY <1>1, <1>7 DEF ServerFail, server
  <1>8. CASE Others
    <2>1. PICK w \in OthersTexts \cup {row.text} : row # None /\ ForeignSave(w)
      BY <1>8 DEF Others
    <2>2. UNCHANGED <<seen, blind>> /\ row'.text = w
          /\ row'.by = (IF w = row.text THEN row.by ELSE "other")
      BY <2>1 DEF ForeignSave, Write
    <2>3. row' \in Row
      BY <1>0, <1>8, <2>1, RowMoves DEF ForeignSave
    <2> QED BY <1>3, <2>1, <2>2, <2>3
  <1>9. CASE UNCHANGED vars
    BY <1>1, <1>9 DEF vars, server, ghosts
  <1> QED BY <1>2, <1>4, <1>5, <1>6, <1>7, <1>8, <1>9, OnlyLearns DEF Next, Server

(* The editor implements SharedPrompt: of the stored texts, its saves replace *)
(* only those its user saw in the editor, wrote there, or accepted to replace *)
(* with Keep my edits.                                                        *)
THEOREM EditorImplementsShared == Spec => OverwritesOnlyKnown
  BY SharedInit, SharedStep, Inductive, PTL DEF Spec, OverwritesOnlyKnown, Shared!Spec

(* A page that went away with unsaved edits shows them again when it comes  *)
(* back, unless the stored text under them was replaced meanwhile.          *)
THEOREM UnsavedEditsReturn == Spec => RecoversEdits
  <1>1. ASSUME IInv, Load, crashed # None, crashed.base = prompt'.text
        PROVE  ToFields(sections') = crashed.sections
    <2>1. PICK d : d = drafts["saved"]
      OBVIOUS
    <2>2. d # None /\ crashed.base = d.base /\ crashed.sections = d.sections
          /\ ToFields(crashed.sections) = crashed.sections
      BY <1>1, <2>1 DEF IInv, DraftsKept, Load, Normalized
    <2>3. d.base = gets["load"].row.text
      BY <1>1, <2>2 DEF Load
    <2>4. sections' = d.sections
      BY <1>1, <2>1, <2>2, <2>3 DEF Load, DraftIsCurrent
    <2> QED BY <2>2, <2>4
  <1>2. ASSUME IInv, Reload, phase = "new", dirty
        PROVE  ToFields(sections') = ToFields(sections)
    BY <1>2, ReloadKeeps DEF IInv
  <1>3. IInv /\ [Next]_vars =>
          [/\ Load /\ crashed # None /\ crashed.base = prompt'.text
                => ToFields(sections') = crashed.sections
           /\ Reload /\ phase = "new" /\ dirty => ToFields(sections') = ToFields(sections)]_vars
    BY <1>1, <1>2
  <1> QED BY <1>3, Inductive, PTL DEF Spec, RecoversEdits

=============================================================================
