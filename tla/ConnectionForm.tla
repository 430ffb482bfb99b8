--------------------------- MODULE ConnectionForm ---------------------------
(***************************************************************************)
(* The form for the user's own AI provider (LLMConnectionForm): a saved    *)
(* connection loaded once, fields edited freely, and a save, a test, a     *)
(* disconnection and a list of models that may be under way together.  A   *)
(* stored key never comes back: a blank key field means the stored one.    *)
(* The base URL, edited and compared like the model, is left out.          *)
(***************************************************************************)
EXTENDS Integers, FiniteSets

CONSTANTS
  Providers,      \* handles of the catalogue
  Workspaced,     \* the provider that takes a workspace ("anthropic")
  KeyNeeded,      \* the providers that require a key
  Curated,        \* provider -> the models the catalogue lists for it, {} for free text
  Models, Keys, Workspaces,   \* what may be typed, "" apart
  BadWorkspaces,  \* those of them that are not workspace ids
  FirstConnections,   \* what may be saved when the form opens
  ServerDefault,  \* whether the operator offers a connection
  MaxSteps,       \* bound: what the user does and the network loses
  None

VARIABLES
  stored,         \* server: the connection, its key included
  conn,           \* the connection last answered; None before that
  form,           \* the fields
  catalogue,      \* the provider whose models are offered, or None
  refs,           \* catalogueRequest and testRequest
  tested,         \* testedSelection, None when blank
  saving, testing,\* isSaving, isTesting
  confirm,        \* confirmDisconnect
  net,            \* requests under way
  vouched,        \* history: the connection the last passed test used
  lost,           \* history: an answer to a save or a disconnection was lost
  raced,          \* history: the provider was changed while a test was under way
  steps

vars == <<stored, conn, form, catalogue, refs, tested, saving, testing, confirm, net, vouched, lost, raced, steps>>

Input == steps < MaxSteps /\ steps' = steps + 1

Blank == [provider |-> None, model |-> "", workspace |-> "", key |-> ""]

(* What the server says of the stored connection: whether there is a key, never the key. *)
Shown(c) == [c EXCEPT !.key = IF c.key = "" THEN "" ELSE "stored"]

-----------------------------------------------------------------------------
(* Requests *)

FreeId == CHOOSE i \in 1..(Cardinality(net) + 1) : \A r \in net : r.id # i

(* seq is the counter the caller remembers; about is what it captured: the form and what it saw as saved. *)
Request(kind, body, seq, about) ==
  [id |-> FreeId, kind |-> kind, body |-> body, seq |-> seq, about |-> about, state |-> "sent", answer |-> None]

Of(kind) == {r \in net : r.kind = kind}

Answered(r, state, answer) == net' = (net \ {r}) \cup {[r EXCEPT !.state = state, !.answer = answer]}

(* The connection form values stand for: a blank key is the stored one, for the same provider only. *)
Effective(values, saved) ==
  [values EXCEPT !.key = IF @ = "" /\ values.provider = saved.provider THEN saved.key ELSE @,
                 !.workspace = IF values.provider = Workspaced THEN @ ELSE ""]

Acceptable(c) == c.provider \in KeyNeeded => c.key # ""

Serve(r) ==
  /\ r \in net /\ r.state = "sent"
  /\ UNCHANGED <<conn, form, catalogue, refs, tested, saving, testing, confirm, vouched, lost, raced, steps>>
  /\ \/ /\ r.kind = "load" /\ stored' = stored
        /\ Answered(r, "ok", Shown(stored))
     \/ /\ r.kind = "save"
        /\ LET next == Effective(r.body, stored)
           IN IF Acceptable(next) THEN stored' = next /\ Answered(r, "ok", Shown(next))
              ELSE stored' = stored /\ Answered(r, "failed", None)
     \/ /\ r.kind = "delete"
        /\ stored' = Blank /\ Answered(r, "ok", Blank)
     \/ /\ r.kind = "models" /\ stored' = stored
        /\ Answered(r, "ok", stored.provider)
     \/ /\ r.kind = "test" /\ stored' = stored
        /\ LET used == IF r.body = None THEN stored ELSE Effective(r.body, stored)
           IN \/ Acceptable(used) /\ Answered(r, "ok", used)
              \/ Answered(r, "failed", None)

(* The request or its answer is lost. *)
Fail(r) ==
  /\ Input /\ r \in net /\ r.state # "failed"
  /\ Answered(r, "failed", None)
  /\ lost' = (lost \/ r.kind \in {"save", "delete"})
  /\ UNCHANGED <<stored, conn, form, catalogue, refs, tested, saving, testing, confirm, vouched, raced>>

-----------------------------------------------------------------------------
(* What the form works out from its fields *)

SavedProvider == IF conn = None THEN None ELSE conn.provider

ProviderChanged == SavedProvider # None /\ form.provider # SavedProvider

KeyRequired == form.provider \in KeyNeeded /\ (ProviderChanged \/ conn.key = "")

Saved == IF conn = None THEN Blank ELSE [conn EXCEPT !.key = ""]

Unsaved == form # Saved

UnlistedModel == form.provider # None /\ Curated[form.provider] # {} /\ form.model \notin Curated[form.provider]

Complete == form.provider # None /\ form.model # "" /\ ~UnlistedModel /\ ~(KeyRequired /\ form.key = "")

SelectionTested == tested = form

-----------------------------------------------------------------------------
(* Loading and applying a connection *)

ApplyRefs == [catalogue |-> refs.catalogue + 1, test |-> refs.test + 1]

ApplyConnection(next) ==
  /\ conn' = next
  /\ form' = [next EXCEPT !.key = "", !.workspace = IF next.provider = Workspaced THEN @ ELSE ""]
  /\ catalogue' = None /\ tested' = None

(* The list is asked for unless the catalogue has one; the counter moves on either way. *)
RefreshModelCatalogue(next, at, rest) ==
  /\ refs' = [at EXCEPT !.catalogue = @ + 1]
  /\ net' = rest \cup IF next.provider # None /\ Curated[next.provider] # {} THEN {}
                      ELSE {Request("models", None, at.catalogue + 1, None)}

Loaded(r) ==
  /\ r \in Of("load") /\ r.state # "sent"
  /\ IF r.state = "failed" THEN /\ net' = net \ {r}
                                /\ UNCHANGED <<conn, form, catalogue, tested, refs>>
     ELSE /\ ApplyConnection(r.answer)
          /\ IF r.answer.provider # None THEN RefreshModelCatalogue(r.answer, ApplyRefs, net \ {r})
             ELSE refs' = ApplyRefs /\ net' = net \ {r}
  /\ UNCHANGED <<stored, saving, testing, confirm, vouched, lost, raced, steps>>

(* A list of models that failed leaves none, and free text. *)
ModelsAnswer(r) ==
  /\ r \in Of("models") /\ r.state # "sent"
  /\ catalogue' = IF r.seq # refs.catalogue THEN catalogue ELSE r.answer
  /\ net' = net \ {r}
  /\ UNCHANGED <<stored, conn, form, refs, tested, saving, testing, confirm, vouched, lost, raced, steps>>

-----------------------------------------------------------------------------
(* Editing: nothing is disabled by what is under way, once loaded. *)

(* Mistake: a list asked for before still counts. *)
MutProviderRefs == refs

ProviderRefs == [refs EXCEPT !.catalogue = @ + 1]

HandleProviderChange(handle) ==
  /\ Input /\ conn # None /\ handle # form.provider
  /\ refs' = ProviderRefs
  /\ catalogue' = None
  /\ form' = [Blank EXCEPT !.provider = handle]
  /\ raced' = (raced \/ testing)
  /\ UNCHANGED <<stored, conn, tested, saving, testing, confirm, net, vouched, lost>>

EditField(field, value) ==
  /\ Input /\ Of("load") = {} /\ form[field] # value
  /\ field = "workspace" => form.provider = Workspaced
  /\ field = "model" /\ form.provider # None => Curated[form.provider] = {} \/ value \in Curated[form.provider] \cup {""}
  /\ form' = [form EXCEPT ![field] = value]
  /\ UNCHANGED <<stored, conn, catalogue, refs, tested, saving, testing, confirm, net, vouched, lost, raced>>

-----------------------------------------------------------------------------
(* Saving *)

HandleSubmit ==
  /\ Input /\ ~saving /\ Complete
  /\ ~(form.provider = Workspaced /\ form.workspace \in BadWorkspaces)
  /\ saving' = TRUE
  /\ net' = net \cup {Request("save", form, 0, None)}
  /\ UNCHANGED <<stored, conn, form, catalogue, refs, tested, testing, confirm, vouched, lost, raced>>

SaveAnswer(r) ==
  /\ r \in Of("save") /\ r.state # "sent"
  /\ saving' = FALSE
  /\ IF r.state = "ok" THEN ApplyConnection(r.answer) /\ RefreshModelCatalogue(r.answer, ApplyRefs, net \ {r})
     ELSE net' = net \ {r} /\ UNCHANGED <<conn, form, catalogue, tested, refs>>
  /\ UNCHANGED <<stored, testing, confirm, vouched, lost, raced, steps>>

-----------------------------------------------------------------------------
(* Testing: unsaved values as entered, else the saved connection or the operator's. *)

MayTest == ~testing /\ IF Unsaved THEN Complete ELSE SavedProvider # None \/ (conn # None /\ ServerDefault)

HandleTest ==
  /\ Input /\ MayTest
  /\ refs' = [refs EXCEPT !.test = @ + 1]
  /\ tested' = None /\ testing' = TRUE
  /\ net' = net \cup {Request("test", IF Unsaved THEN form ELSE None, refs.test + 1,
                              [form |-> form, saved |-> IF Unsaved THEN None ELSE conn])}
  /\ UNCHANGED <<stored, conn, form, catalogue, saving, confirm, vouched, lost, raced>>

(* Mistake: the button comes back only after an answer that still counts. *)
MutTestingAfter(r) == r.seq # refs.test

TestingAfter(r) == FALSE

(* The answer vouches for the values sent; after a test of the saved connection its models are asked for again. *)
TestAnswer(r) ==
  /\ r \in Of("test") /\ r.state # "sent"
  /\ testing' = TestingAfter(r)
  /\ IF r.seq = refs.test /\ r.state = "ok"
     THEN /\ tested' = r.about.form /\ vouched' = r.answer
          /\ IF r.about.saved # None THEN RefreshModelCatalogue(r.about.saved, refs, net \ {r})
             ELSE refs' = refs /\ net' = net \ {r}
     ELSE net' = net \ {r} /\ UNCHANGED <<tested, vouched, refs>>
  /\ UNCHANGED <<stored, conn, form, catalogue, saving, confirm, lost, raced, steps>>

-----------------------------------------------------------------------------
(* Disconnecting, after a confirmation *)

ConfirmDisconnect(shown) ==
  /\ Input /\ SavedProvider # None /\ ~saving /\ confirm # shown
  /\ confirm' = shown
  /\ UNCHANGED <<stored, conn, form, catalogue, refs, tested, saving, testing, net, vouched, lost, raced>>

HandleDisconnect ==
  /\ Input /\ SavedProvider # None /\ ~saving /\ confirm
  /\ confirm' = FALSE /\ saving' = TRUE
  /\ net' = net \cup {Request("delete", None, 0, None)}
  /\ UNCHANGED <<stored, conn, form, catalogue, refs, tested, testing, vouched, lost, raced>>

DisconnectAnswer(r) ==
  /\ r \in Of("delete") /\ r.state # "sent"
  /\ saving' = FALSE
  /\ IF r.state = "ok" THEN ApplyConnection(r.answer) /\ refs' = ApplyRefs
     ELSE UNCHANGED <<conn, form, catalogue, tested, refs>>
  /\ net' = net \ {r}
  /\ UNCHANGED <<stored, testing, confirm, vouched, lost, raced, steps>>

-----------------------------------------------------------------------------
(* The form opens on a connection saved earlier, or none. *)
Init ==
  /\ stored \in {Blank} \cup FirstConnections
  /\ conn = None /\ form = Blank /\ catalogue = None /\ refs = [catalogue |-> 0, test |-> 0]
  /\ tested = None /\ saving = FALSE /\ testing = FALSE /\ confirm = FALSE
  /\ net = {[id |-> 1, kind |-> "load", body |-> None, seq |-> 0, about |-> None, state |-> "sent", answer |-> None]}
  /\ vouched = None /\ lost = FALSE /\ raced = FALSE /\ steps = 0

Typed(field) ==
  CASE field = "model" -> Models \cup {""}
    [] field = "workspace" -> Workspaces \cup {""}
    [] field = "key" -> Keys \cup {""}

Network ==
  \E r \in net : Serve(r) \/ Loaded(r) \/ ModelsAnswer(r) \/ SaveAnswer(r) \/ TestAnswer(r) \/ DisconnectAnswer(r)

Next ==
  \/ Network
  \/ \E r \in net : Fail(r)
  \/ \E handle \in Providers \cup {None} : HandleProviderChange(handle)
  \/ \E field \in {"model", "workspace", "key"} : \E value \in Typed(field) : EditField(field, value)
  \/ HandleSubmit \/ HandleTest \/ HandleDisconnect
  \/ \E shown \in BOOLEAN : ConfirmDisconnect(shown)

(* The network answers or fails every request. *)
Spec == Init /\ [][Next]_vars /\ WF_vars(Network)

-----------------------------------------------------------------------------
(* Properties *)

(* What is under way shows as busy, and at most one save or disconnection and one test are. *)
TypeOK ==
  /\ form \in [provider : Providers \cup {None}, model : Models \cup {""},
               workspace : Workspaces \cup {""}, key : Keys \cup {""}]
  /\ Cardinality(Of("save") \cup Of("delete")) <= IF saving THEN 1 ELSE 0
  /\ Cardinality(Of("test")) <= IF testing THEN 1 ELSE 0

(* "Test passed" is shown only for the provider, model, workspace and key that the passed test used,
   the stored key included, however the form was edited or saved while the test was under way (lines 56-57,
   122-124, 187).  A save whose answer is awaited or was lost is left out: the form does not know it. *)
TestVouches ==
  SelectionTested /\ ~saving /\ ~lost =>
    vouched = IF Unsaved THEN Effective(form, stored) ELSE stored

(* The models offered are those of the saved provider, and the form shows that provider (lines 59-84, 126-141).
   A provider changed while a test was under way is left out: its answer asks for the models again. *)
CatalogueFits ==
  catalogue # None /\ ~saving /\ ~lost =>
    catalogue = stored.provider /\ (raced \/ form.provider = catalogue)

(* A save, a disconnection and a test end: the buttons come back. *)
BusyEnds == (saving ~> ~saving) /\ (testing ~> ~testing)

=============================================================================
