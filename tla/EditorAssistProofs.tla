------------------------- MODULE EditorAssistProofs -------------------------
(***************************************************************************)
(* Proofs about EditorAssist: that the Refine panel, its draft check and   *)
(* the review of a pasted prompt show what belongs together, that a draft  *)
(* is applied only to the sections it was written for, and that Undo is    *)
(* exact.  They hold for all inputs, histories and conversions.            *)
(*                                                                         *)
(* The invariant says of each helper what its answers will be about: a     *)
(* request that still counts is about the session's source (RefineOK), a   *)
(* snapshot of the pasted text is as coherent as the live one (PasteOK),   *)
(* and Undo holds whole contents (UndoOK).                                 *)
(***************************************************************************)
EXTENDS EditorAssist, SequenceTheorems, FiniteSetTheorems, NaturalsInduction, TLAPS

(* Sections, settings and values as the editor holds them. *)
Contents(c) ==
  /\ c = <<c[1], c[2], c[3]>>
  /\ c[1] \in Texts /\ c[2] \in [Vars -> SUBSET Settings] /\ c[3] \in [Vars -> Values]

(* A draft was written for the source, and so will be one that counts.      *)
RefineOK ==
  /\ refine = [source |-> refine.source, questions |-> refine.questions, draft |-> refine.draft,
               review |-> refine.review, busy |-> refine.busy, chosen |-> refine.chosen, id |-> refine.id]
  /\ refine.id \in Nat /\ refine.busy \in {"no", "questions", "draft"}
  /\ refine.source # None => refine.source \in Texts
  /\ refine.draft # None =>
       /\ refine.source # None /\ refine.draft.of = refine.source
       /\ refine.draft.fields \in Texts /\ Len(refine.draft.fields) = Len(refine.source)
  /\ IsFiniteSet(refine.chosen) /\ Cardinality(refine.chosen) <= MaxEvidence

AsksOK ==
  \A ask \in asks :
    /\ ask.id \in Nat /\ ask.id <= refine.id /\ ask.of \in Texts
    /\ ask.id = refine.id => refine.source = ask.of
    /\ ask.evidence.results \subseteq ask.evidence.run
    /\ Cardinality(ask.evidence.results) <= MaxEvidence

(* The check that is shown or under way is one of the draft. *)
CheckOK ==
  /\ check.state \in {"none", "offered", "busy", "done", "failed"}
  /\ check = [state |-> check.state, draft |-> check.draft, ran |-> check.ran]
  /\ check.state # "none" => refine.draft # None /\ check.draft = refine.draft.fields
  /\ check.state \in {"busy", "done", "failed"} => check.ran = check.draft

Variable == [name : Vars \cup {"1x"}, value : Values, reuse : BOOLEAN]

(* A pasted text and the review of its conversion. *)
Session(p) ==
  /\ p = [text |-> p.text, conv |-> p.conv, vars |-> p.vars, keep |-> p.keep, reviewing |-> p.reviewing]
  /\ p.text \in PasteTexts \cup {""}
  /\ p.conv # None =>
       /\ p.text \in PasteTexts /\ p.conv = [of |-> p.text, fields |-> Conversion[p.text]]
       /\ p.vars \in [VariablesIn(Conversion[p.text]) -> Variable]
  /\ p.reviewing => p.conv # None

PasteOK == Session(paste) /\ (parses # None => Session(parses) /\ parses.text \in PasteTexts)

UndoOK ==
  /\ removed # None => removed.section \in Section /\ removed.index \in Nat \ {0}
  /\ action # None =>
       /\ Contents(action.before) /\ action.kind \in {"refine", "import"}
       /\ action.kind = "import" => Session(action.paste)

IInv == Contents(contents) /\ RefineOK /\ AsksOK /\ CheckOK /\ PasteOK /\ UndoOK

-----------------------------------------------------------------------------
(* Sections *)

(* Names that are taken leave one free among the next ones, and CHOOSE      *)
(* finds the first.                                                         *)
LEMMA UniqueNameIsNatural ==
  ASSUME NEW s \in Seq(Section)
  PROVE  UniqueName(s) \in Nat
<1> DEFINE n == Len(s)
           names == (n + 1)..(2 * n + 1)
           Free(m) == \A i \in DOMAIN s : s[i].name # m
           free == {m \in names : Free(m)}
           positions == 1..n
<1>1. n \in Nat /\ DOMAIN s = 1..n
  OBVIOUS
<1>2. IsFiniteSet(names) /\ Cardinality(names) = n + 1
  <2>1. n + 1 \in Int /\ 2 * n + 1 \in Int /\ ~(n + 1 > 2 * n + 1) /\ (2 * n + 1) - (n + 1) + 1 = n + 1
    BY <1>1
  <2> QED BY <2>1, FS_Interval
<1>3. IsFiniteSet(positions) /\ Cardinality(positions) = n
  <2>1. 1 \in Int /\ n \in Int /\ (IF 1 > n THEN 0 ELSE n - 1 + 1) = n
    BY <1>1
  <2> QED BY <2>1, FS_Interval
<1>4. free # {}
  <2> SUFFICES ASSUME \A m \in names : \E i \in 1..n : s[i].name = m
               PROVE  FALSE
    BY <1>1
  <2> DEFINE f == [m \in names |-> CHOOSE i \in 1..n : s[i].name = m]
  <2>1. \A m \in names : f[m] \in 1..n /\ s[f[m]].name = m
    OBVIOUS
  <2>2. f \in [names -> positions]
    BY <2>1
  <2> HIDE DEF f
  <2>3. PICK x, y \in names : x # y /\ f[x] = f[y]
    <3>1. Cardinality(positions) < Cardinality(names)
      BY <1>1, <1>2, <1>3
    <3> HIDE DEF names, positions
    <3> QED BY <1>2, <1>3, <2>2, <3>1, FS_PigeonHole
  <2> QED BY <2>1, <2>3
<1>5. PICK m \in free : \A k \in free : ~(k < m)
  <2>1. free \subseteq Nat
    BY <1>1
  <2> HIDE DEF free
  <2>2. IsWellFoundedOn(OpToRel(<, Nat), Nat)
    BY NatLessThanWellFounded
  <2>3. PICK m \in free : \A k \in free : ~(<<k, m>> \in OpToRel(<, Nat))
    BY <1>4, <2>1, <2>2, WFMin
  <2> QED BY <2>1, <2>3 DEF OpToRel
<1>6. \A k \in (n + 1)..(m - 1) : \E i \in DOMAIN s : s[i].name = k
  <2> SUFFICES ASSUME NEW k \in (n + 1)..(m - 1), \A i \in DOMAIN s : s[i].name # k
               PROVE  FALSE
    OBVIOUS
  <2>1. k \in names /\ k < m
    BY <1>1, <1>5
  <2> QED BY <1>5, <2>1
<1>7. UniqueName(s) \in names
  BY <1>5, <1>6 DEF UniqueName
<1> QED BY <1>1, <1>7

LEMMA RemoveAtShrinks ==
  ASSUME NEW s \in Seq(Section), NEW i \in 1..Len(s)
  PROVE  RemoveAt(s, i) \in Seq(Section) /\ Len(RemoveAt(s, i)) = Len(s) - 1
<1> DEFINE a == SubSeq(s, 1, i - 1)
           b == SubSeq(s, i + 1, Len(s))
<1>1. a \in Seq(Section) /\ Len(a) = i - 1
  BY SubSeqProperties
<1>2. b \in Seq(Section) /\ Len(b) = Len(s) - i
  BY SubSeqProperties
<1>4. RemoveAt(s, i) = a \o b
  BY DEF RemoveAt
<1> HIDE DEF a, b
<1>3. a \o b \in Seq(Section) /\ Len(a \o b) = Len(a) + Len(b)
  BY <1>1, <1>2, ConcatProperties
<1>5. Len(s) \in Nat /\ Len(a) + Len(b) = Len(s) - 1
  <2>1. Len(s) \in Nat
    BY LenProperties
  <2> QED BY <1>1, <1>2, <2>1
<1> QED BY <1>3, <1>4, <1>5

LEMMA InsertAtGrows ==
  ASSUME NEW s \in Seq(Section), NEW i \in 1..Len(s) + 1, NEW e \in Section
  PROVE  InsertAt(s, i, e) \in Seq(Section) /\ Len(InsertAt(s, i, e)) = Len(s) + 1
<1> DEFINE a == SubSeq(s, 1, i - 1)
           b == SubSeq(s, i, Len(s))
<1>1. a \in Seq(Section) /\ Len(a) = i - 1
  BY SubSeqProperties
<1>2. b \in Seq(Section) /\ Len(b) = Len(s) - i + 1
  BY SubSeqProperties
<1>5. InsertAt(s, i, e) = (a \o <<e>>) \o b
  BY DEF InsertAt
<1> HIDE DEF a, b
<1>3. a \o <<e>> \in Seq(Section) /\ Len(a \o <<e>>) = Len(a) + 1
  BY <1>1
<1>4. (a \o <<e>>) \o b \in Seq(Section) /\ Len((a \o <<e>>) \o b) = Len(a \o <<e>>) + Len(b)
  BY <1>2, <1>3, ConcatProperties
<1> QED BY <1>1, <1>2, <1>3, <1>4, <1>5

(* New bodies leave a text a text. *)
LEMMA BodiesReplaced ==
  ASSUME NEW s \in Texts, NEW t, DOMAIN t = DOMAIN s, t = [i \in DOMAIN s |-> t[i]],
         \A i \in DOMAIN s : \E body \in Seq(Part) : t[i] = [s[i] EXCEPT !.body = body]
  PROVE  t \in Texts /\ Len(t) = Len(s)
<1>1. s \in Seq(Section) /\ Len(s) \in Nat /\ DOMAIN s = 1..Len(s) /\ Len(s) \in 1..MaxSections
  BY DEF Texts
<1>2. \A i \in 1..Len(s) : t[i] \in Section
  <2> TAKE i \in 1..Len(s)
  <2>1. PICK body \in Seq(Part) : t[i] = [s[i] EXCEPT !.body = body]
    BY <1>1
  <2>2. s[i] \in Section
    BY <1>1
  <2> QED BY <2>1, <2>2 DEF Section
<1>3. t \in [1..Len(s) -> Section]
  BY <1>1, <1>2
<1>4. t \in Seq(Section) /\ Len(t) = Len(s)
  BY <1>1, <1>3
<1> QED BY <1>1, <1>4 DEF Texts

-----------------------------------------------------------------------------
(* Frames *)

Core == Contents(contents) /\ RefineOK /\ AsksOK /\ PasteOK /\ UndoOK

LEMMA ContentsAre ==
  ASSUME NEW s, NEW m, NEW f
  PROVE  Contents(<<s, m, f>>) <=>
           s \in Texts /\ m \in [Vars -> SUBSET Settings] /\ f \in [Vars -> Values]
BY DEF Contents

(* Rerendering keeps the check with its draft, whatever has happened. *)
LEMMA Rerendered ==
  ASSUME CheckOK, Rerender
  PROVE  CheckOK'
<1>1. CASE check' = NoCheck
  BY <1>1 DEF CheckOK, NoCheck
<1>2. CASE check' = check /\ check.state # "none" /\ refine'.draft # None
           /\ check.draft = refine'.draft.fields
  BY <1>2 DEF CheckOK
<1>3. CASE check' = [state |-> "offered", draft |-> refine'.draft.fields, ran |-> None]
           /\ refine'.draft # None
  BY <1>3 DEF CheckOK
<1> QED BY <1>1, <1>2, <1>3 DEF Rerender, CheckShown

LEMMA OnlyRefine ==
  ASSUME Core, RefineOK', AsksOK', UNCHANGED <<contents, undo, import>>
  PROVE  Core'
BY DEF Core, Contents, contents, PasteOK, Session, UndoOK, undo, import

LEMMA OnlyContents ==
  ASSUME Core, sections' \in Texts, meta' \in [Vars -> SUBSET Settings], filled' \in [Vars -> Values],
         UNCHANGED <<refine, asks, undo, import>>
  PROVE  Core'
<1>1. Contents(contents)'
  BY ContentsAre DEF contents
<1>2. RefineOK' /\ AsksOK'
  BY DEF Core, RefineOK, AsksOK
<1>3. PasteOK' /\ UndoOK'
  BY DEF Core, PasteOK, UndoOK, undo, import
<1> QED BY <1>1, <1>2, <1>3 DEF Core

LEMMA OnlyPaste ==
  ASSUME Core, PasteOK', UNCHANGED <<contents, refine, asks, undo>>
  PROVE  Core'
BY DEF Core, Contents, contents, RefineOK, AsksOK, Session, UndoOK, undo

LEMMA CoreContents ==
  ASSUME Core
  PROVE  /\ sections \in Texts /\ meta \in [Vars -> SUBSET Settings] /\ filled \in [Vars -> Values]
         /\ sections \in Seq(Section) /\ Len(sections) \in 1..MaxSections /\ DOMAIN sections = 1..Len(sections)
<1>1. sections \in Texts /\ meta \in [Vars -> SUBSET Settings] /\ filled \in [Vars -> Values]
  BY ContentsAre DEF Core, contents
<1> QED BY <1>1 DEF Texts

-----------------------------------------------------------------------------
(* The Refine panel *)

(* What is sent as evidence was picked from one run. *)
LEMMA EvidenceFits ==
  ASSUME RefineOK
  PROVE  /\ IsFiniteSet(Picked) /\ Cardinality(Picked) <= MaxEvidence
         /\ Evidence.results \subseteq Evidence.run /\ Cardinality(Evidence.results) <= MaxEvidence
<1>1. IsFiniteSet(refine.chosen) /\ Cardinality(refine.chosen) <= MaxEvidence
  BY DEF RefineOK
<1>2. Picked \in SUBSET refine.chosen /\ Picked \subseteq LatestResults
  BY DEF Picked
<1>3. IsFiniteSet(Picked) /\ Cardinality(Picked) <= Cardinality(refine.chosen)
  BY <1>1, <1>2, FS_Subset
<1>4. Cardinality(refine.chosen) \in Nat /\ Cardinality(Picked) \in Nat
  BY <1>1, <1>3, FS_CardinalityType
<1>5. Cardinality(Picked) <= MaxEvidence
  BY <1>1, <1>3, <1>4, BoundsAssumption
<1>6. CASE Picked = {}
  BY <1>3, <1>5, <1>6, FS_EmptySet, BoundsAssumption DEF Evidence, NoEvidence
<1>7. CASE Picked # {}
  BY <1>2, <1>3, <1>5, <1>7 DEF Evidence
<1> QED BY <1>6, <1>7

LEMMA Asking ==
  ASSUME Core, NEW kind \in {"questions", "draft"}, NEW source \in Texts, NEW evidence,
         refine.source # None => source = refine.source,
         evidence.results \subseteq evidence.run, Cardinality(evidence.results) <= MaxEvidence,
         Ask(kind, source, evidence)
  PROVE  Core'
<1>1. refine' = [refine EXCEPT !.source = source, !.busy = kind, !.id = @ + 1]
      /\ asks' = asks \cup {[id |-> refine.id + 1, kind |-> kind, of |-> source, evidence |-> evidence]}
      /\ UNCHANGED <<contents, undo, import>>
  BY DEF Ask
<1>2. source # None
  BY NoneAssumption
<1>3. /\ refine' = [source |-> source, questions |-> refine.questions, draft |-> refine.draft,
                    review |-> refine.review, busy |-> kind, chosen |-> refine.chosen, id |-> refine.id + 1]
      /\ refine.id \in Nat
  BY <1>1 DEF Core, RefineOK
<1>4. RefineOK'
  BY <1>2, <1>3 DEF Core, RefineOK
<1>5. AsksOK'
  <2> SUFFICES ASSUME NEW ask \in asks'
               PROVE  /\ ask.id \in Nat /\ ask.id <= refine'.id /\ ask.of \in Texts
                      /\ ask.id = refine'.id => refine'.source = ask.of
                      /\ ask.evidence.results \subseteq ask.evidence.run
                      /\ Cardinality(ask.evidence.results) <= MaxEvidence
    BY DEF AsksOK
  <2>1. CASE ask \in asks
    <3>1. ask.id \in Nat /\ ask.id <= refine.id
      BY <2>1 DEF Core, AsksOK
    <3>2. ask.id < refine'.id
      BY <1>3, <3>1
    <3> QED BY <2>1, <3>1, <3>2, <1>3 DEF Core, AsksOK
  <2>2. CASE ask = [id |-> refine.id + 1, kind |-> kind, of |-> source, evidence |-> evidence]
    BY <1>3, <2>2
  <2> QED BY <1>1, <2>1, <2>2
<1> QED BY <1>1, <1>4, <1>5, OnlyRefine

LEMMA NoEvidenceFits ==
  NoEvidence.results \subseteq NoEvidence.run /\ Cardinality(NoEvidence.results) <= MaxEvidence
BY FS_EmptySet, BoundsAssumption DEF NoEvidence

LEMMA AskingKeeps ==
  ASSUME Core, FindQuestions \/ Improve \/ CreateDraft
  PROVE  Core'
<1>1. RefineOK
  BY DEF Core
<1>2. CASE FindQuestions
  <2>1. refine.source # None => sections = refine.source
    BY <1>2 DEF FindQuestions, Clarifying, Stale
  <2>2. Ask("questions", sections, NoEvidence)
    BY <1>2 DEF FindQuestions
  <2> QED BY <2>1, <2>2, Asking, NoEvidenceFits, CoreContents
<1>3. CASE Improve
  <2>1. refine.source # None => sections = refine.source
    BY <1>3 DEF Improve, Clarifying, Stale
  <2>2. Ask("draft", sections, Evidence)
    BY <1>3 DEF Improve
  <2> QED BY <1>1, <2>1, <2>2, Asking, EvidenceFits, CoreContents
<1>4. CASE CreateDraft
  <2>1. refine.source \in Texts
    BY <1>1, <1>4 DEF CreateDraft, RefineOK
  <2>2. Ask("draft", refine.source, Evidence)
    BY <1>4 DEF CreateDraft
  <2> QED BY <1>1, <2>1, <2>2, Asking, EvidenceFits
<1> QED BY <1>2, <1>3, <1>4

(* An answer, or none: the request no longer counts. *)
LEMMA AsksShrink ==
  ASSUME Core, asks' \subseteq asks,
         (refine'.id = refine.id /\ refine'.source = refine.source)
         \/ (refine'.id = refine.id + 1)
  PROVE  AsksOK'
<1>1. refine.id \in Nat
  BY DEF Core, RefineOK
<1> SUFFICES ASSUME NEW ask \in asks'
             PROVE  /\ ask.id \in Nat /\ ask.id <= refine'.id /\ ask.of \in Texts
                    /\ ask.id = refine'.id => refine'.source = ask.of
                    /\ ask.evidence.results \subseteq ask.evidence.run
                    /\ Cardinality(ask.evidence.results) <= MaxEvidence
  BY DEF AsksOK
<1>2. ask \in asks /\ ask.id \in Nat /\ ask.id <= refine.id
  BY DEF Core, AsksOK
<1> QED BY <1>1, <1>2 DEF Core, AsksOK

LEMMA QuestionsAnswerKeeps ==
  ASSUME Core, NEW ask \in asks, NEW n, QuestionsAnswer(ask, n)
  PROVE  Core'
<1>1. asks' \subseteq asks /\ UNCHANGED <<contents, undo, import>>
  BY DEF QuestionsAnswer
<1>2. RefineOK' /\ refine'.id = refine.id /\ refine'.source = refine.source
  <2>1. CASE refine' = refine
    BY <2>1 DEF Core, RefineOK
  <2>2. CASE refine' = [refine EXCEPT !.questions = n, !.draft = None, !.review = FALSE, !.busy = "no"]
    <3>1. refine' = [source |-> refine.source, questions |-> n, draft |-> None,
                     review |-> FALSE, busy |-> "no", chosen |-> refine.chosen, id |-> refine.id]
      BY <2>2 DEF Core, RefineOK
    <3> QED BY <3>1 DEF Core, RefineOK
  <2> QED BY <2>1, <2>2 DEF QuestionsAnswer
<1> QED BY <1>1, <1>2, AsksShrink, OnlyRefine

LEMMA DraftAnswerKeeps ==
  ASSUME Core, NEW ask \in asks, NEW body \in Seq(Part), DraftAnswer(ask, body)
  PROVE  Core'
<1> DEFINE written == [i \in DOMAIN ask.of |-> [ask.of[i] EXCEPT !.body = body]]
<1>1. asks' \subseteq asks /\ UNCHANGED <<contents, undo, import>>
  BY DEF DraftAnswer
<1>2. ask.of \in Texts /\ ask.of # None
  BY NoneAssumption DEF Core, AsksOK
<1>3. written \in Texts /\ Len(written) = Len(ask.of)
  <2>1. DOMAIN written = DOMAIN ask.of
    OBVIOUS
  <2>2. \A i \in DOMAIN ask.of : written[i] = [ask.of[i] EXCEPT !.body = body]
    OBVIOUS
  <2>3. written = [i \in DOMAIN ask.of |-> written[i]]
    OBVIOUS
  <2> HIDE DEF written
  <2> QED BY <1>2, <2>1, <2>2, <2>3, BodiesReplaced
<1>4. refine' = refine
      \/ (ask.id = refine.id /\ refine' = [refine EXCEPT !.review = TRUE, !.busy = "no",
                                             !.draft = [of |-> ask.of, fields |-> written]])
  BY DEF DraftAnswer
<1> HIDE DEF written
<1>5. RefineOK' /\ refine'.id = refine.id /\ refine'.source = refine.source
  <2>1. CASE refine' = refine
    BY <2>1 DEF Core, RefineOK
  <2>2. CASE ask.id = refine.id /\ refine' = [refine EXCEPT !.review = TRUE, !.busy = "no",
                                                !.draft = [of |-> ask.of, fields |-> written]]
    <3>1. refine' = [source |-> refine.source, questions |-> refine.questions,
                     draft |-> [of |-> ask.of, fields |-> written],
                     review |-> TRUE, busy |-> "no", chosen |-> refine.chosen, id |-> refine.id]
      BY <2>2 DEF Core, RefineOK
    <3>2. refine.source = ask.of
      BY <2>2 DEF Core, AsksOK
    <3> QED BY <1>2, <1>3, <3>1, <3>2 DEF Core, RefineOK
  <2> QED BY <1>4, <2>1, <2>2
<1> QED BY <1>1, <1>5, AsksShrink, OnlyRefine

LEMMA AskFailsKeeps ==
  ASSUME Core, NEW ask \in asks, AskFails(ask)
  PROVE  Core'
<1>1. asks' \subseteq asks /\ UNCHANGED <<contents, undo, import>>
  BY DEF AskFails
<1>2. refine' = refine \/ refine' = [refine EXCEPT !.busy = "no"]
  BY DEF AskFails
<1>3. RefineOK' /\ refine'.id = refine.id /\ refine'.source = refine.source
  BY <1>2 DEF Core, RefineOK
<1> QED BY <1>1, <1>3, AsksShrink, OnlyRefine

LEMMA ResetKeeps ==
  ASSUME Core, refine' = Reset, UNCHANGED <<asks, contents, undo, import>>
  PROVE  Core'
<1>1. refine.id \in Nat
  BY DEF Core, RefineOK
<1>2. refine' = [source |-> None, questions |-> None, draft |-> None, review |-> FALSE, busy |-> "no",
                 chosen |-> {}, id |-> refine.id + 1]
  BY DEF Reset, NewSession
<1>3. RefineOK'
  BY <1>1, <1>2, FS_EmptySet, BoundsAssumption DEF RefineOK
<1>4. AsksOK'
  BY <1>2, AsksShrink
<1> QED BY <1>3, <1>4, OnlyRefine

LEMMA BackToAnswersKeeps ==
  ASSUME Core, BackToAnswers
  PROVE  Core'
<1>1. refine' = [refine EXCEPT !.review = FALSE] /\ UNCHANGED <<asks, contents, undo, import>>
  BY DEF BackToAnswers
<1>2. RefineOK' /\ refine'.id = refine.id /\ refine'.source = refine.source
  BY <1>1 DEF Core, RefineOK
<1> QED BY <1>1, <1>2, AsksShrink, OnlyRefine

LEMMA PickResultKeeps ==
  ASSUME Core, NEW id, PickResult(id)
  PROVE  Core'
<1>1. refine' = [refine EXCEPT !.chosen = Choose(id)] /\ UNCHANGED <<asks, contents, undo, import>>
      /\ (id \in Picked \/ Cardinality(Picked) < MaxEvidence)
  BY DEF PickResult
<1>2. IsFiniteSet(Picked) /\ Cardinality(Picked) <= MaxEvidence
  BY EvidenceFits DEF Core
<1>3. Cardinality(Picked) \in Nat
  BY <1>2, FS_CardinalityType
<1>4. IsFiniteSet(Choose(id)) /\ Cardinality(Choose(id)) <= MaxEvidence
  <2>1. CASE id \in Picked
    <3>1. IsFiniteSet(Picked \ {id}) /\ Cardinality(Picked \ {id}) = Cardinality(Picked) - 1
      BY <1>2, <2>1, FS_RemoveElement
    <3> QED BY <1>2, <1>3, <2>1, <3>1, BoundsAssumption DEF Choose
  <2>2. CASE id \notin Picked
    <3>1. IsFiniteSet(Picked \cup {id}) /\ Cardinality(Picked \cup {id}) = Cardinality(Picked) + 1
      BY <1>2, <2>2, FS_AddElement
    <3> QED BY <1>1, <1>3, <2>2, <3>1, BoundsAssumption DEF Choose
  <2> QED BY <2>1, <2>2
<1>5. refine' = [source |-> refine.source, questions |-> refine.questions, draft |-> refine.draft,
                 review |-> refine.review, busy |-> refine.busy, chosen |-> Choose(id), id |-> refine.id]
  BY <1>1 DEF Core, RefineOK
<1>6. RefineOK'
  BY <1>4, <1>5 DEF Core, RefineOK
<1> QED BY <1>1, <1>5, <1>6, AsksShrink, OnlyRefine

(* Applying a draft replaces its source, body by body. *)
LEMMA ApplyFits ==
  ASSUME Core, ApplyChanges
  PROVE  refine.draft # None /\ refine.draft.of = sections /\ sections' \in Texts
<1>1. refine.draft # None /\ refine.source # None /\ refine.source = sections /\ refine.draft.of = sections
      /\ refine.draft.fields \in Texts /\ Len(refine.draft.fields) = Len(sections)
  BY DEF ApplyChanges, Changed, Stale, Core, RefineOK
<1>2. sections' = [i \in DOMAIN sections |-> [sections[i] EXCEPT !.body = refine.draft.fields[i].body]]
  BY DEF ApplyChanges
<1>3. \A i \in DOMAIN sections : refine.draft.fields[i].body \in Seq(Part)
  <2> TAKE i \in DOMAIN sections
  <2>1. refine.draft.fields \in Seq(Section) /\ i \in 1..Len(refine.draft.fields)
    BY <1>1, CoreContents DEF Texts
  <2>2. refine.draft.fields[i] \in Section
    BY <2>1, ElementOfSeq
  <2> QED BY <2>2 DEF Section
<1>4. \A i \in DOMAIN sections : \E body \in Seq(Part) : sections'[i] = [sections[i] EXCEPT !.body = body]
  BY <1>2, <1>3
<1>5. DOMAIN sections' = DOMAIN sections /\ sections' = [i \in DOMAIN sections |-> sections'[i]]
  BY <1>2
<1>6. sections' \in Texts
  BY <1>4, <1>5, BodiesReplaced, CoreContents
<1> QED BY <1>1, <1>6

LEMMA ApplyChangesKeeps ==
  ASSUME Core, ApplyChanges
  PROVE  Core'
<1>1. UNCHANGED <<meta, filled, refine, asks, removed, import>>
      /\ action' = [kind |-> "refine", before |-> contents,
                    after |-> <<refine.draft.fields, meta, filled>>]
  BY DEF ApplyChanges
<1>2. Contents(contents)'
  BY <1>1, ApplyFits, CoreContents, ContentsAre DEF contents
<1>3. UndoOK'
  BY <1>1 DEF Core, UndoOK
<1> QED BY <1>1, <1>2, <1>3 DEF Core, RefineOK, AsksOK, PasteOK, Session, import

LEMMA RefiningKeeps ==
  ASSUME Core, Refining
  PROVE  Core'
<1>1. CASE OpenRefine \/ LoadTests \/ CloseRefine
  <2>1. UNCHANGED <<contents, refine, asks, undo, import>>
    BY <1>1 DEF OpenRefine, LoadTests, CloseRefine
  <2>2. RefineOK' /\ AsksOK'
    BY <2>1 DEF Core, RefineOK, AsksOK
  <2> QED BY <2>1, <2>2, OnlyRefine
<1>2. CASE FindQuestions \/ Improve \/ CreateDraft
  BY <1>2, AskingKeeps
<1>3. CASE Answers
  <2>1. PICK ask \in asks :
          \/ \E n \in {0, 2} : QuestionsAnswer(ask, n)
          \/ \E body \in {Refined} \cup Bodies : DraftAnswer(ask, body)
          \/ AskFails(ask)
    BY <1>3 DEF Answers
  <2>2. {Refined} \cup Bodies \subseteq Seq(Part)
    BY InputsAssumption
  <2> QED BY <2>1, <2>2, QuestionsAnswerKeeps, DraftAnswerKeeps, AskFailsKeeps
<1>4. CASE StartAgain \/ DiscardSuggestion
  BY <1>4, ResetKeeps DEF StartAgain, DiscardSuggestion
<1>5. CASE BackToAnswers \/ ApplyChanges \/ \E id \in LatestResults : PickResult(id)
  BY <1>5, BackToAnswersKeeps, ApplyChangesKeeps, PickResultKeeps
<1> QED BY <1>1, <1>2, <1>3, <1>4, <1>5 DEF Refining

-----------------------------------------------------------------------------
(* Editing and filling in *)

LEMMA BodyReplaced ==
  ASSUME NEW s \in Texts, NEW i \in DOMAIN s, NEW body \in Seq(Part)
  PROVE  [s EXCEPT ![i].body = body] \in Texts
<1>1. s \in Seq(Section) /\ Len(s) \in Nat /\ DOMAIN s = 1..Len(s) /\ Len(s) \in 1..MaxSections
  BY DEF Texts
<1>2. s[i] \in Section /\ i \in 1..Len(s)
  BY <1>1
<1>3. [s[i] EXCEPT !.body = body] \in Section
  BY <1>2 DEF Section
<1>4. [s EXCEPT ![i].body = body] = [s EXCEPT ![i] = [s[i] EXCEPT !.body = body]]
  BY <1>1
<1>5. [s EXCEPT ![i] = [s[i] EXCEPT !.body = body]] \in Seq(Section)
      /\ Len([s EXCEPT ![i] = [s[i] EXCEPT !.body = body]]) = Len(s)
  BY <1>1, <1>2, <1>3, ExceptSeq
<1> QED BY <1>1, <1>4, <1>5 DEF Texts

LEMMA OneSection ==
  ASSUME NEW body \in Seq(Part)
  PROVE  <<[name |-> 1, body |-> body]>> \in Texts
<1>1. [name |-> 1, body |-> body] \in Section
  BY DEF Section
<1>2. <<[name |-> 1, body |-> body]>> \in Seq(Section) /\ Len(<<[name |-> 1, body |-> body]>>) = 1
  BY <1>1
<1> QED BY <1>2, BoundsAssumption DEF Texts

LEMMA NothingTyped ==
  /\ NoSettings \in [Vars -> SUBSET Settings] /\ NoValues \in [Vars -> Values]
  /\ BlankSections \in Texts /\ Session(EmptyPaste)
<1>1. <<>> \in Seq(Part)
  BY EmptySeq
<1>2. BlankSections \in Texts
  BY <1>1, OneSection DEF BlankSections
<1>3. NoSettings \in [Vars -> SUBSET Settings] /\ NoValues \in [Vars -> Values]
  BY DEF NoSettings, NoValues, Values
<1> QED BY <1>2, <1>3 DEF Session, EmptyPaste

LEMMA RemoveSectionKeeps ==
  ASSUME Core, NEW i, RemoveSection(i)
  PROVE  Core'
<1>1. i \in 1..Len(sections) /\ sections \in Seq(Section) /\ Len(sections) \in 1..MaxSections
      /\ UNCHANGED <<meta, filled, action, panel, import>>
      /\ removed' = [index |-> i, section |-> sections[i]]
  BY CoreContents DEF RemoveSection
<1>2. sections' \in Texts
  <2>1. CASE Len(sections) = 1
    BY <2>1, NothingTyped DEF RemoveSection
  <2>2. CASE Len(sections) # 1
    <3>1. sections' = RemoveAt(sections, i)
      BY <2>2 DEF RemoveSection
    <3>2. RemoveAt(sections, i) \in Seq(Section) /\ Len(RemoveAt(sections, i)) = Len(sections) - 1
      BY <1>1, RemoveAtShrinks
    <3>3. Len(sections) - 1 \in 1..MaxSections
      <4> DEFINE n == Len(sections)
      <4>1. n \in 1..MaxSections /\ n # 1 /\ MaxSections \in Nat
        BY <1>1, <2>2, BoundsAssumption
      <4> HIDE DEF n
      <4>2. n - 1 \in 1..MaxSections
        BY <4>1
      <4> QED BY <4>2 DEF n
    <3> QED BY <3>1, <3>2, <3>3 DEF Texts
  <2> QED BY <2>1, <2>2
<1>3. Contents(contents)'
  BY <1>1, <1>2, CoreContents, ContentsAre DEF contents
<1>4. sections[i] \in Section /\ i \in Nat \ {0}
  BY <1>1, ElementOfSeq
<1>5. UndoOK'
  BY <1>1, <1>4 DEF Core, UndoOK
<1> QED BY <1>1, <1>3, <1>5 DEF Core, RefineOK, AsksOK, PasteOK, Session, panel, import

LEMMA UndoRemoveKeeps ==
  ASSUME Core, UndoRemove
  PROVE  Core'
<1>1. sections \in Seq(Section) /\ Len(sections) \in 1..MaxSections /\ Len(sections) < MaxSections
      /\ removed.section \in Section /\ removed.index \in Nat \ {0}
      /\ UNCHANGED <<meta, filled, action, panel, import>> /\ removed' = None
  BY CoreContents DEF UndoRemove, Core, UndoOK
<1>2. PICK i \in 1..Len(sections) + 1 : sections' = InsertAt(sections, i, removed.section)
  BY <1>1 DEF UndoRemove
<1>3. sections' \in Seq(Section) /\ Len(sections') = Len(sections) + 1
  BY <1>1, <1>2, InsertAtGrows
<1>4. sections' \in Texts
  BY <1>1, <1>3, BoundsAssumption DEF Texts
<1>5. Contents(contents)'
  BY <1>1, <1>4, CoreContents, ContentsAre DEF contents
<1>6. UndoOK'
  BY <1>1 DEF Core, UndoOK
<1> QED BY <1>1, <1>5, <1>6 DEF Core, RefineOK, AsksOK, PasteOK, Session, panel, import

(* Undo gives back whole contents, or none. *)
LEMMA UndoActionKeeps ==
  ASSUME Core, UndoAction
  PROVE  Core'
<1>1. UNCHANGED <<panel, parses>> /\ action' = None /\ removed' \in {None, removed}
      /\ Contents(action.before) /\ action.kind \in {"refine", "import"}
      /\ (action.kind = "import" => Session(action.paste))
  BY DEF UndoAction, Core, UndoOK
<1>2. sections' \in Texts /\ meta' \in [Vars -> SUBSET Settings] /\ filled' \in [Vars -> Values]
  <2>1. CASE ~UnchangedSince
    BY <2>1, CoreContents DEF UndoAction, contents
  <2>2. CASE UnchangedSince
    BY <1>1, <2>2, CoreContents DEF UndoAction, Contents
  <2> QED BY <2>1, <2>2
<1>3. Contents(contents)'
  BY <1>2, ContentsAre DEF contents
<1>4. paste' = paste \/ (action.kind = "import" /\ paste' = action.paste)
  BY <1>1 DEF UndoAction
<1>5. PasteOK'
  BY <1>1, <1>4 DEF Core, PasteOK
<1>6. UndoOK'
  BY <1>1 DEF Core, UndoOK
<1> QED BY <1>1, <1>3, <1>5, <1>6 DEF Core, RefineOK, AsksOK, panel

LEMMA EditingKeeps ==
  ASSUME Core, Editing
  PROVE  Core'
<1>1. sections \in Texts /\ meta \in [Vars -> SUBSET Settings] /\ filled \in [Vars -> Values]
  BY CoreContents
<1>2. ASSUME NEW i, RemoveSection(i)
      PROVE  Core'
  BY <1>2, RemoveSectionKeeps
<1>3. ASSUME NEW i, NEW body \in Bodies, UpdateSection(i, body)
      PROVE  Core'
  <2>1. sections' \in Texts
    BY <1>1, <1>3, InputsAssumption, BodyReplaced DEF UpdateSection
  <2> QED BY <1>1, <1>3, <2>1, OnlyContents DEF UpdateSection, panel
<1>4. CASE UndoRemove \/ UndoAction
  BY <1>4, UndoRemoveKeeps, UndoActionKeeps
<1>5. CASE NoticeExpires \/ Saved
  <2>1. UNCHANGED <<contents, panel, import>> /\ removed' \in {None, removed} /\ action' \in {None, action}
    BY <1>5 DEF NoticeExpires, Saved
  <2>2. Contents(contents)' /\ UndoOK'
    BY <2>1 DEF Core, UndoOK, Contents
  <2> QED BY <2>1, <2>2 DEF Core, RefineOK, AsksOK, PasteOK, Session, panel, import
<1>6. ASSUME NEW s \in Elsewhere, RestoredElsewhere(s)
      PROVE  Core'
  <2>1. sections' \in Texts
    BY <1>6, InputsAssumption DEF RestoredElsewhere
  <2> QED BY <1>1, <1>6, <2>1, OnlyContents DEF RestoredElsewhere, panel
<1>7. ASSUME NEW s \in Elsewhere, Discarded(s)
      PROVE  Core'
  <2>1. sections' \in Texts /\ meta' = NoSettings /\ UNCHANGED <<filled, panel, parses>>
        /\ action' = None /\ removed' = None /\ paste' = EmptyPaste
    BY <1>7, InputsAssumption DEF Discarded
  <2>2. Contents(contents)'
    BY <1>1, <2>1, NothingTyped, ContentsAre DEF contents
  <2>3. PasteOK' /\ UndoOK'
    BY <2>1, NothingTyped DEF Core, PasteOK, UndoOK
  <2> QED BY <2>1, <2>2, <2>3 DEF Core, RefineOK, AsksOK, panel
<1> QED BY <1>2, <1>3, <1>4, <1>5, <1>6, <1>7 DEF Editing

LEMMA InsertVariableKeeps ==
  ASSUME Core, NEW i, NEW j, NEW x \in Vars, InsertVariable(i, j, x)
  PROVE  Core'
<1>1. sections \in Texts /\ meta \in [Vars -> SUBSET Settings] /\ filled \in [Vars -> Values]
      /\ i \in DOMAIN sections /\ j \in DOMAIN sections[i].body
      /\ sections \in Seq(Section) /\ DOMAIN sections = 1..Len(sections)
  BY CoreContents DEF InsertVariable
<1> DEFINE body == [sections[i].body EXCEPT ![j] = [kind |-> "var", text |-> x]]
<1>2. sections[i] \in Section
  BY <1>1, ElementOfSeq
<1>3. sections[i].body \in Seq(Part) /\ [kind |-> "var", text |-> x] \in Part
  BY <1>2 DEF Section, Part
<1>4. body \in Seq(Part)
  BY <1>1, <1>3, ExceptSeq
<1>5. sections' = [sections EXCEPT ![i].body = body]
  BY DEF InsertVariable
<1> HIDE DEF body
<1>6. sections' \in Texts
  BY <1>1, <1>4, <1>5, BodyReplaced
<1>7. meta' \in [Vars -> SUBSET Settings]
  <2>1. meta' = [meta EXCEPT ![x] = @ \cup {"example"}]
    BY DEF InsertVariable
  <2>2. meta[x] \cup {"example"} \in SUBSET Settings
    BY <1>1 DEF Settings
  <2> QED BY <1>1, <2>1, <2>2
<1> QED BY <1>1, <1>6, <1>7, OnlyContents DEF InsertVariable, panel

LEMMA FillingKeeps ==
  ASSUME Core, Filling
  PROVE  Core'
<1>1. sections \in Texts /\ meta \in [Vars -> SUBSET Settings] /\ filled \in [Vars -> Values]
      /\ sections \in Seq(Section) /\ Len(sections) \in 1..MaxSections
  BY CoreContents
<1>2. CASE AddSection
  <2>1. sections' = Append(sections, [name |-> UniqueName(sections), body |-> <<>>])
        /\ Len(sections) < MaxSections
    BY <1>2 DEF AddSection
  <2>2. <<>> \in Seq(Part)
    BY EmptySeq
  <2>3. [name |-> UniqueName(sections), body |-> <<>>] \in Section
    BY <1>1, <2>2, UniqueNameIsNatural DEF Section
  <2>4. sections' \in Seq(Section) /\ Len(sections') = Len(sections) + 1
    BY <1>1, <2>1, <2>3
  <2>5. sections' \in Texts
    BY <1>1, <2>1, <2>4, BoundsAssumption DEF Texts
  <2> QED BY <1>1, <1>2, <2>5, OnlyContents DEF AddSection, panel
<1>3. CASE LoadExamples
  <2>1. Example \in Values
    BY InputsAssumption DEF Example, Values
  <2>2. filled' \in [Vars -> Values]
    BY <1>1, <1>3, <2>1 DEF LoadExamples
  <2> QED BY <1>1, <1>3, <2>2, OnlyContents DEF LoadExamples, panel
<1>4. CASE ClearValues
  BY <1>1, <1>4, NothingTyped, OnlyContents DEF ClearValues, panel
<1>5. CASE TryOnce \/ TryAnswer
  <2>1. UNCHANGED <<contents, panel, undo, import>>
    BY <1>5 DEF TryOnce, TryAnswer
  <2>2. RefineOK' /\ AsksOK'
    BY <2>1 DEF Core, RefineOK, AsksOK, panel
  <2> QED BY <2>1, <2>2, OnlyRefine
<1>6. ASSUME NEW s \in Elsewhere, ReplaceSections(s)
      PROVE  Core'
  <2>1. sections' \in Texts
    BY <1>6, InputsAssumption DEF ReplaceSections
  <2> QED BY <1>6, <2>1, NothingTyped, OnlyContents DEF ReplaceSections, panel
<1>7. ASSUME NEW x \in Vars, NEW setting \in Settings, ChangeMetadata(x, setting)
      PROVE  Core'
  <2>1. meta' \in [Vars -> SUBSET Settings]
    <3>1. (IF setting \in meta[x] THEN meta[x] \ {setting} ELSE meta[x] \cup {setting}) \in SUBSET Settings
      BY <1>1, <1>7
    <3> QED BY <1>1, <1>7, <3>1 DEF ChangeMetadata
  <2> QED BY <1>1, <1>7, <2>1, OnlyContents DEF ChangeMetadata, panel
<1>8. ASSUME NEW x \in Vars, RemoveSettings(x)
      PROVE  Core'
  <2>1. meta' \in [Vars -> SUBSET Settings]
    BY <1>1, <1>8 DEF RemoveSettings
  <2> QED BY <1>1, <1>8, <2>1, OnlyContents DEF RemoveSettings, panel
<1>9. ASSUME NEW x \in Vars, NEW value \in Words \cup {""}, ValueChange(x, value)
      PROVE  Core'
  <2>1. filled' \in [Vars -> Values]
    BY <1>1, <1>9 DEF ValueChange, Values
  <2> QED BY <1>1, <1>9, <2>1, OnlyContents DEF ValueChange, panel
<1>10. ASSUME NEW i, NEW j, NEW x \in Vars, InsertVariable(i, j, x)
       PROVE  Core'
  BY <1>10, InsertVariableKeeps
<1> QED BY <1>2, <1>3, <1>4, <1>5, <1>6, <1>7, <1>8, <1>9, <1>10 DEF Filling

-----------------------------------------------------------------------------
(* Paste a prompt *)

LEMMA ReviewedPart ==
  ASSUME NEW p, Session(p), p.conv # None, ~ReviewError(p), NEW part \in Part
  PROVE  ReviewPart(p, part) \in Part
<1>1. CASE ~IsVar(part) \/ part.text \notin DOMAIN p.vars
  BY <1>1 DEF ReviewPart
<1>2. CASE IsVar(part) /\ part.text \in DOMAIN p.vars
  <2>1. p.vars[part.text] \in Variable
    BY <1>2 DEF Session
  <2>2. CASE p.vars[part.text].reuse
    <3>1. p.vars[part.text].name \in Vars
      BY <1>2, <2>2 DEF ReviewError, Reusable
    <3> QED BY <1>2, <2>2, <3>1 DEF ReviewPart, Part
  <2>3. CASE ~p.vars[part.text].reuse
    <3>1. p.vars[part.text].value \in STRING
      BY <2>1, InputsAssumption DEF Variable
    <3> QED BY <1>2, <2>3, <3>1 DEF ReviewPart, Part
  <2> QED BY <2>2, <2>3
<1> QED BY <1>1, <1>2

LEMMA ReviewedFields ==
  ASSUME NEW p, Session(p), p.conv # None, ~ReviewError(p)
  PROVE  ReviewFields(p) \in Texts
<1> DEFINE s == p.conv.fields
           body(i) == [j \in DOMAIN s[i].body |-> ReviewPart(p, s[i].body[j])]
           t == ReviewFields(p)
<1>1. s \in Texts
  <2>1. p.text \in PasteTexts /\ p.conv = [of |-> p.text, fields |-> Conversion[p.text]]
    BY DEF Session
  <2> QED BY <2>1, InputsAssumption
<1>2. t = [i \in DOMAIN s |-> [s[i] EXCEPT !.body = body(i)]]
  BY DEF ReviewFields
<1>3. \A i \in DOMAIN s : body(i) \in Seq(Part)
  <2> TAKE i \in DOMAIN s
  <2>1. s[i].body \in Seq(Part)
    <3>1. s \in Seq(Section)
      BY <1>1 DEF Texts
    <3>2. s[i] \in Section
      BY <3>1, ElementOfSeq
    <3> QED BY <3>2 DEF Section
  <2> DEFINE b == s[i].body
  <2>2. Len(b) \in Nat /\ DOMAIN b = 1..Len(b) /\ \A j \in DOMAIN b : b[j] \in Part
    BY <2>1
  <2>3. \A j \in DOMAIN b : ReviewPart(p, b[j]) \in Part
    BY <2>2, ReviewedPart
  <2> HIDE DEF b
  <2>4. [j \in DOMAIN b |-> ReviewPart(p, b[j])] \in Seq(Part)
    BY <2>2, <2>3
  <2> QED BY <2>4 DEF b
<1>4. \A i \in DOMAIN s : \E new \in Seq(Part) : t[i] = [s[i] EXCEPT !.body = new]
  <2> HIDE DEF s, body, t
  <2> QED BY <1>2, <1>3
<1>5. DOMAIN t = DOMAIN s /\ t = [i \in DOMAIN s |-> t[i]]
  <2> HIDE DEF s, body, t
  <2> QED BY <1>2
<1> HIDE DEF s, t
<1>6. t \in Texts
  BY <1>1, <1>4, <1>5, BodiesReplaced
<1> QED BY <1>6 DEF t

LEMMA InputsTyped ==
  ASSUME NEW p, Session(p), p.conv # None, NEW n \in DOMAIN Inputs(p)
  PROVE  Inputs(p)[n] \in Values
<1>1. PICK x \in Reusable(p) : p.vars[x].name = n
  BY DEF Inputs
<1> DEFINE y == CHOOSE z \in Reusable(p) : p.vars[z].name = n
<1>2. y \in Reusable(p)
  BY <1>1
<1>3. p.vars[y] \in Variable
  BY <1>2 DEF Reusable, Session
<1>4. Inputs(p)[n] = p.vars[y].value
  BY DEF Inputs
<1> HIDE DEF y
<1> QED BY <1>3, <1>4 DEF Variable

LEMMA ImportKeeps ==
  ASSUME Core, NEW fields \in Texts, NEW settings \in [Vars -> SUBSET Settings],
         NEW values \in [Vars -> Values], ImportSections(fields, settings, values)
  PROVE  Core'
<1>1. UNCHANGED <<panel, removed, parses>> /\ paste' = EmptyPaste
      /\ sections' = fields /\ meta' = settings /\ filled' = values
      /\ action' = [kind |-> "import", before |-> contents, after |-> <<fields, settings, values>>,
                    paste |-> paste]
  BY DEF ImportSections
<1>2. Contents(contents)'
  BY <1>1, ContentsAre DEF contents
<1>3. PasteOK'
  BY <1>1, NothingTyped DEF Core, PasteOK
<1>4. UndoOK'
  BY <1>1 DEF Core, UndoOK, PasteOK
<1> QED BY <1>1, <1>2, <1>3, <1>4 DEF Core, RefineOK, AsksOK, panel

LEMMA UseInEditorKeeps ==
  ASSUME Core, UseInEditor
  PROVE  Core'
<1> DEFINE inputs == Inputs(paste)
           settings == [n \in Vars |-> IF n \in DOMAIN inputs
                          THEN {"hint"} \cup (IF paste.keep /\ inputs[n] # "" THEN {"example"} ELSE {})
                          ELSE {}]
           values == [n \in Vars |-> IF n \in DOMAIN inputs THEN inputs[n] ELSE ""]
<1>1. Session(paste) /\ paste.conv # None /\ ~ReviewError(paste)
  BY DEF UseInEditor, Core, PasteOK, Session
<1>2. ReviewFields(paste) \in Texts
  BY <1>1, ReviewedFields
<1>3. settings \in [Vars -> SUBSET Settings]
  BY DEF Settings
<1>4. values \in [Vars -> Values]
  BY <1>1, InputsTyped DEF Values
<1>5. ImportSections(ReviewFields(paste), settings, values)
  BY DEF UseInEditor
<1> HIDE DEF settings, values
<1> QED BY <1>2, <1>3, <1>4, <1>5, ImportKeeps

LEMMA KeepAsWrittenKeeps ==
  ASSUME Core, KeepAsWritten
  PROVE  Core'
<1> DEFINE body == <<[kind |-> "word", text |-> paste.text]>>
<1>1. paste.text \in STRING
  BY InputsAssumption DEF Core, PasteOK, Session, Values
<1>2. [kind |-> "word", text |-> paste.text] \in Part
  BY <1>1 DEF Part
<1>3. body \in Seq(Part)
  BY <1>2
<1>4. ImportSections(<<[name |-> 1, body |-> body]>>, NoSettings, NoValues)
  BY DEF KeepAsWritten
<1> HIDE DEF body
<1> QED BY <1>3, <1>4, OneSection, NothingTyped, ImportKeeps

LEMMA ConvertedSession ==
  ASSUME NEW text \in PasteTexts, NEW v \in [VariablesIn(Conversion[text]) -> Variable],
         NEW keep, NEW reviewing
  PROVE  Session([text |-> text, conv |-> [of |-> text, fields |-> Conversion[text]],
                  vars |-> v, keep |-> keep, reviewing |-> reviewing])
<1> DEFINE conv == [of |-> text, fields |-> Conversion[text]]
<1>1. conv # None
  BY NoneAssumption
<1> QED BY <1>1 DEF Session

LEMMA ConvertAnswerKeeps ==
  ASSUME Core, ConvertAnswer
  PROVE  Core'
<1>1. parses # None /\ parses' = None /\ paste' = Converted(parses, parses.text)
      /\ UNCHANGED <<contents, panel, undo>>
  BY DEF ConvertAnswer, PasteStep
<1>2. Session(parses) /\ parses.text \in PasteTexts
  BY <1>1 DEF Core, PasteOK
<1> DEFINE text == parses.text
           conv == [of |-> text, fields |-> Conversion[text]]
           found == [x \in VariablesIn(Conversion[text]) |->
                      [name |-> x, value |-> Extracted[text][x], reuse |-> TRUE]]
<1>3. paste' = [text |-> text, conv |-> conv, vars |-> found, keep |-> FALSE, reviewing |-> TRUE]
  BY <1>1, <1>2 DEF Converted, Session
<1>4. conv # None
  BY <1>2, NoneAssumption
<1>5. found \in [VariablesIn(Conversion[text]) -> Variable]
  BY <1>2, InputsAssumption DEF Variable, VariablesIn
<1>6. PasteOK'
  <2> HIDE DEF found
  <2>1. Session([text |-> text, conv |-> conv, vars |-> found, keep |-> FALSE, reviewing |-> TRUE])
    BY <1>2, <1>5, ConvertedSession
  <2>2. Session(paste')
    BY <1>3, <2>1
  <2> QED BY <1>1, <2>2 DEF PasteOK, Session
<1> QED BY <1>1, <1>6, OnlyPaste DEF panel

LEMMA ReviewKeeps ==
  ASSUME Core, KeepExamples \/ \E x \in Vars :
           \E change \in [name : Vars \cup {"1x"}, value : Words \cup {""}, reuse : BOOLEAN] :
             ChangeVariable(x, change)
  PROVE  Core'
<1>1. Session(paste) /\ paste.conv # None
  <2>1. paste.reviewing
    BY DEF KeepExamples, ChangeVariable
  <2> QED BY <2>1 DEF Core, PasteOK, Session
<1>2. CASE KeepExamples
  <2>1. paste' = [paste EXCEPT !.keep = ~@] /\ UNCHANGED <<contents, panel, undo, parses>>
    BY <1>2 DEF KeepExamples
  <2>2. paste' = [text |-> paste.text, conv |-> paste.conv, vars |-> paste.vars,
                  keep |-> ~paste.keep, reviewing |-> paste.reviewing]
    BY <1>1, <2>1 DEF Session
  <2>3. PasteOK'
    BY <1>1, <2>1, <2>2 DEF Core, PasteOK, Session
  <2> QED BY <2>1, <2>3, OnlyPaste DEF panel
<1>3. ASSUME NEW x \in Vars,
             NEW change \in [name : Vars \cup {"1x"}, value : Words \cup {""}, reuse : BOOLEAN],
             ChangeVariable(x, change)
      PROVE  Core'
  <2>1. paste' = [paste EXCEPT !.vars[x] = change] /\ x \in DOMAIN paste.vars
        /\ UNCHANGED <<contents, panel, undo, parses>>
    BY <1>3 DEF ChangeVariable
  <2>2. change \in Variable
    BY DEF Variable, Values
  <2>3. paste' = [text |-> paste.text, conv |-> paste.conv, vars |-> [paste.vars EXCEPT ![x] = change],
                  keep |-> paste.keep, reviewing |-> paste.reviewing]
    BY <1>1, <2>1 DEF Session
  <2>4. [paste.vars EXCEPT ![x] = change] \in [VariablesIn(Conversion[paste.text]) -> Variable]
    BY <1>1, <2>1, <2>2 DEF Session
  <2>5. PasteOK'
    BY <1>1, <2>1, <2>3, <2>4 DEF Core, PasteOK, Session
  <2> QED BY <2>1, <2>5, OnlyPaste DEF panel
<1> QED BY <1>2, <1>3

LEMMA PastingKeeps ==
  ASSUME Core, Pasting
  PROVE  Core'
<1>1. CASE OpenPaste \/ ClosePaste \/ ConvertFails
  <2>1. UNCHANGED <<contents, panel, undo, paste>> /\ parses' \in {None, parses}
    BY <1>1 DEF OpenPaste, ClosePaste, ConvertFails, PasteStep
  <2>2. PasteOK'
    BY <2>1 DEF Core, PasteOK
  <2> QED BY <2>1, <2>2, OnlyPaste DEF panel
<1>2. CASE Convert
  <2>1. UNCHANGED <<contents, panel, undo, paste>> /\ parses' = paste /\ paste.text # ""
    BY <1>2 DEF Convert, PasteStep
  <2>2. paste.text \in PasteTexts
    BY <2>1 DEF Core, PasteOK, Session
  <2>3. PasteOK'
    BY <2>1, <2>2 DEF Core, PasteOK
  <2> QED BY <2>1, <2>3, OnlyPaste DEF panel
<1>3. CASE BackToSource \/ ReturnToReview
  <2>1. UNCHANGED <<contents, panel, undo, parses>> /\ paste.conv # None
        /\ \E b \in BOOLEAN : paste' = [paste EXCEPT !.reviewing = b]
    BY <1>3 DEF BackToSource, ReturnToReview, PasteStep, Core, PasteOK, Session
  <2>2. PICK b \in BOOLEAN : paste' = [paste EXCEPT !.reviewing = b]
    BY <2>1
  <2>3. paste' = [text |-> paste.text, conv |-> paste.conv, vars |-> paste.vars,
                  keep |-> paste.keep, reviewing |-> b]
    BY <2>2 DEF Core, PasteOK, Session
  <2>4. PasteOK'
    BY <2>1, <2>3 DEF Core, PasteOK, Session
  <2> QED BY <2>1, <2>4, OnlyPaste DEF panel
<1>4. ASSUME NEW text \in PasteTexts, TypePaste(text)
      PROVE  Core'
  <2>1. UNCHANGED <<contents, panel, undo, parses>> /\ parses = None
        /\ paste' = [EmptyPaste EXCEPT !.text = text]
    BY <1>4 DEF TypePaste, PasteStep
  <2>2. PasteOK'
    BY <2>1 DEF PasteOK, Session, EmptyPaste
  <2> QED BY <2>1, <2>2, OnlyPaste DEF panel
<1> QED BY <1>1, <1>2, <1>3, <1>4, ConvertAnswerKeeps, ReviewKeeps, UseInEditorKeeps, KeepAsWrittenKeeps
        DEF Pasting

-----------------------------------------------------------------------------
(* The review of a conversion *)

Fill(part, values) ==
  IF IsVar(part) /\ part.text \in DOMAIN values /\ values[part.text] # ""
  THEN [kind |-> "word", text |-> values[part.text]]
  ELSE part

Direct(p, part) ==
  IF ~IsVar(part) THEN part
  ELSE IF p.vars[part.text].value # "" THEN [kind |-> "word", text |-> p.vars[part.text].value]
       ELSE [kind |-> "var", text |-> p.vars[part.text].name]

(* No two variables share a name, so each finds its own value. *)
LEMMA InputIsItsOwn ==
  ASSUME NEW p, ~ReviewError(p), NEW x \in Reusable(p)
  PROVE  p.vars[x].name \in DOMAIN Inputs(p) /\ Inputs(p)[p.vars[x].name] = p.vars[x].value
<1> DEFINE n == p.vars[x].name
           y == CHOOSE z \in Reusable(p) : p.vars[z].name = n
<1>1. y \in Reusable(p) /\ p.vars[y].name = n
  OBVIOUS
<1>2. y = x
  BY <1>1 DEF ReviewError
<1>3. n \in {p.vars[z].name : z \in Reusable(p)}
  OBVIOUS
<1>4. Inputs(p)[n] = p.vars[y].value
  BY <1>3 DEF Inputs
<1> HIDE DEF y
<1> QED BY <1>2, <1>3, <1>4 DEF Inputs

LEMMA PartReadsTheSame ==
  ASSUME NEW p, ~ReviewError(p), NEW part, IsVar(part) => part.text \in DOMAIN p.vars
  PROVE  Fill(ReviewPart(p, part), Inputs(p)) = Direct(p, part)
<1>1. CASE ~IsVar(part)
  BY <1>1 DEF ReviewPart, Fill, Direct
<1>2. CASE IsVar(part)
  <2> DEFINE v == p.vars[part.text]
  <2>1. CASE v.reuse
    <3>1. part.text \in Reusable(p)
      BY <1>2, <2>1 DEF Reusable
    <3>2. v.name \in DOMAIN Inputs(p) /\ Inputs(p)[v.name] = v.value
      BY <3>1, InputIsItsOwn
    <3>3. ReviewPart(p, part) = [kind |-> "var", text |-> v.name]
      BY <1>2, <2>1 DEF ReviewPart
    <3>4. Direct(p, part) = IF v.value # "" THEN [kind |-> "word", text |-> v.value]
                            ELSE [kind |-> "var", text |-> v.name]
      BY <1>2 DEF Direct
    <3> HIDE DEF v
    <3>5. Fill([kind |-> "var", text |-> v.name], Inputs(p)) =
            IF v.value # "" THEN [kind |-> "word", text |-> v.value]
            ELSE [kind |-> "var", text |-> v.name]
      BY <3>2 DEF Fill, IsVar
    <3> QED BY <3>3, <3>4, <3>5
  <2>2. CASE ~v.reuse
    <3>1. v.value # ""
      BY <1>2, <2>2 DEF ReviewError, Reusable
    <3>2. ReviewPart(p, part) = [kind |-> "word", text |-> v.value]
      BY <1>2, <2>2 DEF ReviewPart
    <3>3. Direct(p, part) = [kind |-> "word", text |-> v.value]
      BY <1>2, <3>1 DEF Direct
    <3> HIDE DEF v
    <3>4. Fill([kind |-> "word", text |-> v.value], Inputs(p)) = [kind |-> "word", text |-> v.value]
      BY DEF Fill, IsVar
    <3> QED BY <3>2, <3>3, <3>4
  <2> QED BY <2>1, <2>2
<1> QED BY <1>1, <1>2

(* A new body twice over is the second. *)
LEMMA BodyTwice ==
  ASSUME NEW e \in Section, NEW one, NEW two
  PROVE  /\ [e EXCEPT !.body = one].body = one
         /\ [[e EXCEPT !.body = one] EXCEPT !.body = two] = [e EXCEPT !.body = two]
BY DEF Section

LEMMA ReviewReadsTheSame ==
  ASSUME NEW p, Session(p), p.conv # None, ~ReviewError(p)
  PROVE  FillVariables(ReviewFields(p), Inputs(p)) =
           [i \in DOMAIN p.conv.fields |-> [p.conv.fields[i] EXCEPT !.body =
              [j \in DOMAIN p.conv.fields[i].body |-> Direct(p, p.conv.fields[i].body[j])]]]
<1> DEFINE s == p.conv.fields
           R == ReviewFields(p)
           I == Inputs(p)
           reviewed(i) == [j \in DOMAIN s[i].body |-> ReviewPart(p, s[i].body[j])]
           filling(i) == [j \in DOMAIN R[i].body |-> Fill(R[i].body[j], I)]
           direct(i) == [j \in DOMAIN s[i].body |-> Direct(p, s[i].body[j])]
<1>1. p.text \in PasteTexts /\ p.conv = [of |-> p.text, fields |-> Conversion[p.text]]
      /\ DOMAIN p.vars = VariablesIn(s)
  <2>1. p.text \in PasteTexts /\ p.conv = [of |-> p.text, fields |-> Conversion[p.text]]
        /\ DOMAIN p.vars = VariablesIn(Conversion[p.text])
    BY DEF Session
  <2>2. s = Conversion[p.text]
    BY <2>1
  <2> QED BY <2>1, <2>2
<1>2. s \in Seq(Section)
  BY <1>1, InputsAssumption DEF Texts
<1>3. R = [i \in DOMAIN s |-> [s[i] EXCEPT !.body = reviewed(i)]]
  BY DEF ReviewFields
<1>4. FillVariables(R, I) = [i \in DOMAIN R |-> [R[i] EXCEPT !.body = filling(i)]]
  BY DEF FillVariables, Fill
<1>5. ASSUME NEW i \in DOMAIN s
      PROVE  [R[i] EXCEPT !.body = filling(i)] = [s[i] EXCEPT !.body = direct(i)]
  <2>1. s[i] \in Section /\ s[i].body \in Seq(Part)
    <3>1. s[i] \in Section
      BY <1>2, ElementOfSeq
    <3> QED BY <3>1 DEF Section
  <2>2. R[i] = [s[i] EXCEPT !.body = reviewed(i)]
    BY <1>3
  <2>3. R[i].body = reviewed(i)
    <3> HIDE DEF s, R, reviewed
    <3>1. [s[i] EXCEPT !.body = reviewed(i)].body = reviewed(i)
      BY <2>1, BodyTwice
    <3> QED BY <2>2, <3>1
  <2>4. \A j \in DOMAIN s[i].body : IsVar(s[i].body[j]) => s[i].body[j].text \in DOMAIN p.vars
    <3> SUFFICES ASSUME NEW j \in DOMAIN s[i].body, IsVar(s[i].body[j])
                 PROVE  s[i].body[j].text \in VariablesIn(s)
      BY <1>1
    <3>1. s[i].body[j] \in Part
      BY <2>1, ElementOfSeq
    <3>2. s[i].body[j].text \in Vars /\ s[i].body[j] = [kind |-> "var", text |-> s[i].body[j].text]
      BY <3>1 DEF Part, IsVar
    <3> QED BY <3>2 DEF VariablesIn
  <2>5. \A j \in DOMAIN s[i].body : Fill(ReviewPart(p, s[i].body[j]), I) = Direct(p, s[i].body[j])
    BY <2>4, PartReadsTheSame
  <2>6. filling(i) = direct(i)
    BY <2>3, <2>5
  <2> HIDE DEF s, R, reviewed, filling, direct
  <2>7. [R[i] EXCEPT !.body = filling(i)] = [[s[i] EXCEPT !.body = reviewed(i)] EXCEPT !.body = direct(i)]
    BY <2>2, <2>6
  <2> QED BY <2>1, <2>7, BodyTwice
<1>6. FillVariables(R, I) = [i \in DOMAIN s |-> [s[i] EXCEPT !.body = direct(i)]]
  <2>1. DOMAIN R = DOMAIN s
    BY <1>3
  <2> HIDE DEF s, R, filling, direct
  <2> QED BY <1>4, <1>5, <2>1
<1> QED BY <1>6

LEMMA ReviewHolds ==
  ASSUME PasteOK
  PROVE  ReviewKeepsText
<1> SUFFICES ASSUME paste.reviewing, ~ReviewError(paste)
             PROVE  ReviewKeepsText
  BY DEF ReviewKeepsText
<1>1. Session(paste) /\ paste.conv # None
  BY DEF PasteOK, Session
<1> QED BY <1>1, ReviewReadsTheSame DEF ReviewKeepsText, Direct

-----------------------------------------------------------------------------
(* The invariant *)

LEMMA CheckKeeps ==
  ASSUME IInv, RunCheck \/ \E outcome \in {"done", "failed"} : CheckAnswer(outcome)
  PROVE  IInv'
<1>1. CheckOK'
  <2>1. CASE RunCheck
    <3>1. check' = [state |-> "busy", draft |-> check.draft, ran |-> check.draft] /\ refine' = refine
          /\ check.state \in {"offered", "failed"}
      BY <2>1 DEF RunCheck, IInv, CheckOK, panel
    <3> QED BY <3>1 DEF IInv, CheckOK
  <2>2. ASSUME NEW outcome \in {"done", "failed"}, CheckAnswer(outcome)
        PROVE  CheckOK'
    <3>1. check' = [state |-> outcome, draft |-> check.draft, ran |-> check.ran] /\ refine' = refine
          /\ check.state = "busy"
      BY <2>2 DEF CheckAnswer, IInv, CheckOK, panel
    <3> QED BY <3>1 DEF IInv, CheckOK
  <2> QED BY <2>1, <2>2
<1>2. UNCHANGED <<contents, refine, asks, undo, import>>
  BY DEF RunCheck, CheckAnswer, panel
<1>3. RefineOK' /\ AsksOK' /\ Core
  BY <1>2 DEF IInv, Core, RefineOK, AsksOK
<1>4. Core'
  BY <1>2, <1>3, OnlyRefine
<1> QED BY <1>1, <1>4 DEF IInv, Core

LEMMA InitHolds ==
  ASSUME Init
  PROVE  IInv
<1>1. Contents(contents)
  BY InputsAssumption, NothingTyped, ContentsAre DEF Init, contents
<1>2. RefineOK
  BY FS_EmptySet, BoundsAssumption DEF Init, RefineOK, NewSession
<1>3. AsksOK /\ CheckOK /\ UndoOK
  BY DEF Init, AsksOK, CheckOK, UndoOK, NoCheck
<1>4. PasteOK
  BY NothingTyped DEF Init, PasteOK
<1> QED BY <1>1, <1>2, <1>3, <1>4 DEF IInv

LEMMA NextKeeps ==
  ASSUME IInv, [Next]_vars
  PROVE  IInv'
<1>1. Core /\ CheckOK
  BY DEF IInv, Core
<1>2. CASE Refining /\ Rerender
  BY <1>1, <1>2, RefiningKeeps, Rerendered DEF IInv, Core
<1>3. CASE Editing /\ Rerender
  BY <1>1, <1>3, EditingKeeps, Rerendered DEF IInv, Core
<1>4. CASE Filling /\ Rerender
  BY <1>1, <1>4, FillingKeeps, Rerendered DEF IInv, Core
<1>5. CASE Pasting /\ Rerender
  BY <1>1, <1>5, PastingKeeps, Rerendered DEF IInv, Core
<1>6. CASE RunCheck \/ \E outcome \in {"done", "failed"} : CheckAnswer(outcome)
  BY <1>6, CheckKeeps
<1>7. CASE UNCHANGED vars
  <2>1. UNCHANGED <<contents, refine, asks, undo, import>> /\ check' = check
    BY <1>7 DEF vars, panel
  <2>2. RefineOK' /\ AsksOK' /\ CheckOK'
    BY <1>1, <2>1 DEF Core, RefineOK, AsksOK, CheckOK
  <2>3. Core'
    BY <1>1, <2>1, <2>2, OnlyRefine
  <2> QED BY <2>2, <2>3 DEF IInv, Core
<1> QED BY <1>2, <1>3, <1>4, <1>5, <1>6, <1>7 DEF Next

LEMMA IInvImplies ==
  ASSUME IInv
  PROVE  AssistInvariant
<1>1. TypeOK
  <2>1. sections \in Texts /\ meta \in [Vars -> SUBSET Settings] /\ filled \in [Vars -> Values]
    BY CoreContents DEF IInv, Core
  <2>2. refine.busy \in {"no", "questions", "draft"}
    BY DEF IInv, RefineOK
  <2>3. check.state \in {"none", "offered", "busy", "done", "failed"}
    BY DEF IInv, CheckOK
  <2>4. paste.reviewing => paste.conv # None
    BY DEF IInv, PasteOK, Session
  <2> QED BY <2>1, <2>2, <2>3, <2>4 DEF TypeOK
<1>2. EvidenceOfOneRun
  BY DEF IInv, AsksOK, EvidenceOfOneRun
<1>3. CheckIsOfDraft
  BY DEF IInv, CheckOK, CheckIsOfDraft
<1>4. ConversionOfText
  <2>1. paste.conv # None => paste.conv = [of |-> paste.text, fields |-> Conversion[paste.text]]
    BY DEF IInv, PasteOK, Session
  <2>2. [of |-> paste.text, fields |-> Conversion[paste.text]].of = paste.text
    OBVIOUS
  <2> QED BY <2>1, <2>2, Zenon DEF ConversionOfText
<1>5. ReviewKeepsText
  BY ReviewHolds DEF IInv
<1> QED BY <1>1, <1>2, <1>3, <1>4, <1>5 DEF AssistInvariant

(* Whatever order answers, edits, restores, discards and Undo come in.      *)
LEMMA AlwaysIInv == Spec => []IInv
<1>1. Init => IInv
  BY InitHolds
<1>2. IInv /\ [Next]_vars => IInv'
  BY NextKeeps
<1> QED BY <1>1, <1>2, PTL DEF Spec

(* The panel and the import dialog show what belongs together: the evidence *)
(* sent is of one run, a finished check is of the draft beside it, a        *)
(* conversion is of its text and its review changes nothing the text says.  *)
THEOREM AssistHolds == Spec => []AssistInvariant
<1>1. IInv => AssistInvariant
  BY IInvImplies
<1> QED BY <1>1, AlwaysIInv, PTL

(* Apply changes puts a draft only over the sections it was written for.    *)
THEOREM DraftsApplyToTheirSource == Spec => AppliesOnlyFreshDraft
<1>1. IInv /\ [Next]_vars => [ApplyChanges => refine.draft.of = sections]_vars
  BY ApplyFits DEF IInv, Core
<1> QED BY <1>1, AlwaysIInv, PTL DEF Spec, AppliesOnlyFreshDraft

LEMMA UndoStep ==
  ASSUME IInv, UndoAction, sections' # sections
  PROVE  /\ sections = action.after[1] /\ sections' = action.before[1]
         /\ action.kind = "import" => contents = action.after /\ contents' = action.before
<1>1. UnchangedSince /\ sections' = action.before[1]
  BY DEF UndoAction, contents
<1>2. action.kind \in {"refine", "import"} /\ Contents(action.before)
  BY DEF UndoAction, IInv, UndoOK
<1>3. CASE action.kind = "refine"
  BY <1>1, <1>3 DEF UnchangedSince
<1>4. CASE action.kind = "import"
  <2>1. contents = action.after
    BY <1>1, <1>4 DEF UnchangedSince
  <2>2. sections = action.after[1]
    BY <2>1 DEF contents
  <2>3. sections' = action.before[1] /\ meta' = action.before[2] /\ filled' = action.before[3]
    BY <1>1, <1>4 DEF UndoAction
  <2>4. action.before = <<action.before[1], action.before[2], action.before[3]>>
    BY <1>2 DEF Contents
  <2>5. contents' = action.before
    BY <2>3, <2>4 DEF contents
  <2> QED BY <1>1, <2>1, <2>2, <2>5
<1> QED BY <1>2, <1>3, <1>4

(* Undo of Apply and of Use in editor gives back exactly what was replaced, *)
(* and only while nothing has changed since.                                *)
THEOREM UndoGivesBack == Spec => UndoIsExact
<1>1. IInv /\ [Next]_vars =>
        [UndoAction /\ sections' # sections =>
           /\ sections = action.after[1] /\ sections' = action.before[1]
           /\ action.kind = "import" => contents = action.after /\ contents' = action.before]_vars
  BY UndoStep
<1> QED BY <1>1, AlwaysIInv, PTL DEF Spec, UndoIsExact

=============================================================================
