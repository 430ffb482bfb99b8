--------------------------- MODULE MCEditorAssist ---------------------------
(* Instance of EditorAssist: two variables, two pasted texts, two runs.  A    *)
(* behaviour uses Refine, or Paste, or fills the prompt in, each among edits; *)
(* scope says which, so that the three state spaces add up.                  *)
EXTENDS EditorAssist

Word(w) == [kind |-> "word", text |-> w]
Var(x) == [kind |-> "var", text |-> x]
One == <<[name |-> 1, body |-> <<Word("w")>>]>>
Two == <<[name |-> 1, body |-> <<Word("w")>>], [name |-> 3, body |-> <<Var("a")>>]>>

MCBodies == {<<Var("a")>>}
MCRefined == <<Word("w"), Word("w")>>
MCElsewhere == {One, Two}
MCConversion == [t \in {"p", "q"} |->
  IF t = "p" THEN <<[name |-> 1, body |-> <<Var("a"), Word("w"), Var("b")>>]>>
  ELSE <<[name |-> 1, body |-> <<Word("w"), Var("b")>>]>>]
MCExtracted == [t \in {"p", "q"} |-> [x \in {"a", "b"} |-> IF x = "a" THEN "w" ELSE ""]]
MCHistories == {<<[tested |-> One, version |-> TRUE, results |-> {11, 12}],
                  [tested |-> None, version |-> TRUE, results |-> {21}]>>,
                <<[tested |-> Two, version |-> FALSE, results |-> {31, 32}]>>}

(* Reviewing a conversion multiplies states: fewer inputs there. *)
MaxPasteSteps == 3

VARIABLE scope

MCInit == Init /\ scope \in {"refine", "paste", "fill"}

MCNext ==
  /\ UNCHANGED scope
  /\ \/ scope = "refine" /\ (Refining \/ Editing) /\ Rerender
     \/ scope = "refine" /\ (RunCheck \/ \E outcome \in {"done", "failed"} : CheckAnswer(outcome))
     \/ scope = "paste" /\ (Pasting \/ Editing) /\ Rerender /\ steps' <= MaxPasteSteps
     \/ scope = "fill" /\ (Filling \/ Editing \/ OpenRefine \/ CloseRefine) /\ Rerender

MCSpec == MCInit /\ [][MCNext]_<<vars, scope>> /\ WF_<<vars, scope>>(Answers /\ Rerender /\ UNCHANGED scope)
=============================================================================
