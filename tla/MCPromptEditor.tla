--------------------------- MODULE MCPromptEditor ---------------------------
(* Instance of PromptEditor: two names of which one is also typed padded, an *)
(* invalid name, one text over the limit.                                    *)
EXTENDS PromptEditor

MCNames == {"task", " task", "out"}
MCValid == {"task", "out"}
MCNormal == [n \in MCNames |-> IF n = " task" THEN "task" ELSE n]
MCTag == [n \in MCNames |-> IF n = "out" THEN "OUT" ELSE "TASK"]
MCEdits ==
  {[name |-> " task", body |-> "mine"], [name |-> "out", body |-> "empty"],
   [name |-> "out", body |-> "long"]}
MCOthers ==
  {<<[name |-> "task", body |-> "theirs"]>>,
   <<[name |-> "task", body |-> "theirs"], [name |-> "out", body |-> "mine"]>>}
=============================================================================
