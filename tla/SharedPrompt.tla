---------------------------- MODULE SharedPrompt ----------------------------
(***************************************************************************)
(* What a prompt editor promises the other people who write to a prompt.   *)
(* The stored text is one register.  Others (another tab, another device,  *)
(* the ChatGPT plugin) write to it whenever they like; restoring a version *)
(* replaces it too, and history keeps what it replaced.  The editor itself *)
(* overwrites only a text it has taken notice of.  A prompt not saved yet  *)
(* holds None.                                                             *)
(***************************************************************************)
CONSTANTS Texts, None

VARIABLES
  text,    \* the stored text
  by,      \* who wrote it: "own", "other" or "restore"
  known    \* the texts this editor showed its user or was told to replace

vars == <<text, by, known>>

Init ==
  /\ text \in Texts \cup {None}
  /\ by = "other"
  /\ known = {}

(* The editor shows a text, or its user accepts replacing one unseen. *)
Learn ==
  /\ known' \in SUBSET Texts
  /\ known \subseteq known'
  /\ UNCHANGED <<text, by>>

Create ==
  /\ text = None
  /\ text' \in Texts
  /\ by' = "own"
  /\ UNCHANGED known

(* The editor's save replaces only a text it knows. *)
OwnSave ==
  /\ text \in known
  /\ text' \in Texts
  /\ by' = "own"
  /\ UNCHANGED known

OtherSave ==
  /\ text # None
  /\ text' \in Texts
  /\ by' = "other"
  /\ UNCHANGED known

Restore ==
  /\ text # None
  /\ text' \in Texts
  /\ by' = "restore"
  /\ UNCHANGED known

Next == Learn \/ Create \/ OwnSave \/ OtherSave \/ Restore

Spec == Init /\ [][Next]_vars

=============================================================================
