-------------------------- MODULE MCPromptLibrary --------------------------
(* Small instances of PromptLibrary.                                       *)
EXTENDS PromptLibrary, TLC

CONSTANTS h1, h2, c1, c2

\* "role" and "Role" are two spellings of a section name that render to the
\* same tag; "goal" renders to another text; "prompt" is the whole-text section.
MCSections == {"role", "Role", "goal", "prompt"}

MCTexts == {"ROLE", "GOAL", "PROMPT", "drifted"}

MCRender == [s \in MCSections |->
    CASE s \in {"role", "Role"} -> "ROLE" [] s = "goal" -> "GOAL" [] s = "prompt" -> "PROMPT"]

MCWholeText == [t \in MCTexts |-> "prompt"]

\* A prompt in step with its text, and one whose text had drifted.
MCLegacyPrompts == {<<"role", "ROLE">>, <<"goal", "drifted">>}

InStep == {<<"role", "ROLE">>}

NoChange == [sections |-> Unset, meta |-> Unset, name |-> Unset, known |-> Unset,
             folder |-> Unset, note |-> Unset]

\* Saves of new sections, of another spelling, of variable metadata, a rename,
\* a move, and known-good marks at and past the newest version.
MCUpdateBodies ==
    {[NoChange EXCEPT !.sections = "goal", !.note = "n"],
     [NoChange EXCEPT !.sections = "Role", !.known = 2],
     [NoChange EXCEPT !.meta = "typed"],
     [NoChange EXCEPT !.name = <<2>>, !.folder = "work"],
     [NoChange EXCEPT !.known = 2]}

MCBlindBodies == {[NoChange EXCEPT !.sections = "goal"]}

NoBodies == {}

\* Only what changes the content.
EditBodies ==
    {[NoChange EXCEPT !.sections = "goal"],
     [NoChange EXCEPT !.sections = "Role"],
     [NoChange EXCEPT !.sections = "prompt"]}

MCCreateBodies ==
    {[sections |-> "role", meta |-> "plain", name |-> <<1>>, folder |-> "work"]}

Symmetry == Permutations(Handlers) \cup Permutations(Clients)

=============================================================================
