--------------------------- MODULE MCLibraryView ---------------------------
(* Two prompts and a copy, two folders, two operations under way at a time. *)
EXTENDS LibraryView

MCIds == {1, 2}
MCFiled == {1}
MCSlots == {1, 2}

=============================================================================
