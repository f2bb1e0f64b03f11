--------------------------- MODULE MCMessageEditing ---------------------------
(* Small instances of MessageEditing.  EditHistory ids are numbers handed out *)
(* in order; editors and bodies are interchangeable.                          *)
EXTENDS MessageEditing, TLC

Ids == Permutations(Editors) \cup Permutations(Bodies) \cup Permutations(Messages)

AllWindows == {-1, 0, 1}

HandedOutInOrder ==
    \A g, h \in Histories : g < h /\ Unused(g) => Unused(h)
=============================================================================
