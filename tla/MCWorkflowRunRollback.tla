------------------------ MODULE MCWorkflowRunRollback ------------------------
(* Small instances of WorkflowRunRollback.  Ids are interchangeable: the code *)
(* compares them for equality only.                                           *)
EXTENDS WorkflowRunRollback, TLC

Ids == Permutations(Channels) \cup Permutations(Callers)

\* Message ids are numbers handed out in order: one representative of every
\* state up to a renaming of its messages.
HandedOutInOrder ==
    \A m, n \in Messages : m < n /\ Fresh(m) => Fresh(n)
=============================================================================
