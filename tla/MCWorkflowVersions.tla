------------------------- MODULE MCWorkflowVersions -------------------------
(* The sessions are interchangeable.                                        *)
EXTENDS WorkflowVersions, TLC

Symmetry == Permutations(Sessions)
=============================================================================
