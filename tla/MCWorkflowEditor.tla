-------------------------- MODULE MCWorkflowEditor --------------------------
(* Workflows that are on the server, and ids for new ones.                  *)
EXTENDS WorkflowEditor

CONSTANTS a, b, c, d

MCWorkflows == {a, b, c, d}
MCExisting  == {a, b}
=============================================================================
