-------------------------- MODULE MCTaskExecution --------------------------
EXTENDS TaskExecution
=============================================================================
