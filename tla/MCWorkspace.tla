----------------------------- MODULE MCWorkspace -----------------------------
(* TLC instances of Workspace: small sets of jobs, fields and threads.      *)
EXTENDS Workspace
=============================================================================
