----------------------------- MODULE MCWorkspaceRun -----------------------------
(* Instances of WorkspaceRun for TLC. *)
EXTENDS WorkspaceRun
===============================================================================
