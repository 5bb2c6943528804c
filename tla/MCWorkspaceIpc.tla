---------------------------- MODULE MCWorkspaceIpc ----------------------------
(* The bounds are in the configuration. *)
EXTENDS WorkspaceIpc
=============================================================================
