----------------------------- MODULE MCRuntimeIpc -----------------------------
(* The bounds are in the configuration. *)
EXTENDS RuntimeIpc

CONSTANT log1
=============================================================================
