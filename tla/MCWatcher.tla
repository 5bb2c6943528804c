------------------------------- MODULE MCWatcher -------------------------------
(* Three contents of a file: two of them of one size. *)
EXTENDS Watcher, TLC

CONSTANTS draft, edited, longer

MCSizeOf == (draft :> 1) @@ (edited :> 1) @@ (longer :> 2)
=============================================================================
