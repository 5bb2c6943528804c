-------------------------- MODULE MCWorkspaceSession --------------------------
(* Two logs, of which one has blocks, so that the other is passed over; one    *)
(* flush besides the one of close(), and one failure.                          *)
EXTENDS WorkspaceSession, TLC

CONSTANTS data, blobs, timerFlush

MCLogs == <<data, blobs>>
MCMaxLen == (data :> 2) @@ (blobs :> 0)
=============================================================================
