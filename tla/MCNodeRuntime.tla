----------------------------- MODULE MCNodeRuntime -----------------------------
(* A connection, the topic the workspace and other users share, two          *)
(* discoveries and two calls that leave while others join.                   *)
EXTENDS NodeRuntime

CONSTANTS c1, t1, d1, d2, l1, l2
=============================================================================
