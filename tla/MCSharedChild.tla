----------------------------- MODULE MCSharedChild -----------------------------
(* Two callers, and transports enough for a crash, a failed launch and a     *)
(* teardown; callers and transports are interchangeable.                     *)
EXTENDS SharedChild, TLC

CONSTANTS a1, a2, t1, t2, t3

Interchangeable == Permutations({a1, a2}) \cup Permutations({t1, t2, t3})
=============================================================================
