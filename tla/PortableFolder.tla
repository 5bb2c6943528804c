---------------------------- MODULE PortableFolder ----------------------------
(***************************************************************************)
(* What the folder promises for one log, whatever the flushing device does *)
(* (docs/workspace-format.md, § store/): a copy of the folder holds a      *)
(* prefix of the log, which is possibly stale.  It only ever grows until   *)
(* two flushes of the log have raced; after that a copy still holds a      *)
(* prefix, but it may be any.                                              *)
(***************************************************************************)
EXTENDS Naturals

VARIABLES
    length,   \* blocks the writer has appended
    covered,  \* the prefix an empty device recovers from a copy of the folder
    raced     \* two flushes have taken the same numbers, or may have

vars == <<length, covered, raced>>

\* A new log, or one that was hydrated from a folder.
Init == length \in Nat /\ covered \in 0..length /\ raced = FALSE

Write == length' = length + 1 /\ UNCHANGED <<covered, raced>>

Publish ==
    /\ covered < length
    /\ covered' \in (covered + 1)..length
    /\ UNCHANGED <<length, raced>>

Race == raced' = TRUE /\ UNCHANGED <<length, covered>>

\* A message is renamed over another one.
Overwrite ==
    /\ raced
    /\ covered' \in 0..length
    /\ UNCHANGED <<length, raced>>

Next == Write \/ Publish \/ Race \/ Overwrite

Spec == Init /\ [][Next]_vars
=============================================================================
