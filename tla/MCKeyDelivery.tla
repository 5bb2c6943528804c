----------------------------- MODULE MCKeyDelivery -----------------------------
(* Two members.  *)
EXTENDS KeyDelivery

CONSTANTS m1, m2
=============================================================================
