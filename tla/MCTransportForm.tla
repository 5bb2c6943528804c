--------------------------- MODULE MCTransportForm ---------------------------
(* Model values and state constraint-free bounds for TransportForm. *)
EXTENDS TransportForm
CONSTANTS timer, closing
=============================================================================
