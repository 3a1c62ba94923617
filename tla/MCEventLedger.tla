--------------------------- MODULE MCEventLedger ---------------------------
(* A small instance of EventLedger for TLC. *)
EXTENDS EventLedger

CONSTANTS t1, t2, t3, e1

=============================================================================
