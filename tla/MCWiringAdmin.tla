--------------------------- MODULE MCWiringAdmin ---------------------------
(* Two interchangeable worker threads.                                     *)
EXTENDS WiringAdmin, TLC

CONSTANTS k1, k2

=============================================================================
