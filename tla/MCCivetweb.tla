----------------------------- MODULE MCCivetweb -----------------------------
(***************************************************************************)
(* Three workers, and one connection more than the ring and the workers    *)
(* hold: the ring is full while all workers serve, and its indices wrap.   *)
(***************************************************************************)
EXTENDS Civetweb
=============================================================================
