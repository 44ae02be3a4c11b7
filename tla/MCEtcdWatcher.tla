--------------------------- MODULE MCEtcdWatcher ---------------------------
(* One wire of this node and one of the other.                             *)
EXTENDS EtcdWatcher

CONSTANTS o1, r1, r2

=============================================================================
