---------------------------- MODULE MCRsaExport ----------------------------
(* One service with one interface, two wires, and two WTMs of which one is *)
(* running before the RSA starts.                                          *)
EXTENDS RsaExport

CONSTANTS s1, r1, v1, v2

MCServiceOf == [r \in Reg |-> s1]
=============================================================================
