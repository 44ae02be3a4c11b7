----------------------------- MODULE MCRsaImport -----------------------------
(* Two services of one interface over one wire with its send service, and  *)
(* two WTMs of which one is running before the RSA starts.                 *)
EXTENDS RsaImport, TLC

CONSTANTS i1, w1

MCInterfaceOf == [e \in Import |-> i1]
MCWireOf      == [e \in Import |-> w1]
MCSendWire    == [x \in SendService |-> w1]

\* descriptions and send services are interchangeable
MCSymmetry ==
  Permutations(Import) \cup Permutations(SendService)
=============================================================================
