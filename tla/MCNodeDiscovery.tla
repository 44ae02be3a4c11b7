-------------------------- MODULE MCNodeDiscovery --------------------------
(* Two wires and two listeners, interchangeable.                           *)
EXTENDS NodeDiscovery, TLC

CONSTANTS w1, w2, l1, l2

MCSymmetry == Permutations(Wire) \cup Permutations(Listener)
=============================================================================
