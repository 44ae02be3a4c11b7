---------------------------- MODULE MCWtmExport ----------------------------
(* Two services with equal properties and one of a class of its own, which *)
(* only the first wiring admin can carry.                                  *)
EXTENDS WtmExport, TLC

CONSTANTS s1, s2, s3, p1, p2, w1, w2

MCPropsOf == [s \in Service |-> IF s = s3 THEN p2 ELSE p1]
MCCapable == [p \in Props |-> IF p = p1 THEN WA ELSE {w1}]

\* s1 and s2 have equal properties and are interchangeable
MCSymmetry == Permutations({s1, s2})
=============================================================================
