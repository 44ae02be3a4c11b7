---------------------------- MODULE MCWtmImport ----------------------------
(* Three requests and two endpoints: two of the requests, of which one     *)
(* names no service, match both endpoints, and the last none of them, so   *)
(* that it can be lost behind another one.                                 *)
EXTENDS WtmImport, TLC

CONSTANTS r1, r2, r3, e1, e2, w1, w2

MCMatches == [r \in Request |-> IF r = r3 THEN {} ELSE {e1, e2}]

\* one configuration, as the HTTP wiring admin is the only one there is
MCOneConfig == [x \in Endpoint \cup WA |-> "http"]

\* the admins are interchangeable, and so are the endpoints
MCSymmetry ==
  Permutations({w1, w2}) \cup Permutations({e1, e2})
=============================================================================
