----------------------------- MODULE MCWireCall -----------------------------
(***************************************************************************)
(* Three calls between two nodes: a call from a to b, whose service may    *)
(* call a, whose service may call b again; two of them may also come from  *)
(* applications.  And a request to b that is no call.                      *)
(***************************************************************************)
EXTENDS WireCall

CONSTANTS a, b, c1, c2, c3, g

MCFrom == [c \in Call |-> IF c = c2 THEN b ELSE a]
MCTo == [c \in Call |-> IF c = c2 THEN a ELSE b]
=============================================================================
