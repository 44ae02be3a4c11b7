----------------------------- MODULE RemoteCall -----------------------------
(***************************************************************************)
(* What a remote call promises, whatever carries it: its service runs at   *)
(* most once and is given the whole request; it answers at most once, when *)
(* the calls that it makes itself have returned; and its caller gets that  *)
(* answer, or none.  What was cut off by the stop of a server or, before   *)
(* the service is called, by a caller that has gone, may be in part.       *)
(***************************************************************************)
EXTENDS Naturals

CONSTANTS Call, None,
          MaxReply     \* bound: units of an answer

VARIABLES state,       \* of the caller: "new", "calling" or "returned"
          parent,      \* the call whose service makes this one, or None
          cut,         \* the calls whose server is being stopped
          service,     \* "idle", "running" or "answered"
          given,       \* what the service was given: "no", "whole", "garbage"
          answer,      \* units of its answer
          got          \* what the caller has got

vars == <<state, parent, cut, service, given, answer, got>>

Nothing == [status |-> "none", reply |-> 0]

Init == /\ state = [c \in Call |-> "new"]
        /\ parent = [c \in Call |-> None]
        /\ cut = {}
        /\ service = [c \in Call |-> "idle"]
        /\ given = [c \in Call |-> "no"]
        /\ answer = [c \in Call |-> 0]
        /\ got = [c \in Call |-> Nothing]

Invoke(c) == /\ state[c] = "new"
             /\ state' = [state EXCEPT ![c] = "calling"]
             /\ UNCHANGED <<parent, cut, service, given, answer, got>>

\* The service of the call d makes the call c.
Nest(c, d) == /\ state[c] = "new" /\ service[d] = "running"
              /\ state' = [state EXCEPT ![c] = "calling"]
              /\ parent' = [parent EXCEPT ![c] = d]
              /\ UNCHANGED <<cut, service, given, answer, got>>

\* A caller that has given up may still be served.
Serve(c) == /\ service[c] = "idle" /\ state[c] # "new"
            /\ service' = [service EXCEPT ![c] = "running"]
            /\ \E g \in {"whole", "garbage"} :
                 /\ g = "garbage" => state[c] = "returned" \/ c \in cut
                 /\ given' = [given EXCEPT ![c] = g]
            /\ UNCHANGED <<state, parent, cut, answer, got>>

Answer(c) == /\ service[c] = "running"
             /\ \A d \in Call : parent[d] = c => state[d] = "returned"
             /\ service' = [service EXCEPT ![c] = "answered"]
             /\ \E n \in 0..MaxReply : answer' = [answer EXCEPT ![c] = n]
             /\ UNCHANGED <<state, parent, cut, given, got>>

\* An error may come with part of an answer.  The caller takes it for a success
\* that nothing was heard at all, and what a stopping server got out of the
\* answer for all of it.
MayGet(c) ==
  {[status |-> "error", reply |-> n] : n \in 0..answer[c]}
    \cup {[status |-> "ok", reply |-> n] :
            n \in {m \in 0..answer[c] :
                     \/ m = 0
                     \/ c \in cut
                     \/ m = answer[c] /\ service[c] = "answered" /\ given[c] = "whole"}}

Return(c) == /\ state[c] = "calling"
             /\ state' = [state EXCEPT ![c] = "returned"]
             /\ \E r \in MayGet(c) : got' = [got EXCEPT ![c] = r]
             /\ UNCHANGED <<parent, cut, service, given, answer>>

\* A server is told to stop.
Cut == /\ \E S \in SUBSET Call : cut' = cut \cup S
       /\ UNCHANGED <<state, parent, service, given, answer, got>>

Next == \/ \E c \in Call : Invoke(c) \/ Serve(c) \/ Answer(c) \/ Return(c)
        \/ \E c, d \in Call : Nest(c, d)
        \/ Cut

Spec == Init /\ [][Next]_vars
=============================================================================
