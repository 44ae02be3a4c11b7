----------------------------- MODULE ServerPool -----------------------------
(***************************************************************************)
(* What the pool of threads of the web server promises, without threads,   *)
(* locks or indices: connections numbered 1, 2, ... come in, wait in order *)
(* in a queue of bounded length, and are served by workers, each at most   *)
(* once.  A connection may be lost only when the server is being stopped,  *)
(* and the server is stopped only when no worker serves any more.          *)
(***************************************************************************)
EXTENDS Naturals, Sequences

CONSTANTS Worker,        \* the workers
          Size,          \* how many connections may wait
          Nothing        \* no connection

VARIABLES last,          \* the connection that came in last
          pending,       \* the connections that wait, in order
          serving,       \* the connection of each worker
          state          \* "open", "stopping" or "stopped"

vars == <<last, pending, serving, state>>

Init == /\ last = 0
        /\ pending = <<>>
        /\ serving = [w \in Worker |-> Nothing]
        /\ state = "open"

\* The next connection is put behind the others.
Arrive == /\ state # "stopped"
          /\ Len(pending) < Size
          /\ last' = last + 1
          /\ pending' = Append(pending, last')
          /\ UNCHANGED <<serving, state>>

\* A connection that finds the queue full is lost once the stop has begun,
\* and only then.
Turn == /\ state = "stopping"
        /\ Len(pending) = Size
        /\ last' = last + 1
        /\ UNCHANGED <<pending, serving, state>>

Take(w) == /\ state # "stopped"
           /\ serving[w] = Nothing
           /\ pending # <<>>
           /\ serving' = [serving EXCEPT ![w] = Head(pending)]
           /\ pending' = Tail(pending)
           /\ UNCHANGED <<last, state>>

Finish(w) == /\ serving[w] # Nothing
             /\ serving' = [serving EXCEPT ![w] = Nothing]
             /\ UNCHANGED <<last, pending, state>>

BeginStop == /\ state = "open"
             /\ state' = "stopping"
             /\ UNCHANGED <<last, pending, serving>>

EndStop == /\ state = "stopping"
           /\ serving = [w \in Worker |-> Nothing]
           /\ state' = "stopped"
           /\ pending' = <<>>
           /\ UNCHANGED <<last, serving>>

Next == \/ Arrive \/ Turn \/ BeginStop \/ EndStop
        \/ \E w \in Worker : Take(w) \/ Finish(w)

Spec == Init /\ [][Next]_vars
=============================================================================
