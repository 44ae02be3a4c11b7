-------------------------- MODULE WiringAdminProofs --------------------------
(* Proofs about WiringAdmin, for any worker threads and methods and any    *)
(* number of endpoints and web servers.                                    *)
EXTENDS WiringAdmin, TLAPS

(***************************************************************************)
(* The inductive invariant.  What it says of the lock and the server holds *)
(* until a request that is not a POST has released the lock.               *)
(***************************************************************************)

Open == phase \in {"created", "running", "stopping", "stopped", "unregistered"}

\* a worker that reads, walks or calls holds the lock; so does who waits in
\* mg_stop, but in the destruction
LockInv ==
  /\ \A w \in Worker : pc[w] \in {"reading", "walking", "calling"} => lock = w
  /\ closing["wtm"] # None => lock = "wtm" /\ phase \in {"running", "stopped"}
  /\ closing["framework"] # None => phase \in {"stopping", "destroying"}
  /\ phase = "stopping" =>
       lock = "framework" /\ closing["framework"] # None /\ tracked = {}

\* the server that runs is the one of ctx, and without an endpoint it is
\* being stopped; the others were left by an export that failed
ServerInv ==
  /\ \A t \in Thread : closing[t] # None => closing[t] = ctx
  /\ up \ {ctx} \subseteq orphan
  /\ Open /\ tracked = {} /\ (\A t \in Thread : closing[t] = None) => up \subseteq orphan
  /\ ~Open /\ closing["framework"] = None => up \subseteq orphan

\* a request is answered on a server that runs
BusyInv == \A w \in Worker : pc[w] # "idle" => at[w] \in up

\* after the stop only what was exported later is tracked
LateInv == phase \notin {"created", "running"} => tracked \subseteq late

FaultInv ==
  /\ fault = "freed admin" => stray \/ orphan # {} \/ late # {}
  /\ fault = "freed server" => stray

IInv ==
  /\ TypeOK /\ ListedExact
  /\ stray \/ (LockInv /\ ServerInv)
  /\ BusyInv /\ LateInv /\ FaultInv

-----------------------------------------------------------------------------
(***************************************************************************)
(* The types.                                                              *)
(***************************************************************************)

LEMMA ThreadFacts ==
  /\ Thread = {"wtm", "framework"} /\ "wtm" # "framework"
  /\ None \notin Thread /\ None \notin Worker /\ None \notin Server
  /\ \A w \in Worker : w \notin Thread
BY WiringAdminAssumption DEF Thread

\* A wire that is created is a new one.
LEMMA NextWire ==
  ASSUME nextWire \in 1..(MaxWire + 1), nextWire <= MaxWire, nextWire' = nextWire + 1
  PROVE  /\ nextWire' \in 1..(MaxWire + 1)
         /\ Created' = Created \cup {nextWire}
         /\ nextWire \notin Created
BY WiringAdminAssumption DEF Created

LEMMA NextServer ==
  ASSUME nextServer \in 1..(MaxServer + 1), nextServer <= MaxServer
  PROVE  nextServer \in Server /\ nextServer + 1 \in 1..(MaxServer + 1)
BY WiringAdminAssumption DEF Server

LEMMA ExportType ==
  ASSUME TypeOK, NEW b \in BOOLEAN, ExportWiringEndpoint(b)
  PROVE  TypeOK'
<1>1. /\ nextWire' \in 1..(MaxWire + 1)
      /\ Created' = Created \cup {nextWire}
  BY NextWire DEF ExportWiringEndpoint, TypeOK
<1>2. /\ ctx' \in Server \cup {None} /\ up' \subseteq Server
      /\ nextServer' \in 1..(MaxServer + 1)
  BY NextServer DEF ExportWiringEndpoint, StartWebserver, TypeOK
<1>3. orphan' \subseteq Server
  BY <1>2 DEF ExportWiringEndpoint, TypeOK
<1>4. /\ tracked' \subseteq Created' /\ late' \subseteq Created'
      /\ registered' \subseteq Created' /\ listed' \subseteq Created'
  BY <1>1 DEF ExportWiringEndpoint, TypeOK
<1> QED
  BY <1>1, <1>2, <1>3, <1>4 DEF ExportWiringEndpoint, workers, TypeOK

LEMMA TypeStep == ASSUME TypeOK, [Next]_vars PROVE TypeOK'
<1>1. ASSUME NEW b \in BOOLEAN, ExportWiringEndpoint(b) PROVE TypeOK'
  BY <1>1, ExportType
<1>2. CASE ~ \E b \in BOOLEAN : ExportWiringEndpoint(b)
  <2>1. UNCHANGED <<nextWire, nextServer, Created>>
    BY <1>2 DEF Next, Created, RemoveExportedWiringEndpoint, WiringReceiveAdded,
       WiringReceiveRemoved, Start, Stop, Unregister, Destroy, DestroyFree, MgStopReturn,
       Request, Answer, PlainUnlock, PostLock, PostWalk, PostReceive, PostReturn, vars, servers,
       wires, workers
  <2>2. ASSUME NEW w \in Wire, RemoveExportedWiringEndpoint(w) PROVE TypeOK'
    <3>1. listed' \subseteq Created /\ tracked' \subseteq Created
      BY <2>2 DEF RemoveExportedWiringEndpoint, ListsBecome, TypeOK
    <3>2. fault' \in {"none", "freed server", "freed admin", "map changed while read"}
      BY <2>2 DEF RemoveExportedWiringEndpoint, ListsBecome
    <3> QED
      BY <2>1, <2>2, <3>1, <3>2, ThreadFacts DEF RemoveExportedWiringEndpoint,
         StopWebserver, workers, history, TypeOK
  <2>3. ASSUME NEW w \in Wire, WiringReceiveAdded(w) \/ WiringReceiveRemoved(w)
        PROVE  TypeOK'
    <3>1. fault' \in {"none", "freed server", "freed admin", "map changed while read"}
      BY <2>3 DEF WiringReceiveAdded, WiringReceiveRemoved, CallBack, ListsBecome, TypeOK
    <3>2. listed' \subseteq Created
      BY <2>3 DEF WiringReceiveAdded, WiringReceiveRemoved, CallBack, ListsBecome, TypeOK
    <3> QED
      BY <2>1, <2>3, <3>1, <3>2 DEF WiringReceiveAdded, WiringReceiveRemoved, servers, workers,
         history, TypeOK
  <2>4. CASE Stop
    <3>1. listed' \subseteq Created
      BY <2>4 DEF Stop, ListsBecome, TypeOK
    <3>2. fault' \in {"none", "freed server", "freed admin", "map changed while read"}
      BY <2>4 DEF Stop, ListsBecome
    <3> QED
      BY <2>1, <2>4, <3>1, <3>2, ThreadFacts DEF Stop, StopWebserver, workers, history, TypeOK
  <2>5. CASE Start \/ Unregister \/ DestroyFree
    BY <2>1, <2>5 DEF Start, Unregister, DestroyFree, servers, wires, workers, history, TypeOK
  <2>6. CASE Destroy
    BY <2>1, <2>6 DEF Destroy, wires, workers, history, TypeOK
  <2>7. ASSUME NEW t \in Thread, MgStopReturn(t) PROVE TypeOK'
    <3>1. /\ listed' \subseteq Created /\ phase' \in {phase, "stopped"}
          /\ fault' \in {"none", "freed server", "freed admin", "map changed while read"}
      BY <2>7 DEF MgStopReturn, ListsBecome, TypeOK
    <3> QED
      BY <2>1, <2>7, <3>1 DEF MgStopReturn, workers, history, TypeOK
  <2>8. ASSUME NEW w \in Worker, NEW s \in Server, NEW m \in Method, Request(w, s, m)
        PROVE  TypeOK'
    BY <2>1, <2>8 DEF Request, UseAdmin, servers, wires, history, TypeOK
  <2>9. ASSUME NEW w \in Worker, Answer(w) PROVE TypeOK'
    <3>1. fault' \in {"none", "freed server", "freed admin", "map changed while read"}
      BY <2>9 DEF Answer, PlainUnlock, PostLock, PostWalk, PostReceive, PostReturn, UseAdmin
    <3> QED
      BY <2>1, <2>9, <3>1 DEF Answer, PlainUnlock, PostLock, PostWalk, PostReceive,
         PostReturn, servers, wires, history, TypeOK
  <2>10. CASE UNCHANGED vars
    BY <2>1, <2>10 DEF vars, servers, wires, workers, history, TypeOK
  <2> QED
    BY <1>2, <2>2, <2>3, <2>4, <2>5, <2>6, <2>7, <2>8, <2>9, <2>10 DEF Next
<1> QED
  BY <1>1, <1>2

-----------------------------------------------------------------------------
(***************************************************************************)
(* The receive services, and what is tracked after the stop.               *)
(***************************************************************************)

LEMMA ListedStep ==
  ASSUME TypeOK, ListedExact, LateInv, stray \/ LockInv, [Next]_vars
  PROVE  ListedExact'
<1>1. ASSUME NEW b \in BOOLEAN, ExportWiringEndpoint(b) PROVE ListedExact'
  <2>1. nextWire \notin registered
    BY <1>1, NextWire DEF ExportWiringEndpoint, TypeOK
  <2> QED
    BY <1>1, <2>1 DEF ExportWiringEndpoint, ListedExact
<1>2. ASSUME NEW w \in Wire, RemoveExportedWiringEndpoint(w) PROVE ListedExact'
  BY <1>2 DEF RemoveExportedWiringEndpoint, ListsBecome, history, ListedExact
<1>3. ASSUME NEW w \in Wire, WiringReceiveAdded(w) \/ WiringReceiveRemoved(w)
      PROVE  ListedExact'
  BY <1>3 DEF WiringReceiveAdded, WiringReceiveRemoved, CallBack, ListsBecome, history,
     ListedExact
<1>4. CASE Stop
  BY <1>4 DEF Stop, ListsBecome, history, ListedExact
<1>5. ASSUME NEW t \in Thread, MgStopReturn(t) PROVE ListedExact'
  <2>1. UNCHANGED <<tracked, registered, stray, late>>
    BY <1>5 DEF MgStopReturn, history
  <2>2. CASE UNCHANGED listed
    BY <2>1, <2>2 DEF ListedExact
  <2>3. CASE phase = "stopping" /\ listed' = {}
    <3>1. tracked \subseteq late
      BY <2>3 DEF LateInv
    <3>2. stray \/ tracked = {}
      BY <2>3 DEF LockInv
    <3> QED
      BY <2>1, <2>3, <3>1, <3>2 DEF ListedExact
  <2> QED
    BY <1>5, <2>2, <2>3 DEF MgStopReturn, ListsBecome
<1>6. CASE \/ Start \/ Unregister \/ Destroy \/ DestroyFree
           \/ \E w \in Worker, s \in Server, m \in Method : Request(w, s, m)
           \/ \E w \in Worker : Answer(w)
           \/ UNCHANGED vars
  <2>1. UNCHANGED <<wires, late>> /\ (stray => stray')
    BY <1>6 DEF Start, Unregister, Destroy, DestroyFree, Request, Answer,
       PlainUnlock, PostLock, PostWalk, PostReceive, PostReturn, vars, wires, history
  <2> QED
    BY <2>1 DEF wires, ListedExact
<1> QED
  BY <1>1, <1>2, <1>3, <1>4, <1>5, <1>6 DEF Next

LEMMA LateStep == ASSUME TypeOK, LateInv, [Next]_vars PROVE LateInv'
<1>1. ASSUME NEW b \in BOOLEAN, ExportWiringEndpoint(b) PROVE LateInv'
  BY <1>1 DEF ExportWiringEndpoint, LateInv
<1>2. ASSUME NEW w \in Wire, RemoveExportedWiringEndpoint(w) PROVE LateInv'
  BY <1>2 DEF RemoveExportedWiringEndpoint, history, LateInv
<1>3. CASE Stop
  BY <1>3 DEF Stop, LateInv
<1>4. CASE Start
  BY <1>4 DEF Start, LateInv
<1>5. CASE Unregister \/ Destroy \/ DestroyFree
  BY <1>5 DEF Unregister, Destroy, DestroyFree, wires, history, LateInv
<1>6. CASE \/ \E w \in Wire : WiringReceiveAdded(w) \/ WiringReceiveRemoved(w)
           \/ \E w \in Worker, s \in Server, m \in Method : Request(w, s, m)
           \/ \E w \in Worker : Answer(w)
           \/ UNCHANGED vars
  <2>1. UNCHANGED <<phase, tracked, late>>
    BY <1>6 DEF WiringReceiveAdded, WiringReceiveRemoved, Request, Answer,
       PlainUnlock, PostLock, PostWalk, PostReceive, PostReturn, vars, wires, history
  <2> QED
    BY <2>1 DEF LateInv
<1>7. CASE \E t \in Thread : MgStopReturn(t)
  BY <1>7 DEF MgStopReturn, history, LateInv
<1> QED
  BY <1>1, <1>2, <1>3, <1>4, <1>5, <1>6, <1>7 DEF Next

-----------------------------------------------------------------------------
(***************************************************************************)
(* The lock and the servers.                                               *)
(***************************************************************************)

\* While the lock is intact, nobody waits in mg_stop when the lock is free
\* and the admin has not been destroyed.
LEMMA NobodyStops ==
  ASSUME LockInv, Open, lock = None
  PROVE  \A t \in Thread : closing[t] = None
BY ThreadFacts DEF LockInv, Open

LEMMA LockStep ==
  ASSUME TypeOK, LockInv, [Next]_vars, ~stray'
  PROVE  LockInv'
<1>1. ASSUME NEW b \in BOOLEAN, ExportWiringEndpoint(b) PROVE LockInv'
  BY <1>1, ThreadFacts DEF ExportWiringEndpoint, workers, LockInv
<1>2. ASSUME NEW w \in Wire, RemoveExportedWiringEndpoint(w) PROVE LockInv'
  <2>1. lock = None /\ phase \in {"running", "stopped"} /\ UNCHANGED <<phase, pc>>
    BY <1>2, ThreadFacts DEF RemoveExportedWiringEndpoint, Serving, workers, LockInv
  <2>2. \A t \in Thread : closing[t] = None
    BY <2>1, NobodyStops DEF Open
  <2>3. \A v \in Worker : pc[v] \notin {"reading", "walking", "calling"}
    BY <2>1, ThreadFacts DEF LockInv
  <2>4. CASE tracked' = {}
    <3>1. /\ closing' = [closing EXCEPT !["wtm"] = ctx]
          /\ lock' = IF ctx = None THEN None ELSE "wtm"
      BY <1>2, <2>4 DEF RemoveExportedWiringEndpoint, StopWebserver
    <3> QED
      BY <2>1, <2>2, <2>3, <3>1, ThreadFacts DEF LockInv, TypeOK
  <2>5. CASE tracked' # {}
    <3>1. UNCHANGED <<closing, lock>>
      BY <1>2, <2>5 DEF RemoveExportedWiringEndpoint
    <3> QED
      BY <2>1, <3>1 DEF LockInv
  <2> QED
    BY <2>4, <2>5
<1>3. CASE Stop
  <2>1. /\ lock = None /\ phase = "running" /\ UNCHANGED pc /\ tracked' = {}
        /\ phase' = IF ctx = None THEN "stopped" ELSE "stopping"
        /\ lock' = IF ctx = None THEN None ELSE "framework"
        /\ closing'["framework"] = ctx /\ closing'["wtm"] = closing["wtm"]
    BY <1>3, ThreadFacts DEF Stop, StopWebserver, workers, TypeOK
  <2>2. \A t \in Thread : closing[t] = None
    BY <2>1, NobodyStops DEF Open
  <2>3. \A v \in Worker : pc[v] \notin {"reading", "walking", "calling"}
    BY <2>1, ThreadFacts DEF LockInv
  <2> QED
    BY <2>1, <2>2, <2>3, ThreadFacts DEF LockInv
<1>4. CASE Start
  BY <1>4 DEF Start, servers, wires, workers, LockInv
<1>5. CASE Unregister
  BY <1>5, ThreadFacts DEF Unregister, servers, wires, workers, LockInv
<1>6. CASE Destroy
  BY <1>6, ThreadFacts DEF Destroy, wires, workers, LockInv, TypeOK
<1>7. CASE DestroyFree
  BY <1>7, ThreadFacts DEF DestroyFree, servers, wires, workers, LockInv
<1>8. ASSUME NEW t \in Thread, MgStopReturn(t) PROVE LockInv'
  <2>1. /\ closing[t] # None
        /\ closing' = [closing EXCEPT ![t] = None]
        /\ lock' = IF phase = "destroying" THEN lock ELSE None
        /\ UNCHANGED <<tracked, pc>>
        /\ \/ \E u \in Thread \ {t} : closing[u] = closing[t]
           \/ phase' = IF t = "framework" /\ phase = "stopping" THEN "stopped" ELSE phase
    BY <1>8 DEF MgStopReturn, ListsBecome, workers
  <2>2. CASE phase = "destroying"
    <3>1. t = "framework" /\ closing["wtm"] = None /\ phase' = phase
      BY <2>1, <2>2, ThreadFacts DEF LockInv
    <3> QED
      BY <2>1, <2>2, <3>1, ThreadFacts DEF LockInv, TypeOK
  <2>3. CASE phase # "destroying"
    <3>1. lock = t /\ \A u \in Thread : u # t => closing[u] = None
      BY <2>1, <2>3, ThreadFacts DEF LockInv
    <3>4. phase' = IF t = "framework" THEN "stopped" ELSE phase
      BY <2>1, <2>3, <3>1 DEF LockInv
    <3>2. \A v \in Worker : pc[v] \notin {"reading", "walking", "calling"}
      BY <3>1, ThreadFacts DEF LockInv
    <3> QED
      BY <2>1, <3>1, <3>2, <3>4, ThreadFacts DEF LockInv, TypeOK
  <2> QED
    BY <2>2, <2>3
<1>9. CASE \E w \in Wire : WiringReceiveAdded(w) \/ WiringReceiveRemoved(w)
  BY <1>9 DEF WiringReceiveAdded, WiringReceiveRemoved, servers, workers, LockInv
<1>10. ASSUME NEW w \in Worker, NEW s \in Server, NEW m \in Method, Request(w, s, m)
       PROVE  LockInv'
  BY <1>10 DEF Request, servers, wires, LockInv, TypeOK
<1>11. ASSUME NEW w \in Worker, Answer(w) PROVE LockInv'
  <2>1. UNCHANGED <<phase, closing, tracked>> /\ ~PlainUnlock(w)
    BY <1>11 DEF Answer, PlainUnlock, PostLock, PostWalk, PostReceive, PostReturn, servers,
       wires
  <2>2. CASE PostLock(w)
    BY <2>1, <2>2, ThreadFacts DEF PostLock, LockInv, TypeOK
  <2>3. CASE PostWalk(w) \/ PostReceive(w)
    BY <2>1, <2>3 DEF PostWalk, PostReceive, LockInv, TypeOK
  <2>4. CASE PostReturn(w)
    <3>1. lock = w /\ lock' = None /\ pc' = [pc EXCEPT ![w] = "idle"]
      BY <2>4 DEF PostReturn, LockInv
    <3>2. phase # "stopping"
      BY <3>1, ThreadFacts DEF LockInv
    <3> QED
      BY <2>1, <3>1, <3>2, ThreadFacts DEF LockInv, TypeOK
  <2> QED
    BY <1>11, <2>1, <2>2, <2>3, <2>4 DEF Answer
<1>12. CASE UNCHANGED vars
  BY <1>12 DEF vars, servers, wires, workers, LockInv
<1> QED
  BY <1>1, <1>2, <1>3, <1>4, <1>5, <1>6, <1>7, <1>8, <1>9, <1>10, <1>11, <1>12 DEF Next

LEMMA ServerStep ==
  ASSUME TypeOK, LockInv, ServerInv, [Next]_vars
  PROVE  ServerInv'
<1>1. ASSUME NEW b \in BOOLEAN, ExportWiringEndpoint(b) PROVE ServerInv'
  <2>1. /\ Open /\ Open' /\ UNCHANGED closing
        /\ \A t \in Thread : closing[t] = None
    BY <1>1, NobodyStops DEF ExportWiringEndpoint, Serving, Open
  <2>2. CASE tracked = {}
    <3>1. up \subseteq orphan
      BY <2>1, <2>2 DEF ServerInv
    <3>2. up' \ {ctx'} \subseteq up /\ (ctx' = None => up' = up)
      BY <1>1, <2>2, NextServer, ThreadFacts DEF ExportWiringEndpoint, StartWebserver, TypeOK
    <3>3. /\ orphan \subseteq orphan'
          /\ tracked' = {} /\ ctx' # None => ctx' \in orphan'
      BY <1>1, <2>2 DEF ExportWiringEndpoint
    <3> QED
      BY <2>1, <3>1, <3>2, <3>3 DEF ServerInv
  <2>3. CASE tracked # {}
    <3>1. UNCHANGED <<ctx, up, orphan>> /\ tracked' # {}
      BY <1>1, <2>3 DEF ExportWiringEndpoint
    <3> QED
      BY <2>1, <3>1 DEF ServerInv
  <2> QED
    BY <2>2, <2>3
<1>2. ASSUME NEW w \in Wire, RemoveExportedWiringEndpoint(w) PROVE ServerInv'
  <2>1. /\ Open /\ Open' /\ UNCHANGED <<ctx, up, orphan>>
        /\ \A t \in Thread : closing[t] = None
    BY <1>2, NobodyStops DEF RemoveExportedWiringEndpoint, Serving, Open, history
  <2>2. CASE tracked' = {}
    <3>1. closing' = [closing EXCEPT !["wtm"] = ctx]
      BY <1>2, <2>2 DEF RemoveExportedWiringEndpoint, StopWebserver
    <3>2. closing'["wtm"] = ctx /\ closing'["framework"] = None
      BY <2>1, <3>1, ThreadFacts DEF TypeOK
    <3> QED
      BY <2>1, <3>2, ThreadFacts DEF ServerInv, TypeOK
  <2>3. CASE tracked' # {}
    <3>1. UNCHANGED closing
      BY <1>2, <2>3 DEF RemoveExportedWiringEndpoint
    <3> QED
      BY <2>1, <2>3, <3>1 DEF ServerInv
  <2> QED
    BY <2>2, <2>3
<1>3. CASE Stop
  <2>1. /\ Open /\ Open' /\ UNCHANGED <<ctx, up, orphan>>
        /\ \A t \in Thread : closing[t] = None
        /\ closing' = [closing EXCEPT !["framework"] = ctx]
    BY <1>3, NobodyStops DEF Stop, StopWebserver, Open, history
  <2>2. closing'["framework"] = ctx /\ closing'["wtm"] = None
    BY <2>1, ThreadFacts DEF TypeOK
  <2> QED
    BY <2>1, <2>2, ThreadFacts DEF ServerInv, TypeOK
<1>4. CASE Start \/ Unregister
  BY <1>4 DEF Start, Unregister, servers, wires, history, Open, ServerInv
<1>5. CASE Destroy
  <2>1. /\ ~Open' /\ UNCHANGED <<ctx, up, orphan>>
        /\ closing["wtm"] = None
        /\ closing' = [closing EXCEPT !["framework"] = ctx]
    BY <1>5 DEF Destroy, history, Open, LockInv
  <2>2. closing'["framework"] = ctx /\ closing'["wtm"] = None
    BY <2>1, ThreadFacts DEF TypeOK
  <2> QED
    BY <2>1, <2>2, ThreadFacts DEF ServerInv, TypeOK
<1>6. CASE DestroyFree
  BY <1>6 DEF DestroyFree, servers, wires, history, Open, ServerInv
<1>7. ASSUME NEW t \in Thread, MgStopReturn(t) PROVE ServerInv'
  <2>1. /\ closing[t] # None
        /\ up' = up \ {closing[t]} /\ ctx' = None
        /\ closing' = [closing EXCEPT ![t] = None]
        /\ UNCHANGED <<tracked, orphan>>
        /\ phase' = phase \/ (phase = "stopping" /\ phase' = "stopped")
    BY <1>7 DEF MgStopReturn, history
  <2>4. Open' <=> Open
    BY <2>1 DEF Open
  <2>2. closing[t] = ctx /\ \A u \in Thread : u # t => closing[u] = None
    BY <2>1, ThreadFacts DEF ServerInv, LockInv
  <2>3. up' \subseteq orphan /\ \A u \in Thread : closing'[u] = None
    BY <2>1, <2>2 DEF ServerInv, TypeOK
  <2> QED
    BY <2>1, <2>3, <2>4 DEF ServerInv
<1>8. CASE \/ \E w \in Wire : WiringReceiveAdded(w) \/ WiringReceiveRemoved(w)
           \/ \E w \in Worker, s \in Server, m \in Method : Request(w, s, m)
           \/ \E w \in Worker : Answer(w)
           \/ UNCHANGED vars
  <2>1. UNCHANGED <<phase, ctx, up, closing, tracked, orphan>>
    BY <1>8 DEF WiringReceiveAdded, WiringReceiveRemoved, Request, Answer, PlainUnlock,
       PostLock, PostWalk, PostReceive, PostReturn, vars, servers, wires, history
  <2> QED
    BY <2>1 DEF ServerInv, Open
<1> QED
  BY <1>1, <1>2, <1>3, <1>4, <1>5, <1>6, <1>7, <1>8 DEF Next

-----------------------------------------------------------------------------
(***************************************************************************)
(* The undefined behaviour.                                                *)
(***************************************************************************)

LEMMA StrayStays == ASSUME stray, [Next]_vars PROVE stray'
BY DEF Next, ExportWiringEndpoint, RemoveExportedWiringEndpoint, WiringReceiveAdded,
   WiringReceiveRemoved, Start, Stop, Unregister, Destroy, DestroyFree, MgStopReturn,
   Request, Answer, PlainUnlock, PostLock, PostWalk, PostReceive, PostReturn, vars, history

LEMMA BusyStep == ASSUME TypeOK, BusyInv, [Next]_vars PROVE BusyInv'
<1>1. ASSUME NEW w \in Worker, NEW s \in Server, NEW m \in Method, Request(w, s, m)
      PROVE  BusyInv'
  <2>1. /\ s \in up /\ up' = up
        /\ at' = [at EXCEPT ![w] = s]
        /\ \A v \in Worker : v # w => pc'[v] = pc[v]
    BY <1>1 DEF Request, servers, TypeOK
  <2> QED
    BY <2>1 DEF BusyInv, TypeOK
<1>2. ASSUME NEW w \in Worker, Answer(w) PROVE BusyInv'
  <2>1. /\ UNCHANGED <<up, at>> /\ pc[w] # "idle"
        /\ \A v \in Worker : v # w => pc'[v] = pc[v]
    BY <1>2 DEF Answer, PlainUnlock, PostLock, PostWalk, PostReceive, PostReturn, servers,
       TypeOK
  <2> QED
    BY <2>1 DEF BusyInv
<1>3. ASSUME NEW t \in Thread, MgStopReturn(t) PROVE BusyInv'
  <2>1. /\ Busy(closing[t]) = {} /\ up' = up \ {closing[t]} /\ UNCHANGED <<pc, at>>
    BY <1>3 DEF MgStopReturn, workers
  <2> QED
    BY <2>1 DEF Busy, BusyInv
<1>4. ASSUME NEW b \in BOOLEAN, ExportWiringEndpoint(b) PROVE BusyInv'
  <2>1. up \subseteq up' /\ UNCHANGED <<pc, at>>
    BY <1>4 DEF ExportWiringEndpoint, StartWebserver, workers
  <2> QED
    BY <2>1 DEF BusyInv
<1>5. CASE \/ \E w \in Wire : \/ RemoveExportedWiringEndpoint(w)
                              \/ WiringReceiveAdded(w) \/ WiringReceiveRemoved(w)
           \/ Start \/ Stop \/ Unregister \/ Destroy \/ DestroyFree
           \/ UNCHANGED vars
  <2>1. UNCHANGED <<up, pc, at>>
    BY <1>5 DEF RemoveExportedWiringEndpoint, WiringReceiveAdded, WiringReceiveRemoved,
       Start, Stop, Unregister, Destroy, DestroyFree, vars, servers, workers
  <2> QED
    BY <2>1 DEF BusyInv
<1> QED
  BY <1>1, <1>2, <1>3, <1>4, <1>5 DEF Next

\* once the admin is destroyed only the servers of orphan run
LEMMA Destroyed ==
  ASSUME IInv, ~stray, phase = "destroyed"
  PROVE  up \subseteq orphan
<1>1. closing["framework"] = None /\ ~Open
  BY DEF IInv, LockInv, Open
<1> QED
  BY <1>1 DEF IInv, ServerInv

LEMMA FaultStep == ASSUME IInv, [Next]_vars PROVE FaultInv'
<1>1. CASE UNCHANGED vars
  BY <1>1 DEF vars, history, IInv, FaultInv
<1>2. ASSUME NEW t \in Thread, MgStopReturn(t) PROVE FaultInv'
  <2>1. fault' # "freed admin" /\ UNCHANGED stray
    BY <1>2 DEF MgStopReturn, ListsBecome, history
  <2>2. ASSUME ~stray PROVE fault' # "freed server"
    <3>1. \A u \in Thread \ {t} : closing[u] # closing[t]
      BY <1>2, <2>2, ThreadFacts DEF IInv, LockInv, MgStopReturn
    <3> QED
      BY <1>2, <3>1 DEF MgStopReturn, ListsBecome
  <2> QED
    BY <2>1, <2>2 DEF FaultInv
<1>3. ASSUME NEW w \in Worker, NEW s \in Server, NEW m \in Method, Request(w, s, m)
      PROVE  FaultInv'
  <2>1. /\ fault' = IF phase = "destroyed" THEN "freed admin" ELSE "none"
        /\ s \in up
        /\ UNCHANGED <<stray, orphan, late>>
    BY <1>3 DEF Request, UseAdmin, history
  <2> QED
    BY <2>1, Destroyed DEF FaultInv
<1>4. ASSUME NEW w \in Wire, WiringReceiveAdded(w) \/ WiringReceiveRemoved(w)
      PROVE  FaultInv'
  <2>1. /\ fault' # "freed server"
        /\ fault' = "freed admin" => w \in tracked /\ phase = "destroyed"
        /\ UNCHANGED <<stray, orphan, late>>
    BY <1>4 DEF WiringReceiveAdded, WiringReceiveRemoved, CallBack, ListsBecome, history
  <2> QED
    BY <2>1 DEF IInv, LateInv, FaultInv
<1>5. CASE \/ \E b \in BOOLEAN : ExportWiringEndpoint(b)
           \/ \E w \in Wire : RemoveExportedWiringEndpoint(w)
  <2>1. fault' \in {"none", "map changed while read"}
    BY <1>5 DEF ExportWiringEndpoint, RemoveExportedWiringEndpoint, ListsBecome
  <2> QED
    BY <2>1 DEF FaultInv
<1>6. CASE Start \/ Stop \/ Unregister \/ Destroy \/ DestroyFree
  <2>1. fault' \in {"none", "map changed while read"}
    BY <1>6 DEF Start, Stop, ListsBecome, Unregister, Destroy, DestroyFree
  <2> QED
    BY <2>1 DEF FaultInv
<1>7. ASSUME NEW w \in Worker, Answer(w) PROVE FaultInv'
  <2>1. /\ fault' = IF phase = "destroyed" THEN "freed admin" ELSE "none"
        /\ pc[w] # "idle" /\ UNCHANGED <<orphan, late>>
    BY <1>7 DEF Answer, PlainUnlock, PostLock, PostWalk, PostReceive, PostReturn, UseAdmin,
       history
  <2>2. at[w] \in up
    BY <2>1 DEF IInv, BusyInv
  <2> QED
    BY <2>1, <2>2, Destroyed, StrayStays DEF FaultInv
<1> QED
  BY <1>1, <1>2, <1>3, <1>4, <1>5, <1>6, <1>7 DEF Next

LEMMA InitInv == ASSUME Init PROVE IInv
<1>1. TypeOK
  <2>1. nextServer \in 1..(MaxServer + 1) /\ nextWire \in 1..(MaxWire + 1)
    BY WiringAdminAssumption DEF Init
  <2> QED
    BY <2>1 DEF Init, TypeOK
<1>2. LockInv /\ ServerInv
  BY ThreadFacts DEF Init, LockInv, ServerInv
<1> QED
  BY <1>1, <1>2 DEF Init, IInv, ListedExact, BusyInv, LateInv, FaultInv

LEMMA Inductive == Spec => []IInv
<1>1. Init => IInv
  BY InitInv
<1>2. ASSUME IInv, [Next]_vars PROVE IInv'
  <2>1. TypeOK' /\ ListedExact' /\ BusyInv' /\ LateInv' /\ FaultInv'
    BY <1>2, TypeStep, ListedStep, BusyStep, LateStep, FaultStep DEF IInv
  <2>2. stray' \/ (LockInv' /\ ServerInv')
    BY <1>2, StrayStays, LockStep, ServerStep DEF IInv
  <2> QED
    BY <2>1, <2>2 DEF IInv
<1>3. IInv /\ [Next]_vars => IInv'
  BY <1>2
<1> QED
  BY <1>1, <1>3, PTL DEF Spec

-----------------------------------------------------------------------------

(* The variables keep their types: every wire that is tracked, registered  *)
(* or listed has been exported.                                            *)
THEOREM TypeCorrect == Spec => []TypeOK
<1>1. IInv => TypeOK
  BY DEF IInv
<1> QED
  BY <1>1, Inductive, PTL

(* The receive services a request can reach are the registered ones of the *)
(* endpoints that are exported; what they miss was exported after the stop *)
(* began, and only after a request that is not a POST broke the lock.      *)
THEOREM ServicesListed == Spec => []ListedExact
<1>1. IInv => ListedExact
  BY DEF IInv
<1> QED
  BY <1>1, Inductive, PTL

(* Servers are lost, and a freed admin or server is used, only in the ways *)
(* that ServerExact names: a tracker that does not open, a request that is *)
(* not a POST, an export after the stop.                                   *)
THEOREM ServersFollow == Spec => []ServerExact
<1>1. ASSUME IInv, lock = None, tracked = {},
             phase \in {"running", "stopping", "stopped", "unregistered"}
      PROVE  stray \/ up \subseteq orphan
  BY <1>1, NobodyStops DEF IInv, ServerInv, Open
<1>2. IInv => ServerExact
  BY <1>1 DEF IInv, ServerInv, FaultInv, ServerExact
<1> QED
  BY <1>2, Inductive, PTL
=============================================================================
