----------------------------- MODULE WiringAdmin -----------------------------
(***************************************************************************)
(* The HTTP wiring admin: exported endpoints, the web server they share,   *)
(* and the requests its worker threads answer.                             *)
(*                                                                         *)
(* The wiring topology manager exports and removes endpoints on one thread *)
(* ("wtm"), the framework stops and destroys the bundle on another         *)
(* ("framework"), the remote service admin registers a receive service per *)
(* wire on any, and the worker threads of civetweb call                    *)
(* wiringAdmin_callback.  exportedWiringEndpointLock is the variable       *)
(* "lock"; it is a normal mutex, which whoever unlocks it sets free.       *)
(* Undefined behaviour is recorded in "fault" and ends a behaviour.        *)
(***************************************************************************)
EXTENDS Naturals

CONSTANTS
  Worker,      \* worker threads of civetweb that are busy at once
  Method,      \* the HTTP methods of the requests, "POST" or another one
  MaxWire,     \* bound: endpoints exported in one behaviour
  MaxServer,   \* bound: web servers started in one behaviour
  None

Wire   == 1..MaxWire
Server == 1..MaxServer
Thread == {"wtm", "framework"}

ASSUME WiringAdminAssumption ==
  /\ MaxWire \in Nat /\ MaxServer \in Nat
  /\ None \notin Wire \cup Server
  /\ None \notin Worker \cup Thread
  /\ Worker \cap Thread = {}

VARIABLES
  phase,       \* how far the bundle has been started, stopped and destroyed
  lock,        \* who holds exportedWiringEndpointLock
  ctx,         \* admin->ctx
  up,          \* the web servers that run
  closing,     \* the server a thread waits for in mg_stop
  nextServer,  \* the next server mg_start returns
  nextWire,    \* the next endpoint wiringEndpointDescription_create returns
  tracked,     \* wiringReceiveTracker: the wires with an open tracker
  registered,  \* the wires with a registered receive service
  listed,      \* wiringReceiveServices: the wires with a receive service in the list
  pc,          \* worker: idle, plain (not a POST), waiting (for the lock), reading (the
               \* body), walking (over wiringReceiveServices), calling
  at,          \* worker: the server its request came in on
  orphan,      \* history: servers started by an export whose tracker did not open
  late,        \* history: wires exported after wiringAdmin_stop
  stray,       \* history: a request that is not a POST has released the lock
  fault        \* undefined behaviour reached; nothing is said of what follows

servers == <<ctx, up, closing, nextServer>>
wires   == <<nextWire, tracked, registered, listed>>
workers == <<pc, at>>
history == <<orphan, late, stray>>
vars    == <<phase, lock, servers, wires, workers, history, fault>>

Created    == 1..(nextWire - 1)
Busy(s)    == {w \in Worker : pc[w] # "idle" /\ at[w] = s}
Stopping   == {closing[t] : t \in Thread} \ {None}

\* the service of the admin can be called
Serving    == phase \in {"running", "stopping", "stopped"}

Init ==
  /\ phase = "created" /\ lock = None
  /\ ctx = None /\ up = {} /\ closing = [t \in Thread |-> None] /\ nextServer = 1
  /\ nextWire = 1 /\ tracked = {} /\ registered = {} /\ listed = {}
  /\ pc = [w \in Worker |-> "idle"] /\ at = [w \in Worker |-> None]
  /\ orphan = {} /\ late = {} /\ stray = FALSE
  /\ fault = "none"

\* wiringReceiveServices becomes s, while a request may walk over it
ListsBecome(s) ==
  /\ listed' = s
  /\ fault' = IF s # listed /\ \E w \in Worker : pc[w] = "walking"
              THEN "map changed while read" ELSE "none"

-----------------------------------------------------------------------------
(* The web server.                                                         *)

\* every port that is tried may be taken: the export goes on without a server
StartWebserver ==
  \/ /\ nextServer <= MaxServer
     /\ ctx' = nextServer
     /\ up' = up \cup {nextServer}
     /\ nextServer' = nextServer + 1
  \/ /\ ctx' = None
     /\ UNCHANGED <<up, nextServer>>

\* the lock is kept while thread t waits in mg_stop, if there is a server
StopWebserver(t) ==
  /\ closing' = [closing EXCEPT ![t] = ctx]
  /\ lock' = IF ctx = None THEN None ELSE t

\* mg_stop returns when no worker of the server is busy; a second mg_stop of
\* the same server uses a freed context.  In wiringAdmin_stop the lists of
\* receive services are cleared then.
MgStopReturn(t) ==
  LET s == closing[t] IN
  /\ fault = "none"
  /\ s # None
  /\ Busy(s) = {}
  /\ IF \E u \in Thread \ {t} : closing[u] = s
     THEN fault' = "freed server" /\ UNCHANGED <<phase, listed>>
     ELSE IF t = "framework" /\ phase = "stopping"
     THEN phase' = "stopped" /\ ListsBecome({})
     ELSE UNCHANGED <<phase, listed, fault>>
  /\ up' = up \ {s}
  /\ ctx' = None
  /\ closing' = [closing EXCEPT ![t] = None]
  /\ lock' = IF phase = "destroying" THEN lock ELSE None
  /\ UNCHANGED <<nextServer, nextWire, tracked, registered, workers, history>>

-----------------------------------------------------------------------------
(* The wiring topology manager.                                            *)

ExportAlwaysStarts(opened) ==  \* mutant: a server is started for every endpoint
  /\ fault = "none"
  /\ Serving
  /\ lock = None /\ closing["wtm"] = None
  /\ nextWire <= MaxWire
  /\ nextWire' = nextWire + 1
  /\ StartWebserver
  /\ tracked' = IF opened THEN tracked \cup {nextWire} ELSE tracked
  /\ orphan' = IF opened \/ tracked # {} THEN orphan ELSE orphan \cup ({ctx'} \ {None})
  /\ late' = IF phase # "running" THEN late \cup {nextWire} ELSE late
  /\ UNCHANGED <<phase, lock, closing, registered, listed, workers, stray, fault>>

ExportSameWire(opened) ==  \* mutant: the wire id of the last endpoint is used again
  /\ fault = "none"
  /\ Serving
  /\ lock = None /\ closing["wtm"] = None
  /\ nextWire <= MaxWire
  /\ IF tracked = {} THEN StartWebserver ELSE UNCHANGED <<ctx, up, nextServer>>
  /\ tracked' = IF opened THEN tracked \cup {nextWire} ELSE tracked
  /\ orphan' = IF opened \/ tracked # {} THEN orphan ELSE orphan \cup ({ctx'} \ {None})
  /\ late' = IF phase # "running" THEN late \cup {nextWire} ELSE late
  /\ UNCHANGED <<phase, lock, closing, nextWire, registered, listed, workers, stray, fault>>

\* the first tracked endpoint starts the server; a tracker that does not open
\* is not stored, and the server is not stopped again
ExportWiringEndpoint(opened) ==
  /\ fault = "none"
  /\ Serving
  /\ lock = None /\ closing["wtm"] = None
  /\ nextWire <= MaxWire
  /\ nextWire' = nextWire + 1
  /\ IF tracked = {} THEN StartWebserver ELSE UNCHANGED <<ctx, up, nextServer>>
  /\ tracked' = IF opened THEN tracked \cup {nextWire} ELSE tracked
  /\ orphan' = IF opened \/ tracked # {} THEN orphan ELSE orphan \cup ({ctx'} \ {None})
  /\ late' = IF phase # "running" THEN late \cup {nextWire} ELSE late
  /\ UNCHANGED <<phase, lock, closing, registered, listed, workers, stray, fault>>

RemoveExportedKeepsServer(w) ==  \* mutant: the size is tested before the removal
  /\ fault = "none"
  /\ Serving
  /\ lock = None /\ closing["wtm"] = None
  /\ w \in tracked
  /\ tracked' = tracked \ {w}
  /\ ListsBecome(listed \ {w})
  /\ UNCHANGED <<phase, lock, servers, nextWire, registered, workers, history>>

\* closing the tracker takes the receive service off the list; with the last
\* tracker the server is stopped.  An endpoint without tracker is only destroyed.
RemoveExportedWiringEndpoint(w) ==
  /\ fault = "none"
  /\ Serving
  /\ lock = None /\ closing["wtm"] = None
  /\ w \in tracked
  /\ tracked' = tracked \ {w}
  /\ ListsBecome(listed \ {w})
  /\ IF tracked' = {} THEN StopWebserver("wtm") ELSE UNCHANGED <<closing, lock>>
  /\ UNCHANGED <<phase, ctx, up, nextServer, nextWire, registered, workers, history>>

-----------------------------------------------------------------------------
(* The framework: wiringAdmin_stop, the unregistration of the service and  *)
(* wiringAdmin_destroy.                                                    *)

\* the service of the admin is registered; no server runs before an export
Start ==
  /\ fault = "none"
  /\ phase = "created"
  /\ phase' = "running"
  /\ UNCHANGED <<lock, servers, wires, workers, history, fault>>

\* every tracker is closed and takes its receive service off the list; without
\* a server there is nothing to wait for, and the lists are cleared at once
Stop ==
  /\ fault = "none"
  /\ phase = "running"
  /\ lock = None
  /\ phase' = IF ctx = None THEN "stopped" ELSE "stopping"
  /\ tracked' = {}
  /\ ListsBecome(IF ctx = None THEN {} ELSE listed \ tracked)
  /\ StopWebserver("framework")
  /\ UNCHANGED <<ctx, up, nextServer, nextWire, registered, workers, history>>

\* the service is registered until here, and exports are still possible
Unregister ==
  /\ fault = "none"
  /\ phase = "stopped"
  /\ closing = [t \in Thread |-> None]
  /\ phase' = "unregistered"
  /\ UNCHANGED <<lock, servers, wires, workers, history, fault>>

\* here the server is stopped without the lock
Destroy ==
  /\ fault = "none"
  /\ phase = "unregistered"
  /\ phase' = "destroying"
  /\ closing' = [closing EXCEPT !["framework"] = ctx]
  /\ UNCHANGED <<lock, ctx, up, nextServer, wires, workers, history, fault>>

DestroyFree ==
  /\ fault = "none"
  /\ phase = "destroying"
  /\ closing["framework"] = None
  /\ lock = None
  /\ phase' = "destroyed"
  /\ UNCHANGED <<lock, servers, wires, workers, history, fault>>

-----------------------------------------------------------------------------
(* The remote service admin: wiringReceiveAdded and Removed run on its     *)
(* thread and without the lock.                                            *)

\* an open tracker calls back into the admin
CallBack(w, s) ==
  IF w \notin tracked THEN UNCHANGED <<listed, fault>>
  ELSE IF phase = "destroyed" THEN fault' = "freed admin" /\ listed' = s
  ELSE ListsBecome(s)

WiringReceiveAdded(w) ==
  /\ fault = "none"
  /\ w \in Created \ registered
  /\ registered' = registered \cup {w}
  /\ CallBack(w, listed \cup {w})
  /\ UNCHANGED <<phase, lock, servers, nextWire, tracked, workers, history>>

WiringReceiveRemovedNot(w) ==  \* mutant: the list keeps the freed receive service
  /\ fault = "none"
  /\ w \in registered
  /\ registered' = registered \ {w}
  /\ CallBack(w, listed)
  /\ UNCHANGED <<phase, lock, servers, nextWire, tracked, workers, history>>

WiringReceiveRemoved(w) ==
  /\ fault = "none"
  /\ w \in registered
  /\ registered' = registered \ {w}
  /\ CallBack(w, listed \ {w})
  /\ UNCHANGED <<phase, lock, servers, nextWire, tracked, workers, history>>

-----------------------------------------------------------------------------
(* civetweb: wiringAdmin_callback on the worker threads.                   *)

\* the callback uses the admin, its lock or its lists
UseAdmin == fault' = IF phase = "destroyed" THEN "freed admin" ELSE "none"

\* a worker takes a request unless its server is being stopped
Request(w, s, m) ==
  /\ fault = "none"
  /\ pc[w] = "idle"
  /\ s \in up \ Stopping
  /\ pc' = [pc EXCEPT ![w] = IF m = "POST" THEN "waiting" ELSE "plain"]
  /\ at' = [at EXCEPT ![w] = s]
  /\ UseAdmin
  /\ UNCHANGED <<phase, lock, servers, wires, history>>

\* whatever is not a POST unlocks what it has not locked
PlainUnlock(w) ==
  /\ fault = "none"
  /\ pc[w] = "plain"
  /\ pc' = [pc EXCEPT ![w] = "idle"]
  /\ lock' = None
  /\ stray' = TRUE
  /\ UseAdmin
  /\ UNCHANGED <<phase, servers, wires, at, orphan, late>>

PostLock(w) ==
  /\ fault = "none"
  /\ pc[w] = "waiting"
  /\ lock = None
  /\ lock' = w
  /\ pc' = [pc EXCEPT ![w] = "reading"]
  /\ UseAdmin
  /\ UNCHANGED <<phase, servers, wires, at, history>>

\* the body is read, and the walk over the lists begins
PostWalk(w) ==
  /\ fault = "none"
  /\ pc[w] = "reading"
  /\ pc' = [pc EXCEPT ![w] = "walking"]
  /\ UseAdmin
  /\ UNCHANGED <<phase, lock, servers, wires, at, history>>

\* the first service of the first list is called, if any
PostReceive(w) ==
  /\ fault = "none"
  /\ pc[w] = "walking"
  /\ listed # {}
  /\ pc' = [pc EXCEPT ![w] = "calling"]
  /\ UseAdmin
  /\ UNCHANGED <<phase, lock, servers, wires, at, history>>

PostReturnLocked(w) ==  \* mutant: the answer is sent and the lock is kept
  /\ fault = "none"
  /\ pc[w] = "calling" \/ (pc[w] = "walking" /\ listed = {})
  /\ pc' = [pc EXCEPT ![w] = "idle"]
  /\ UseAdmin
  /\ UNCHANGED <<phase, lock, servers, wires, at, history>>

PostReturn(w) ==
  /\ fault = "none"
  /\ pc[w] = "calling" \/ (pc[w] = "walking" /\ listed = {})
  /\ pc' = [pc EXCEPT ![w] = "idle"]
  /\ lock' = None
  /\ UseAdmin
  /\ UNCHANGED <<phase, servers, wires, at, history>>

-----------------------------------------------------------------------------

Answer(w) ==
  PlainUnlock(w) \/ PostLock(w) \/ PostWalk(w) \/ PostReceive(w) \/ PostReturn(w)

Next ==
  \/ \E b \in BOOLEAN : ExportWiringEndpoint(b)
  \/ \E w \in Wire :
       RemoveExportedWiringEndpoint(w) \/ WiringReceiveAdded(w) \/ WiringReceiveRemoved(w)
  \/ Start \/ Stop \/ Unregister \/ Destroy \/ DestroyFree
  \/ \E t \in Thread : MgStopReturn(t)
  \/ \E w \in Worker, s \in Server, m \in Method : Request(w, s, m)
  \/ \E w \in Worker : Answer(w)

Spec == Init /\ [][Next]_vars

(* A request that is being answered goes on, its receive service returns,  *)
(* and mg_stop notices that the last worker has finished.                  *)
FairSpec ==
  /\ Spec
  /\ \A w \in Worker : WF_vars(Answer(w))
  /\ \A t \in Thread : WF_vars(MgStopReturn(t))

-----------------------------------------------------------------------------
(* Properties.                                                             *)

TypeOK ==
  /\ phase \in {"created", "running", "stopping", "stopped", "unregistered", "destroying",
               "destroyed"}
  /\ lock \in Thread \cup Worker \cup {None}
  /\ ctx \in Server \cup {None} /\ up \subseteq Server
  /\ closing \in [Thread -> Server \cup {None}]
  /\ nextServer \in 1..(MaxServer + 1) /\ nextWire \in 1..(MaxWire + 1)
  /\ tracked \subseteq Created
  /\ registered \subseteq Created
  /\ listed \subseteq Created
  /\ pc \in [Worker -> {"idle", "waiting", "plain", "reading", "walking", "calling"}]
  /\ at \in [Worker -> Server \cup {None}]
  /\ orphan \subseteq Server /\ late \subseteq Created
  /\ stray \in BOOLEAN
  /\ fault \in {"none", "freed server", "freed admin", "map changed while read"}

(* The receive services in the lists are the registered ones of the open   *)
(* trackers: no request is handed to a service that is unregistered and    *)
(* freed, and none that could be answered is missed.  What is missed is the*)
(* service of an endpoint that was exported while the stop waited for the  *)
(* server, after a request that is not a POST has broken the lock: the stop*)
(* clears the lists when the server has ended.                             *)
ListedExact ==
  /\ listed \subseteq registered \cap tracked
  /\ (registered \cap tracked) \ listed \subseteq late
  /\ stray \/ registered \cap tracked \subseteq listed

(* The admin loses a running server only when the tracker of its first     *)
(* endpoint did not open, or when a request that is not a POST has broken  *)
(* the lock; otherwise a server runs exactly while ctx says so, and none   *)
(* without an exported endpoint whenever the lock is free.  For the same   *)
(* two reasons only is a freed admin used, or for an endpoint exported     *)
(* after the stop; a server is stopped twice only after a broken lock.     *)
ServerExact ==
  /\ stray \/ up \ {ctx} \subseteq orphan
  /\ lock = None /\ tracked = {} /\ phase \in {"running", "stopping", "stopped", "unregistered"} =>
       stray \/ up \subseteq orphan
  /\ fault = "freed admin" => stray \/ orphan # {} \/ late # {}
  /\ fault = "freed server" => stray

StopBlocked ==
  \E t \in Thread : lock = t /\ \E w \in Busy(closing[t]) : pc[w] = "waiting"

(* The lock is held for ever only by a thread that waits in mg_stop for a  *)
(* request that waits for the lock.                                        *)
LockReleased == lock # None ~> (lock = None \/ fault # "none" \/ StopBlocked)

(* The comment at civetweb.h:228-230 says that mg_stop blocks until all    *)
(* threads of civetweb are stopped: it returns.                            *)
MgStopReturns ==
  \A t \in Thread : closing[t] # None ~> (closing[t] = None \/ fault # "none")
=============================================================================
