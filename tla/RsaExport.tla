------------------------------ MODULE RsaExport ------------------------------
(***************************************************************************)
(* The export side of the remote service admin (RSA).                      *)
(*                                                                         *)
(* The topology manager of Celix has a service exported; the RSA asks      *)
(* every wiring topology manager (WTM) for a wire, and is called back with *)
(* the endpoint on whatever thread the WTM has it.  Then it registers a    *)
(* receive service for the wire and tells the endpoint listeners.  The     *)
(* endpoint services that answer requests come and go in bundles of their  *)
(* own, and requests arrive on the threads of the web server.              *)
(*                                                                         *)
(* exportedServicesLock is the variable "lock".  Requests and the tracker  *)
(* of endpoint listeners read exportedServices without it, and the         *)
(* listeners are told without listenerListLock.  Undefined behaviour is    *)
(* recorded in "fault" and ends a behaviour.                               *)
(***************************************************************************)
EXTENDS Naturals

CONSTANTS
  Service,     \* services to export, by reference; one is exported once
  Reg,         \* export registrations, one for each interface of a service
  ServiceOf,   \* the service of a registration
  Wtm,         \* WTM instances; a restarted bundle is another one
  Early,       \* those that were running when the RSA opened its tracker
  Listener,    \* endpoint listeners whose scope matches
  Worker,      \* threads of the web server
  MaxWire,     \* bound: wires opened in one behaviour
  Refused,     \* those whose receive service may fail to be registered
  None

Wire == 1..MaxWire

ASSUME RsaExportAssumption ==
  /\ ServiceOf \in [Reg -> Service]
  /\ Early \subseteq Wtm
  /\ MaxWire \in Nat
  /\ None \notin Wire \cup Wtm \cup Service

VARIABLES
  exported,    \* exportedServices: the services with their registrations
  sPc,         \* exportService: new, installed, put, calling, done
  targets,     \* the WTMs it has still to ask
  wireOf,      \* the wire id in the endpoint description of a registration
  tracker,     \* endpointTracker of a registration: none, open, destroyed
  endpoint,    \* its endpoint service: none, live, or stale (gone, not reset)
  closed,      \* registrations closed and freed by their owner
  receive,     \* wiringReceiveServices: the wires with a receive service
  mute,        \* services whose last wire got no receive service
  lock,        \* the WTM whose callback holds exportedServicesLock
  wtmPc,       \* Wtm: new, listed (in wtmList), exporting, stuck, up, gone
  todo,        \* services wtmAdded has still to ask for
  requested,   \* <<w, s>> when exportWiringEndpoint of w was called for s
  announced,   \* the wires a WTM has announced and not withdrawn
  nextWire,    \* the next wire a wiring admin opens
  adding,      \* the announcement being handled: <<wire, service>>
  left,        \* endpoint listeners it has still to tell
  leaving,     \* the wire a WTM is withdrawing
  stopping,    \* registrations collected for it and not yet stopped
  lPc,         \* endpoint listener: absent, listed (in listenerList), settled
  toTell,      \* services endpointListenerAdded has still to tell it of
  told,        \* the <<registration, wire>> it was told of
  serving,     \* threads of the web server inside receive
  admin,       \* of the bundle: running, stopping, stopped (and freed)
  toStop,      \* registrations its stop has collected and not yet stopped
  ahead,       \* history: registrations whose endpoint service went before the put
  fault        \* undefined behaviour reached; nothing is said of what follows

expVars  == <<exported, sPc, targets>>
regVars  == <<wireOf, tracker, endpoint, closed, ahead>>
wtmVars  == <<wtmPc, todo, requested>>
wireVars == <<announced, nextWire, receive, mute>>
addVars  == <<adding, left>>
remVars  == <<leaving, stopping>>
stopVars == <<admin, toStop>>
lVars    == <<lPc, toTell, told>>
vars     == <<expVars, regVars, lock, wtmVars, wireVars, addVars, remVars, lVars,
              serving, stopVars, fault>>

RegsOf(s) == {r \in Reg : ServiceOf[r] = s}
Listed    == {v \in Wtm : wtmPc[v] \in {"listed", "exporting", "stuck", "up", "gone"}}
Present   == {l \in Listener : lPc[l] # "absent"}
Published == admin = "running" /\ \E v \in Wtm : wtmPc[v] \in {"up", "gone"}

\* a walk over exportedServices that does not hold the lock is under way
Walked    == serving # {} \/ \E l \in Listener : toTell[l] # {}

Init ==
  /\ exported = {} /\ sPc = [s \in Service |-> "new"] /\ targets = [s \in Service |-> {}]
  /\ wireOf = [r \in Reg |-> None] /\ tracker = [r \in Reg |-> "none"]
  /\ endpoint = [r \in Reg |-> "none"] /\ closed = {} /\ ahead = {}
  /\ receive = {} /\ mute = {}
  /\ lock = None
  /\ wtmPc = [v \in Wtm |-> "new"] /\ todo = {} /\ requested = {}
  /\ announced = [v \in Wtm |-> {}] /\ nextWire = 1
  /\ adding = <<None, None>> /\ left = {}
  /\ leaving = [v \in Wtm |-> None] /\ stopping = [v \in Wtm |-> {}]
  /\ lPc = [l \in Listener |-> "absent"] /\ toTell = [l \in Listener |-> {}]
  /\ told = [l \in Listener |-> {}]
  /\ serving = {}
  /\ admin = "running" /\ toStop = {}
  /\ fault = "none"

\* a WTM calls the listener of the RSA: one that came later has nothing to say
\* before it was added, as it opens its own trackers when that is over
Ready(v)  == wtmPc[v] = "up" \/ (v \in Early /\ wtmPc[v] \notin {"stuck", "gone"})

\* exportedWires holds every wire ever announced, in that order: these are freed
Withdrawn == 1..(nextWire - 1) \ UNION {announced[v] : v \in Wtm}

\* exportedServices becomes E, under the lock
Change(E) ==
  /\ exported' = E
  /\ fault' = IF Walked /\ E # exported THEN "map changed while read" ELSE "none"

-----------------------------------------------------------------------------
(* remoteServiceAdmin_exportService, called once the RSA is published,     *)
(* which is after the first WTM has been added.                            *)

\* remoteServiceAdmin_installEndpoint: the description of a new registration
\* has the properties of its service, and no wire
InstallEndpoints(s) ==
  wireOf' = [r \in Reg |-> IF r \in RegsOf(s) THEN None ELSE wireOf[r]]

\* exportRegistration_startTracking
StartTracking(s) ==
  tracker' = [r \in Reg |-> IF r \in RegsOf(s) THEN "open" ELSE tracker[r]]

\* the registrations are made and track their endpoint services
ExportInstall(s) ==
  /\ fault = "none"
  /\ Published
  /\ sPc[s] = "new"
  /\ sPc' = [sPc EXCEPT ![s] = "installed"]
  /\ InstallEndpoints(s)
  /\ StartTracking(s)
  /\ UNCHANGED <<exported, targets, endpoint, closed, ahead, lock, wtmVars,
                 wireVars, addVars, remVars, lVars, serving, fault, stopVars>>

ExportPut(s) ==
  /\ fault = "none"
  /\ sPc[s] = "installed"
  /\ lock = None
  /\ sPc' = [sPc EXCEPT ![s] = "put"]
  /\ Change(exported \cup {s})
  /\ UNCHANGED <<targets, regVars, lock, wtmVars, wireVars, addVars, remVars, lVars,
                 serving, stopVars>>

ExportGetWTMsButOne(s) ==  \* mutant: the loop over the list ends one too early
  /\ fault = "none"
  /\ sPc[s] = "put"
  /\ sPc' = [sPc EXCEPT ![s] = "calling"]
  /\ \E v \in Listed : targets' = [targets EXCEPT ![s] = Listed \ {v}]
  /\ UNCHANGED <<exported, regVars, lock, wtmVars, wireVars, addVars, remVars, lVars,
                 serving, fault, stopVars>>

\* remoteServiceAdmin_getWTMs: a WTM never leaves wtmList
ExportGetWTMs(s) ==
  /\ fault = "none"
  /\ sPc[s] = "put"
  /\ sPc' = [sPc EXCEPT ![s] = "calling"]
  /\ targets' = [targets EXCEPT ![s] = Listed]
  /\ UNCHANGED <<exported, regVars, lock, wtmVars, wireVars, addVars, remVars, lVars,
                 serving, fault, stopVars>>

ExportRequest(s, v) ==
  /\ fault = "none"
  /\ sPc[s] = "calling"
  /\ v \in targets[s]
  /\ targets' = [targets EXCEPT ![s] = @ \ {v}]
  /\ sPc' = IF targets[s] = {v} THEN [sPc EXCEPT ![s] = "done"] ELSE sPc
  /\ requested' = requested \cup {<<v, s>>}
  /\ fault' = IF wtmPc[v] = "gone" THEN "freed WTM" ELSE "none"
  /\ UNCHANGED <<exported, regVars, lock, wtmPc, todo, wireVars, addVars, remVars,
                 lVars,
                 serving, stopVars>>

-----------------------------------------------------------------------------
(* The export registrations: their endpoint services, and their end.       *)

\* a second endpoint service, or one that comes back, is not taken over
EndpointAdded(r) ==
  /\ fault = "none"
  /\ tracker[r] = "open"
  /\ endpoint[r] = "none"
  /\ endpoint' = [endpoint EXCEPT ![r] = "live"]
  /\ UNCHANGED <<expVars, wireOf, tracker, closed, ahead, lock, wtmVars, wireVars,
                 addVars, remVars, lVars, serving, fault, stopVars>>

EndpointRemovedKeeps(r) ==  \* mutant: the service stays in exportedServices
  /\ fault = "none"
  /\ endpoint[r] = "live" /\ tracker[r] = "open"
  /\ lock = None
  /\ endpoint' = [endpoint EXCEPT ![r] = "stale"]
  /\ ahead' = IF sPc[ServiceOf[r]] = "installed" THEN ahead \cup {r} ELSE ahead
  /\ UNCHANGED <<expVars, wireOf, tracker, closed, lock, wtmVars, wireVars, addVars,
                 remVars, lVars, serving, fault, stopVars>>

\* the service leaves exportedServices, with all its interfaces
EndpointRemoved(r) ==
  /\ fault = "none"
  /\ endpoint[r] = "live" /\ tracker[r] = "open"
  /\ lock = None
  /\ endpoint' = [endpoint EXCEPT ![r] = "stale"]
  /\ ahead' = IF sPc[ServiceOf[r]] = "installed" THEN ahead \cup {r} ELSE ahead
  /\ Change(exported \ {ServiceOf[r]})
  /\ UNCHANGED <<sPc, targets, wireOf, tracker, closed, lock, wtmVars, wireVars,
                 addVars,
                 remVars, lVars, serving, stopVars>>

\* exportRegistration_stopTracking: closing the tracker calls endpointRemoved
StopTracking(r) ==
  /\ endpoint[r] = "live" => lock = None
  /\ tracker' = [tracker EXCEPT ![r] = "destroyed"]
  /\ endpoint' = [endpoint EXCEPT ![r] = IF @ = "live" THEN "stale" ELSE @]

\* exportRegistration_close
Close(r) ==
  /\ fault = "none"
  /\ admin = "running"
  /\ sPc[ServiceOf[r]] = "done"
  /\ r \notin closed
  /\ lock = None
  /\ StopTracking(r)
  /\ closed' = closed \cup {r}
  /\ IF tracker[r] = "destroyed"
     THEN exported' = exported /\ fault' = "freed tracker"
     ELSE Change(exported \ {ServiceOf[r]})
  /\ UNCHANGED <<sPc, targets, wireOf, ahead, lock, wtmVars, wireVars, addVars, remVars,
                 lVars, serving, stopVars>>

-----------------------------------------------------------------------------
(* The WTM tracker: wtmAdded, the part about exported services.            *)

WtmAddedList(v) ==
  /\ fault = "none"
  /\ wtmPc[v] = "new"
  /\ wtmPc' = [wtmPc EXCEPT ![v] = "listed"]
  /\ UNCHANGED <<expVars, regVars, lock, todo, requested, wireVars, addVars, remVars,
                 lVars, serving, fault, stopVars>>

WtmAddedLock(v) ==
  /\ fault = "none"
  /\ wtmPc[v] = "listed"
  /\ lock = None
  /\ lock' = v
  /\ wtmPc' = [wtmPc EXCEPT ![v] = "exporting"]
  /\ todo' = exported
  /\ UNCHANGED <<expVars, regVars, requested, wireVars, addVars, remVars, lVars,
                 serving, fault, stopVars>>

WtmAddedRequest(v, s) ==
  /\ fault = "none"
  /\ wtmPc[v] = "exporting"
  /\ s \in todo
  /\ todo' = todo \ {s}
  /\ requested' = requested \cup {<<v, s>>}
  /\ UNCHANGED <<expVars, regVars, lock, wtmPc, wireVars, addVars, remVars, lVars,
                 serving, fault, stopVars>>

\* A WTM that was running answers on this thread, or has locks of its own on a
\* thread that answers something else: the lock it needs is never given up.
WtmAnswers(v, s) ==
  /\ fault = "none"
  /\ wtmPc[v] = "exporting" /\ v \in Early
  /\ s \in todo
  /\ wtmPc' = [wtmPc EXCEPT ![v] = "stuck"]
  /\ requested' = requested \cup {<<v, s>>}
  /\ UNCHANGED <<expVars, regVars, lock, todo, wireVars, addVars, remVars, lVars,
                 serving, fault, stopVars>>

WtmAddedUnlockNot(v) ==  \* mutant: the lock is kept
  /\ fault = "none"
  /\ wtmPc[v] = "exporting"
  /\ todo = {}
  /\ wtmPc' = [wtmPc EXCEPT ![v] = "up"]
  /\ UNCHANGED <<expVars, regVars, lock, todo, requested, wireVars, addVars, remVars,
                 lVars, serving, fault, stopVars>>

WtmAddedUnlock(v) ==
  /\ fault = "none"
  /\ wtmPc[v] = "exporting"
  /\ todo = {}
  /\ lock' = None
  /\ wtmPc' = [wtmPc EXCEPT ![v] = "up"]
  /\ UNCHANGED <<expVars, regVars, todo, requested, wireVars, addVars, remVars, lVars,
                 serving, fault, stopVars>>

\* it stops without telling of the wires it leaves; wtmRemoved does nothing
WtmGone(v) ==
  /\ fault = "none"
  /\ wtmPc[v] = "up"
  /\ lock # v /\ leaving[v] = None
  /\ wtmPc' = [wtmPc EXCEPT ![v] = "gone"]
  /\ UNCHANGED <<expVars, regVars, lock, todo, requested, wireVars, addVars, remVars,
                 lVars, serving, fault, stopVars>>

-----------------------------------------------------------------------------
(* remoteServiceAdmin_addWiringEndpoint for a wire of this node.  The WTM  *)
(* makes one announcement or withdrawal at a time.                         *)

\* the wire is new or known, and is looked up in exportedWires, which no lock
\* protects: strcmp reads the ids that come before it, those of freed wires too
Announce(v, s, w) ==
  /\ fault = "none"
  /\ Ready(v) /\ leaving[v] = None
  /\ lock = None
  /\ <<v, s>> \in requested
  /\ w \in announced[v] \cup {nextWire} /\ w <= MaxWire
  /\ announced' = [announced EXCEPT ![v] = @ \cup {w}]
  /\ nextWire' = IF w = nextWire THEN nextWire + 1 ELSE nextWire
  /\ UNCHANGED <<expVars, tracker, endpoint, closed, ahead, wtmVars, remVars, lVars,
                 serving, stopVars>>

\* the registrations of s get the wire id, while a listener may be reading it
SetWire(s, w) ==
  /\ wireOf' = [r \in Reg |-> IF r \in RegsOf(s) THEN w ELSE wireOf[r]]
  /\ fault' = IF \E l \in Listener : s \in toTell[l]
              THEN "properties changed while read" ELSE "none"

\* remoteServiceAdmin_registerReceive: once for each wire
RegisterReceive(w) == receive' = receive \cup {w}

AddKnownSilently(v, s, w) ==  \* mutant: a wire that is known is not announced
  /\ Announce(v, s, w)
  /\ IF s \in exported
     THEN /\ SetWire(s, w)
          /\ RegisterReceive(w) /\ mute' = mute \ {s}
          /\ adding' = <<w, s>> /\ left' = (IF w \in receive THEN {} ELSE Present)
          /\ lock' = v
     ELSE UNCHANGED <<wireOf, receive, mute, addVars, lock, fault>>

\* the wire gets a receive service if it has none; a service that is not
\* exported any more is not noticed
AddWiringEndpoint(v, s, w) ==
  /\ Announce(v, s, w)
  /\ IF s \in exported
     THEN /\ SetWire(s, w)
          /\ RegisterReceive(w) /\ mute' = mute \ {s}
          /\ adding' = <<w, s>> /\ left' = Present /\ lock' = v
     ELSE UNCHANGED <<wireOf, receive, mute, addVars, lock, fault>>

\* its service cannot be registered: the wire id stays, nothing is announced
AddWithoutReceive(v, s, w) ==
  /\ Announce(v, s, w)
  /\ s \in exported /\ w \in Refused \ receive
  /\ SetWire(s, w)
  /\ mute' = mute \cup {s}
  /\ UNCHANGED <<receive, addVars, lock>>

AddFreedWire(v, s, w) ==
  /\ Announce(v, s, w)
  /\ \E x \in Withdrawn : x < w
  /\ fault' = "freed wire id"
  /\ UNCHANGED <<wireOf, receive, mute, addVars, lock>>

\* remoteServiceAdmin_notifyListenersEndpointAdded; it ends with an unlock of
\* listenerListLock, which it never took.  What that lock protects elsewhere is
\* one step here, and the list is read without it anyway (ListenersChanged).
NotifyListener(l) ==
  /\ fault = "none"
  /\ l \in left
  /\ left' = left \ {l}
  /\ told' = [told EXCEPT ![l] = @ \cup (RegsOf(adding[2]) \X {adding[1]})]
  /\ UNCHANGED <<expVars, regVars, lock, wtmVars, wireVars, adding, remVars, lPc,
                 toTell,
                 serving, fault, stopVars>>

AddEnd ==
  /\ fault = "none"
  /\ adding # <<None, None>> /\ left = {}
  /\ adding' = <<None, None>>
  /\ lock' = None
  /\ UNCHANGED <<expVars, regVars, wtmVars, wireVars, left, remVars, lVars, serving,
                 fault, stopVars>>

-----------------------------------------------------------------------------
(* remoteServiceAdmin_removeWiringEndpoint, the part about exported wires. *)

\* the registrations with the wire id are collected under the lock; one that
\* has no wire id yet is compared with all the same
RemoveCollect(v, w) ==
  LET R == UNION {RegsOf(s) : s \in exported} IN
  /\ fault = "none"
  /\ Ready(v) /\ leaving[v] = None
  /\ lock = None
  /\ w \in announced[v]
  /\ leaving' = [leaving EXCEPT ![v] = w]
  /\ stopping' = [stopping EXCEPT ![v] = {r \in R : wireOf[r] = w}]
  /\ fault' = IF \E r \in R : wireOf[r] = None THEN "null wire id" ELSE "none"
  /\ UNCHANGED <<expVars, regVars, lock, wtmVars, wireVars, addVars, lVars, serving,
                 stopVars>>

\* so it is when the wire withdrawn is one of another node
RemoveRemote(v) ==
  /\ fault = "none"
  /\ Ready(v) /\ leaving[v] = None
  /\ lock = None
  /\ \E r \in Reg : ServiceOf[r] \in exported /\ wireOf[r] = None
  /\ fault' = "null wire id"
  /\ UNCHANGED <<expVars, regVars, lock, wtmVars, wireVars, addVars, remVars, lVars,
                 serving, stopVars>>

RemoveStopKeeps(v, r) ==  \* mutant: the tracker is closed without its callbacks
  /\ fault = "none"
  /\ r \in stopping[v]
  /\ stopping' = [stopping EXCEPT ![v] = @ \ {r}]
  /\ StopTracking(r)
  /\ fault' = IF tracker[r] = "destroyed" THEN "freed tracker" ELSE "none"
  /\ UNCHANGED <<expVars, wireOf, closed, ahead, lock, wtmVars, wireVars,
                 addVars, leaving, lVars, serving, stopVars>>

\* they are stopped after the lock has been released
RemoveStop(v, r) ==
  /\ fault = "none"
  /\ r \in stopping[v]
  /\ stopping' = [stopping EXCEPT ![v] = @ \ {r}]
  /\ StopTracking(r)
  /\ IF r \in closed \/ tracker[r] = "destroyed"
     THEN /\ exported' = exported
          /\ fault' = IF r \in closed THEN "freed registration" ELSE "freed tracker"
     ELSE Change(IF endpoint[r] = "live" THEN exported \ {ServiceOf[r]} ELSE exported)
  /\ UNCHANGED <<sPc, targets, wireOf, closed, ahead, lock, wtmVars, wireVars,
                 addVars, leaving, lVars, serving, stopVars>>

RemoveEndKeeps(v) ==  \* mutant: the receive service stays registered
  /\ fault = "none"
  /\ leaving[v] # None /\ stopping[v] = {}
  /\ leaving' = [leaving EXCEPT ![v] = None]
  /\ announced' = [announced EXCEPT ![v] = @ \ {leaving[v]}]
  /\ UNCHANGED <<expVars, regVars, lock, wtmVars, receive, mute, nextWire, addVars, stopping,
                 lVars, serving, fault, stopVars>>

\* remoteServiceAdmin_unregisterReceive, whose maps no lock protects
RemoveEnd(v) ==
  /\ fault = "none"
  /\ leaving[v] # None /\ stopping[v] = {}
  /\ leaving' = [leaving EXCEPT ![v] = None]
  /\ announced' = [announced EXCEPT ![v] = @ \ {leaving[v]}]
  /\ receive' = receive \ {leaving[v]}
  /\ UNCHANGED <<expVars, regVars, lock, wtmVars, mute, nextWire, addVars, stopping, lVars,
                 serving, fault, stopVars>>

-----------------------------------------------------------------------------
(* The endpoint listener tracker, which walks exportedServices unlocked.   *)

\* hashMap_put or hashMap_remove on listenerList; the announcement iterates
\* over it without listenerListLock
ListenersChanged ==
  fault' = IF left # {} THEN "listeners changed while read" ELSE "none"

ListenerAdded(l) ==
  /\ fault = "none"
  /\ lPc[l] = "absent"
  /\ lPc' = [lPc EXCEPT ![l] = IF exported = {} THEN "settled" ELSE "listed"]
  /\ toTell' = [toTell EXCEPT ![l] = exported]
  /\ ListenersChanged
  /\ UNCHANGED <<expVars, regVars, lock, wtmVars, wireVars, addVars, remVars, told,
                 serving, stopVars>>

ListenerTell(l, s) ==
  /\ fault = "none"
  /\ s \in toTell[l]
  /\ toTell' = [toTell EXCEPT ![l] = @ \ {s}]
  /\ lPc' = IF toTell[l] = {s} THEN [lPc EXCEPT ![l] = "settled"] ELSE lPc
  /\ told' = [told EXCEPT ![l] = @ \cup {<<r, wireOf[r]>> : r \in RegsOf(s)}]
  /\ UNCHANGED <<expVars, regVars, lock, wtmVars, wireVars, addVars, remVars,
                 serving, fault, stopVars>>

ListenerRemoved(l) ==
  /\ fault = "none"
  /\ lPc[l] = "settled"
  /\ lPc' = [lPc EXCEPT ![l] = "absent"]
  /\ told' = [told EXCEPT ![l] = {}]
  /\ ListenersChanged
  /\ UNCHANGED <<expVars, regVars, lock, wtmVars, wireVars, addVars, remVars, toTell,
                 serving, stopVars>>

-----------------------------------------------------------------------------
(* remoteServiceAdmin_receive, on a thread of the web server.              *)

ReceiveStart(k) ==
  /\ fault = "none"
  /\ k \notin serving
  /\ receive # {}
  /\ serving' = serving \cup {k}
  /\ UNCHANGED <<expVars, regVars, lock, wtmVars, wireVars, addVars, remVars, lVars,
                 fault, stopVars>>

\* the request names a service; its endpoint answers, if there is one
ReceiveEnd(k) ==
  /\ fault = "none"
  /\ k \in serving
  /\ serving' = serving \ {k}
  /\ \/ fault' = "none"
     \/ \E r \in Reg : /\ ServiceOf[r] \in exported
                       /\ endpoint[r] = "stale"
                       /\ fault' = "freed endpoint"
  /\ UNCHANGED <<expVars, regVars, lock, wtmVars, wireVars, addVars, remVars, lVars,
                 stopVars>>

-----------------------------------------------------------------------------
(* The stop of the bundle: remoteServiceAdmin_stop and _destroy, after the *)
(* RSA service has been unregistered.                                      *)

\* every registration in exportedServices, under the lock
StopCollect ==
  /\ fault = "none"
  /\ admin = "running"
  /\ lock = None
  /\ \A s \in Service : sPc[s] \in {"new", "done"}
  /\ admin' = "stopping"
  /\ toStop' = UNION {RegsOf(s) : s \in exported}
  /\ UNCHANGED <<expVars, regVars, lock, wtmVars, wireVars, addVars, remVars, lVars,
                 serving, fault>>

\* they are stopped without it, like those of a withdrawn wire
StopOne(r) ==
  /\ fault = "none"
  /\ r \in toStop
  /\ toStop' = toStop \ {r}
  /\ StopTracking(r)
  /\ IF tracker[r] = "destroyed"
     THEN exported' = exported /\ fault' = "freed tracker"
     ELSE Change(IF endpoint[r] = "live" THEN exported \ {ServiceOf[r]} ELSE exported)
  /\ UNCHANGED <<sPc, targets, wireOf, closed, ahead, lock, wtmVars, wireVars, addVars,
                 remVars, lVars, serving, admin>>

\* the maps go and the admin is freed
StopEnd ==
  /\ fault = "none"
  /\ admin = "stopping" /\ toStop = {}
  /\ admin' = "stopped"
  /\ exported' = {}
  /\ fault' = IF Walked \/ lock # None THEN "freed admin" ELSE "none"
  /\ UNCHANGED <<sPc, targets, regVars, lock, wtmVars, wireVars, addVars, remVars,
                 lVars,
                 serving, toStop>>

\* Its trackers are never closed, its receive services stay registered and its
\* listener is unregistered last: whoever calls one of them finds it freed.
UseAfterStop ==
  /\ fault = "none"
  /\ admin = "stopped"
  /\ \/ receive # {}
     \/ \E v \in Wtm : wtmPc[v] = "new" \/ announced[v] # {}
     \/ \E l \in Listener : toTell[l] = {}
  /\ fault' = "freed admin"
  /\ UNCHANGED <<expVars, regVars, lock, wtmVars, wireVars, addVars, remVars, lVars,
                 serving, stopVars>>

-----------------------------------------------------------------------------

Running ==
  \/ \E s \in Service : ExportInstall(s) \/ ExportPut(s) \/ ExportGetWTMs(s)
  \/ \E s \in Service, v \in Wtm : ExportRequest(s, v) \/ WtmAddedRequest(v, s)
                                       \/ WtmAnswers(v, s)
  \/ \E r \in Reg : EndpointAdded(r) \/ EndpointRemoved(r) \/ Close(r)
  \/ \E v \in Wtm : WtmAddedList(v) \/ WtmAddedLock(v) \/ WtmAddedUnlock(v) \/ WtmGone(v)
  \/ \E v \in Wtm, s \in Service, w \in Wire :
        AddWiringEndpoint(v, s, w) \/ AddWithoutReceive(v, s, w) \/ AddFreedWire(v, s, w)
  \/ \E l \in Listener : NotifyListener(l)
  \/ AddEnd
  \/ \E v \in Wtm, w \in Wire : RemoveCollect(v, w)
  \/ \E v \in Wtm, r \in Reg : RemoveStop(v, r)
  \/ \E v \in Wtm : RemoveEnd(v) \/ RemoveRemote(v)
  \/ \E l \in Listener : ListenerAdded(l) \/ ListenerRemoved(l)
  \/ \E l \in Listener, s \in Service : ListenerTell(l, s)
  \/ \E k \in Worker : ReceiveStart(k) \/ ReceiveEnd(k)

Next ==
  \/ admin # "stopped" /\ Running
  \/ StopCollect \/ StopEnd \/ UseAfterStop
  \/ \E r \in Reg : StopOne(r)

Spec == Init /\ [][Next]_vars

-----------------------------------------------------------------------------
(* Properties.                                                             *)

TypeOK ==
  /\ exported \subseteq Service
  /\ sPc \in [Service -> {"new", "installed", "put", "calling", "done"}]
  /\ targets \in [Service -> SUBSET Wtm]
  /\ wireOf \in [Reg -> Wire \cup {None}]
  /\ tracker \in [Reg -> {"none", "open", "destroyed"}]
  /\ endpoint \in [Reg -> {"none", "live", "stale"}]
  /\ closed \subseteq Reg /\ ahead \subseteq Reg
  /\ receive \subseteq 1..(nextWire - 1) /\ mute \subseteq Service
  /\ lock \in Wtm \cup {None}
  /\ wtmPc \in [Wtm -> {"new", "listed", "exporting", "stuck", "up", "gone"}]
  /\ todo \subseteq Service /\ requested \subseteq Wtm \X Service
  /\ announced \in [Wtm -> SUBSET Wire] /\ nextWire \in 1..(MaxWire + 1)
  /\ adding \in (Wire \X Service) \cup {<<None, None>>} /\ left \subseteq Listener
  /\ leaving \in [Wtm -> Wire \cup {None}] /\ stopping \in [Wtm -> SUBSET Reg]
  /\ lPc \in [Listener -> {"absent", "listed", "settled"}]
  /\ toTell \in [Listener -> SUBSET Service]
  /\ told \in [Listener -> SUBSET (Reg \X (Wire \cup {None}))]
  /\ serving \subseteq Worker
  /\ admin \in {"running", "stopping", "stopped"} /\ toStop \subseteq Reg
  /\ fault \in {"none", "freed WTM", "freed tracker", "freed registration",
                "freed endpoint", "freed admin", "freed wire id", "null wire id",
                "map changed while read", "listeners changed while read",
                "properties changed while read"}
  /\ lock # None <=>
       adding # <<None, None>> \/ \E v \in Wtm : wtmPc[v] \in {"exporting", "stuck"}

(* No service is missed between "put in the map, then look up the WTMs" of *)
(* exportService and "add to the list, then walk the map" of wtmAdded: a   *)
(* WTM that has been handled was asked for every exported service, or is   *)
(* about to be.                                                            *)
NoLostRequest ==
  \A v \in Wtm, s \in exported :
    wtmPc[v] = "up" => <<v, s>> \in requested \/ sPc[s] = "put" \/ v \in targets[s]

(* An endpoint listener whose registration has been handled was told of    *)
(* every exported service with the wire it has now, by the walk of the     *)
(* tracker or by an announcement, which is made for a known wire as well.  *)
(* The receive services are those of wires that their WTM still has, and   *)
(* every such wire that an exported service was given has one.  Both leave *)
(* out the services whose last wire could not be registered: they have its *)
(* id, but nobody is told and nothing answers.                             *)
AnnouncedExact ==
  LET W == UNION {announced[v] : v \in Wtm}
      E == {r \in Reg : ServiceOf[r] \in exported \ mute} IN
  /\ \A l \in Listener, r \in E :
       /\ lPc[l] = "settled" /\ fault = "none" /\ wireOf[r] # None
       /\ ~(l \in left /\ adding[2] = ServiceOf[r])
       => <<r, wireOf[r]>> \in told[l]
  /\ receive \subseteq W
  /\ {wireOf[r] : r \in E} \cap W \subseteq receive

(* A withdrawn wire takes its services out of exportedServices: one whose  *)
(* tracker was stopped is still there only if no endpoint service was      *)
(* tracked for it, and is the only kind that can be stopped again.  A      *)
(* request is handed to an endpoint service that has gone only if it went  *)
(* while exportService had not yet put the service in the map.             *)
StaleOnlyEarly ==
  /\ \A r \in Reg : ServiceOf[r] \in exported =>
       /\ tracker[r] = "destroyed" => endpoint[r] = "none" \/ r \in ahead
       /\ endpoint[r] = "stale" => r \in ahead
  /\ fault = "freed endpoint" => ahead # {}
=============================================================================
