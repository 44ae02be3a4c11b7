------------------------------ MODULE WtmExport ------------------------------
(***************************************************************************)
(* The export side of the wiring topology manager (WTM).                   *)
(*                                                                         *)
(* The remote service admin asks for a wire for a service; the WTM lets a  *)
(* wiring admin (WA) open an endpoint and tells every wiring endpoint      *)
(* listener about it.  Wiring admins and listeners come and go in the      *)
(* callbacks of two service trackers, on other threads than the requests.  *)
(*                                                                         *)
(* Three mutexes matter: exportedWiringEndpointsLock is the variable       *)
(* "lock" (held over several steps by the loops of the WA callbacks, by    *)
(* one-step handlers only inside their step); waListLock and               *)
(* listenerListLock are only ever held within one step.                    *)
(***************************************************************************)
EXTENDS Naturals

CONSTANTS
  Service,      \* services handed to exportWiringEndpoint, by service.id
  Props,        \* classes of service properties equal for srvcProperties_equals
  WA,           \* wiring admin instances; a restarted bundle is another one
  Listener,     \* wiring endpoint listeners whose scope matches this framework
  PropsOf,      \* the wire-relevant properties of a service
  Capable,      \* the wiring admins whose properties match a property class
  Flaky,        \* the wiring admins whose exportWiringEndpoint may fail
  MaxEndpoint,  \* bound: endpoints created in one behaviour
  None

Endpoint == 1..MaxEndpoint

ASSUME ExportAssumption ==
  /\ PropsOf \in [Service -> Props]
  /\ Capable \in [Props -> SUBSET WA]
  /\ Flaky \subseteq WA
  /\ MaxEndpoint \in Nat
  /\ None \notin Service \cup WA \cup Endpoint

VARIABLES
  waList,       \* wiring_topology_manager.waList
  waPc,         \* where the tracker callbacks of a wiring admin have got to
  lock,         \* the wiring admin callback holding exportedWiringEndpointsLock
  todo,         \* entries the callback holding the lock has still to visit
  retry,        \* waiting services it has still to try
  closing,      \* the endpoint waRemoved has announced but not yet destroyed
  key,          \* exportedWiringEndpoints: the service whose properties are the key
  wire,         \* exportedWiringEndpoints: the endpoint stored per entry and admin
  waiting,      \* waitingForExport
  nextEp,       \* the next endpoint wiringEndpointDescription_create returns
  reqId,        \* requested.service.id of an endpoint
  open,         \* wiringReceiveTracker: the endpoints a wiring admin has open
  freed,        \* endpoints destroyed by removeExportedWiringEndpoint of a WA
  lPc,          \* listener: absent, listed (in listenerList) or settled
  heard,        \* the <<endpoint, requested.service.id>> a listener was told of
  requested,    \* history: services exportWiringEndpoint was called for
  served,       \* history: services attached to an entry
  withdrawn,    \* history: endpoints freed by removeExportedWiringEndpoint of the WTM
  overwritten,  \* history: endpoints whose slot a hashMap_put replaced
  fault         \* undefined behaviour reached; nothing is said of what follows

waVars   == <<waList, waPc, lock, todo, retry, closing>>
mapVars  == <<key, wire, waiting>>
epVars   == <<nextEp, reqId, open, freed>>
lVars    == <<lPc, heard>>
history  == <<requested, served, withdrawn, overwritten>>
vars     == <<waVars, mapVars, epVars, lVars, history, fault>>

Entries    == {p \in Props : key[p] # None}
WiresOf(p) == {wire[p][w] : w \in WA} \ {None}
Wires      == UNION {WiresOf(p) : p \in Props}
Known(l)   == {h[1] : h \in heard[l]}
Present    == {l \in Listener : lPc[l] # "absent"}

Init ==
  /\ waList = {} /\ waPc = [w \in WA |-> "new"]
  /\ lock = None /\ todo = {} /\ retry = {} /\ closing = None
  /\ key = [p \in Props |-> None]
  /\ wire = [p \in Props |-> [w \in WA |-> None]]
  /\ waiting = {}
  /\ nextEp = 1
  /\ reqId = [e \in Endpoint |-> None]
  /\ open = [w \in WA |-> {}]
  /\ freed = {}
  /\ lPc = [l \in Listener |-> "absent"]
  /\ heard = [l \in Listener |-> {}]
  /\ requested = {} /\ served = {} /\ withdrawn = {} /\ overwritten = {}
  /\ fault = "none"

-----------------------------------------------------------------------------
(* Steps shared by the handlers.                                           *)

NotifyAddedWithoutId(E, s) ==  \* mutant: announced before requested.service.id is set
  heard' = [l \in Listener |->
              IF l \in Present THEN heard[l] \cup (E \X {None}) ELSE heard[l]]

\* notifyListenersWiringEndpointAdded for the endpoints E on behalf of s
NotifyAdded(E, s) ==
  heard' = [l \in Listener |->
              IF l \in Present THEN heard[l] \cup (E \X {s}) ELSE heard[l]]

NotifyRemovedNobody(e) ==  \* mutant: the listeners are not told
  heard' = heard

NotifyRemoved(e) ==
  heard' = [l \in Listener |-> {h \in heard[l] : h[1] # e}]

\* A wiring admin opens a new endpoint for service s; every listener is told.
OpenEndpoint(w, s) ==
  /\ nextEp <= MaxEndpoint
  /\ nextEp' = nextEp + 1
  /\ open' = [open EXCEPT ![w] = @ \cup {nextEp}]
  /\ reqId' = [reqId EXCEPT ![nextEp] = s]
  /\ NotifyAdded({nextEp}, s)
  /\ UNCHANGED <<freed, lPc>>

CannotOpen(w, p) == w \in Flaky \/ w \notin Capable[p]

-----------------------------------------------------------------------------
(* wiringTopologyManager_exportWiringEndpoint                              *)

\* an entry with equal properties exists: its endpoints are announced again
ReuseWire(s) ==
  LET E == WiresOf(PropsOf[s]) IN
  /\ PropsOf[s] \in Entries
  /\ reqId' = [e \in Endpoint |-> IF e \in E THEN s ELSE reqId[e]]
  /\ NotifyAdded(E, s)
  /\ served' = served \cup {s}
  /\ UNCHANGED <<mapVars, nextEp, open, freed, lPc, withdrawn, overwritten>>

\* no entry and no wiring admin: the request waits
WaitForWA(s) ==
  /\ PropsOf[s] \notin Entries
  /\ waList = {}
  /\ waiting' = waiting \cup {s}
  /\ UNCHANGED <<key, wire, epVars, lVars, served, withdrawn, overwritten>>

\* no entry: the listed wiring admins are tried until one has produced an
\* endpoint; the entry is made before the attempts and stays, without endpoint,
\* when all fail or one fails after it has created the description
NewWire(s) ==
  LET p == PropsOf[s] IN
  /\ p \notin Entries
  /\ waList # {}
  /\ key' = [key EXCEPT ![p] = s]
  /\ served' = served \cup {s}
  /\ \/ \E w \in waList \cap Capable[p] :
          /\ OpenEndpoint(w, s)
          /\ wire' = [wire EXCEPT ![p] = [v \in WA |-> IF v = w THEN nextEp ELSE None]]
     \/ /\ \/ \A w \in waList : CannotOpen(w, p)
           \/ waList \cap Capable[p] \cap Flaky # {}
        /\ wire' = [wire EXCEPT ![p] = [v \in WA |-> None]]
        /\ UNCHANGED <<epVars, lVars>>
  /\ UNCHANGED <<waiting, withdrawn, overwritten>>

ExportWiringEndpoint(s) ==
  /\ lock = None
  /\ s \notin requested
  /\ requested' = requested \cup {s}
  /\ ReuseWire(s) \/ WaitForWA(s) \/ NewWire(s)
  /\ UNCHANGED waVars

RemoveExportedKeepsEntry(p) ==  \* mutant: hashMap_get instead of hashMap_remove
  LET E == WiresOf(p) IN
  /\ lock = None
  /\ p \in Entries
  /\ open' = [w \in WA |-> open[w] \ E]
  /\ freed' = freed \cup E
  /\ withdrawn' = withdrawn \cup E
  /\ UNCHANGED <<waVars, mapVars, nextEp, reqId, lVars, requested, served, overwritten, fault>>

RemoveExportedKeepsOpen(p) ==  \* mutant: the wiring admins are not asked to close
  /\ lock = None
  /\ p \in Entries
  /\ key' = [key EXCEPT ![p] = None]
  /\ wire' = [wire EXCEPT ![p] = [w \in WA |-> None]]
  /\ served' = {s \in served : PropsOf[s] # p}
  /\ UNCHANGED <<waVars, waiting, epVars, lVars, requested, withdrawn, overwritten, fault>>

\* wiringTopologyManager_removeExportedWiringEndpoint: the entry is dropped
\* and its endpoints destroyed; the listeners are not told.  The entry may still
\* hold an endpoint of an admin that is gone, whose service is freed by then.
RemoveExportedWiringEndpoint(p) ==
  LET E == WiresOf(p) IN
  /\ lock = None
  /\ p \in Entries
  /\ key' = [key EXCEPT ![p] = None]
  /\ wire' = [wire EXCEPT ![p] = [w \in WA |-> None]]
  /\ open' = [w \in WA |-> open[w] \ E]
  /\ freed' = freed \cup E
  /\ withdrawn' = withdrawn \cup E
  /\ served' = {s \in served : PropsOf[s] # p}
  /\ fault' = IF \E w \in WA : waPc[w] = "gone" /\ wire[p][w] # None
              THEN "freed admin" ELSE "none"
  /\ UNCHANGED <<waVars, waiting, nextEp, reqId, lVars, requested, overwritten>>

-----------------------------------------------------------------------------
(* wiringTopologyManager_waAdded, up to the release of the export lock.    *)

WaAddedList(w) ==
  /\ waPc[w] = "new"
  /\ waPc' = [waPc EXCEPT ![w] = "listed"]
  /\ waList' = waList \cup {w}
  /\ UNCHANGED <<lock, todo, retry, closing, mapVars, epVars, lVars, history>>

WaAddedIgnoresWaiting(w) ==  \* mutant: waitingForExport is not looked at
  /\ waPc[w] = "listed"
  /\ lock = None
  /\ lock' = w
  /\ waPc' = [waPc EXCEPT ![w] = "exporting"]
  /\ todo' = Entries
  /\ retry' = {}
  /\ UNCHANGED <<waList, closing, mapVars, epVars, lVars, history>>

WaAddedLock(w) ==
  /\ waPc[w] = "listed"
  /\ lock = None
  /\ lock' = w
  /\ waPc' = [waPc EXCEPT ![w] = "exporting"]
  /\ todo' = Entries
  /\ retry' = waiting
  /\ UNCHANGED <<waList, closing, mapVars, epVars, lVars, history>>

\* first loop: every entry, whether it has an endpoint at this admin or not
WaAddedExportEntry(w, p) ==
  /\ waPc[w] = "exporting"
  /\ p \in todo
  /\ todo' = todo \ {p}
  /\ \/ /\ w \in Capable[p]
        /\ OpenEndpoint(w, key[p])
        /\ wire' = [wire EXCEPT ![p][w] = nextEp]
        /\ overwritten' = overwritten \cup ({wire[p][w]} \ {None})
     \/ /\ CannotOpen(w, p)
        /\ UNCHANGED <<wire, epVars, lVars, overwritten>>
  /\ UNCHANGED <<waList, waPc, lock, retry, closing, key, waiting,
                 requested, served, withdrawn>>

\* second loop: the waiting services; a success restarts the iteration, and
\* stores a new map that replaces the map of an entry with equal properties
WaAddedExportWaiting(w, s) ==
  LET p == PropsOf[s] IN
  /\ waPc[w] = "exporting"
  /\ todo = {}
  /\ s \in retry
  /\ \/ /\ w \in Capable[p]
        /\ OpenEndpoint(w, s)
        /\ waiting' = waiting \ {s}
        /\ retry' = waiting \ {s}
        /\ key' = [key EXCEPT ![p] = IF @ = None THEN s ELSE @]
        /\ wire' = [wire EXCEPT ![p] = [v \in WA |-> IF v = w THEN nextEp ELSE None]]
        /\ served' = served \cup {s}
        /\ overwritten' = overwritten \cup WiresOf(p)
     \/ /\ CannotOpen(w, p)
        /\ retry' = retry \ {s}
        /\ UNCHANGED <<mapVars, epVars, lVars, served, overwritten>>
  /\ UNCHANGED <<waList, waPc, lock, todo, closing, requested, withdrawn>>

WaAddedUnlock(w) ==
  /\ waPc[w] = "exporting"
  /\ todo = {} /\ retry = {}
  /\ lock' = None
  /\ waPc' = [waPc EXCEPT ![w] = "tracked"]
  /\ UNCHANGED <<waList, todo, retry, closing, mapVars, epVars, lVars, history>>

-----------------------------------------------------------------------------
(* The stop of a wiring admin, and wiringTopologyManager_waRemoved.        *)

\* the WA activator stops the admin before it unregisters the service
WaStop(w) ==
  /\ waPc[w] = "tracked"
  /\ waPc' = [waPc EXCEPT ![w] = "stopping"]
  /\ open' = [open EXCEPT ![w] = {}]
  /\ UNCHANGED <<waList, lock, todo, retry, closing, mapVars,
                 nextEp, reqId, freed, lVars, history>>

WaRemovedLock(w) ==
  /\ waPc[w] = "stopping"
  /\ lock = None
  /\ lock' = w
  /\ waPc' = [waPc EXCEPT ![w] = "removing"]
  /\ todo' = {p \in Entries : wire[p][w] # None}
  /\ UNCHANGED <<waList, retry, closing, mapVars, epVars, lVars, history>>

\* the endpoint leaves the map and the listeners are told ...
WaRemovedNotify(w, p) ==
  /\ waPc[w] = "removing"
  /\ closing = None
  /\ p \in todo
  /\ todo' = todo \ {p}
  /\ closing' = wire[p][w]
  /\ wire' = [wire EXCEPT ![p][w] = None]
  /\ NotifyRemoved(wire[p][w])
  /\ UNCHANGED <<waList, waPc, lock, retry, key, waiting, epVars, lPc, history>>

\* ... before removeExportedWiringEndpoint of the admin destroys it
WaRemovedDestroy(w) ==
  /\ waPc[w] = "removing"
  /\ closing # None
  /\ open' = [open EXCEPT ![w] = @ \ {closing}]
  /\ freed' = freed \cup {closing}
  /\ closing' = None
  /\ UNCHANGED <<waList, waPc, lock, todo, retry, mapVars, nextEp, reqId,
                 lVars, history>>

WaRemovedUnlock(w) ==
  /\ waPc[w] = "removing"
  /\ todo = {} /\ closing = None
  /\ lock' = None
  /\ waPc' = [waPc EXCEPT ![w] = "cleaned"]
  /\ UNCHANGED <<waList, todo, retry, closing, mapVars, epVars, lVars, history>>

\* only now, in another critical section, the admin leaves waList
WaRemovedList(w) ==
  /\ waPc[w] = "cleaned"
  /\ waPc' = [waPc EXCEPT ![w] = "gone"]
  /\ waList' = waList \ {w}
  /\ UNCHANGED <<lock, todo, retry, closing, mapVars, epVars, lVars, history>>

-----------------------------------------------------------------------------
(* The wiring endpoint listener tracker.                                   *)

ListenerAddedList(l) ==
  /\ lPc[l] = "absent"
  /\ lPc' = [lPc EXCEPT ![l] = "listed"]
  /\ UNCHANGED <<heard, waVars, mapVars, epVars, history>>

ListenerAddedDeliverOne(l) ==  \* mutant: only one endpoint of an entry is delivered
  /\ lPc[l] = "listed"
  /\ lock = None
  /\ lPc' = [lPc EXCEPT ![l] = "settled"]
  /\ LET some == {(CHOOSE e \in WiresOf(p) : TRUE) : p \in {q \in Props : WiresOf(q) # {}}}
     IN  heard' = [heard EXCEPT ![l] = @ \cup {<<e, reqId[e]>> : e \in some}]
  /\ UNCHANGED <<waVars, mapVars, epVars, history>>

ListenerAddedDeliver(l) ==
  /\ lPc[l] = "listed"
  /\ lock = None
  /\ lPc' = [lPc EXCEPT ![l] = "settled"]
  /\ heard' = [heard EXCEPT ![l] = @ \cup {<<e, reqId[e]>> : e \in Wires}]
  /\ UNCHANGED <<waVars, mapVars, epVars, history>>

ListenerRemoved(l) ==
  /\ lPc[l] = "settled"
  /\ lPc' = [lPc EXCEPT ![l] = "absent"]
  /\ heard' = [heard EXCEPT ![l] = {}]
  /\ UNCHANGED <<waVars, mapVars, epVars, history>>

-----------------------------------------------------------------------------

WaCallback(w) ==
  /\ fault = "none" /\ UNCHANGED fault
  /\ \/ WaAddedLock(w) \/ WaAddedUnlock(w)
     \/ \E p \in Props : WaAddedExportEntry(w, p)
     \/ \E s \in Service : WaAddedExportWaiting(w, s)
     \/ WaRemovedLock(w) \/ WaRemovedDestroy(w) \/ WaRemovedUnlock(w) \/ WaRemovedList(w)
     \/ \E p \in Props : WaRemovedNotify(w, p)

Others ==
  /\ fault = "none" /\ UNCHANGED fault
  /\ \/ \E s \in Service : ExportWiringEndpoint(s)
     \/ \E w \in WA : WaAddedList(w) \/ WaStop(w)
     \/ \E l \in Listener :
          ListenerAddedList(l) \/ ListenerAddedDeliver(l) \/ ListenerRemoved(l)

Next ==
  \/ Others
  \/ \E w \in WA : WaCallback(w)
  \/ fault = "none" /\ \E p \in Props : RemoveExportedWiringEndpoint(p)

Spec == Init /\ [][Next]_vars

(* A tracker callback that has started runs to its end, unless a fault     *)
(* ends the process: its thread only waits for the mutex, which every      *)
(* holder releases.                                                        *)
FairSpec == Spec /\ \A w \in WA : WF_vars(WaCallback(w))

-----------------------------------------------------------------------------
(* Properties.                                                             *)

StateTypeOK ==
  /\ waList \subseteq WA
  /\ waPc \in [WA -> {"new", "listed", "exporting", "tracked", "stopping",
                      "removing", "cleaned", "gone"}]
  /\ lock \in WA \cup {None}
  /\ todo \subseteq Props /\ retry \subseteq Service
  /\ closing \in Endpoint \cup {None}
  /\ key \in [Props -> Service \cup {None}]
  /\ wire \in [Props -> [WA -> Endpoint \cup {None}]]
  /\ waiting \subseteq Service
  /\ nextEp \in 1..(MaxEndpoint + 1)
  /\ reqId \in [Endpoint -> Service \cup {None}]
  /\ open \in [WA -> SUBSET Endpoint]
  /\ freed \subseteq Endpoint
  /\ lPc \in [Listener -> {"absent", "listed", "settled"}]
  /\ heard \in [Listener -> SUBSET (Endpoint \X Service)]
  /\ requested \subseteq Service /\ served \subseteq Service
  /\ withdrawn \subseteq Endpoint /\ overwritten \subseteq Endpoint

TypeOK == StateTypeOK /\ fault \in {"none", "freed admin"}

(* No endpoint stored in exportedWiringEndpoints has been destroyed, and   *)
(* none is stored twice: re-using a wire or delivering it to a listener    *)
(* never touches freed memory, and waRemoved never destroys one twice.     *)
StoredWiresAlive ==
  /\ Wires \cap freed = {}
  /\ \A p, q \in Props : \A v, w \in WA :
       wire[p][v] # None /\ wire[p][v] = wire[q][w] => p = q /\ v = w

(* A listener whose registration has been handled knows every endpoint of  *)
(* the map, whatever exports, admins and registrations ran in between.     *)
SettledListenersComplete ==
  \A l \in Listener : lPc[l] = "settled" => Wires \subseteq Known(l)

(* waRemoved tells the listeners before the admin destroys the endpoint:   *)
(* a listener holds a destroyed endpoint only after an explicit            *)
(* removeExportedWiringEndpoint, which tells nobody.                       *)
NoDanglingKnowledge ==
  \A l \in Listener : Known(l) \cap freed \subseteq withdrawn

(* So what the listeners know is right.                                    *)
ListenersExact == SettledListenersComplete /\ NoDanglingKnowledge

(* No lost wake-up between "no wiring admin, wait" and waAdded: while a    *)
(* request waits, every tracked admin that can carry it is one whose       *)
(* export may fail.                                                        *)
NoLostExport ==
  \A s \in waiting : \A w \in WA :
    waPc[w] = "tracked" => CannotOpen(w, PropsOf[s])

(* The WTM can lose track of an endpoint a running admin has open only by  *)
(* replacing its slot with hashMap_put (waAdded exporting an entry that    *)
(* the new admin already serves, or two waiting services with equal        *)
(* properties).                                                            *)
OpenWiresStored ==
  \A w \in WA : waPc[w] \in {"listed", "exporting", "tracked"} =>
    open[w] \subseteq {wire[p][w] : p \in Props} \cup overwritten

(* So the map and the admins agree.                                        *)
WiresExact == StoredWiresAlive /\ OpenWiresStored

(* A waiting service that a newly added, reliable and capable wiring admin *)
(* can carry is eventually taken off the waiting list, unless a fault      *)
(* comes first.                                                            *)
WaitingServed ==
  \A s \in Service, w \in WA :
    (s \in waiting /\ waPc[w] = "listed" /\ ~CannotOpen(w, PropsOf[s]))
      ~> s \notin waiting \/ fault # "none"
=============================================================================
