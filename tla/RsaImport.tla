------------------------------ MODULE RsaImport ------------------------------
(***************************************************************************)
(* The import side of the remote service admin (RSA), with the import      *)
(* registrations, the remote proxy factories, the send services and the    *)
(* start and stop of its bundle.                                           *)
(*                                                                         *)
(* The topology manager of Celix has an endpoint description imported.     *)
(* The RSA sees to it that a proxy factory runs for the interface, asks    *)
(* every wiring topology manager (WTM) for the wire, and registers a proxy *)
(* when a WTM announces it.  A proxy sends its calls through the send      *)
(* service of the wire.                                                    *)
(*                                                                         *)
(* importedServicesLock is "lock": importService releases it around each   *)
(* call of a WTM, wtmAdded does not.  A WTM calls back with its own lock   *)
(* held, one that ran before this bundle ("Early") as soon as the listener *)
(* is registered.  sendServicesLock is held during an exchange ("sending").*)
(* Undefined behaviour is recorded in "fault" and ends a behaviour.        *)
(***************************************************************************)
EXTENDS Naturals, FiniteSets

CONSTANTS
  Import,      \* endpoint descriptions to import, by pointer; ids are distinct
  Interface,
  Wire,
  InterfaceOf, \* the service a description names
  WireOf,      \* the wire id in its properties
  Wtm,         \* WTM instances; a restarted bundle is another one
  Early,       \* those that run already when this bundle is started
  SendService, \* send services that wiring admins register
  SendWire,    \* the wire of a send service
  Caller,      \* threads that call proxies
  None

ASSUME RsaImportAssumption ==
  /\ InterfaceOf \in [Import -> Interface] /\ WireOf \in [Import -> Wire]
  /\ SendWire \in [SendService -> Wire]
  /\ IsFiniteSet(Import) /\ IsFiniteSet(Wtm) /\ Import \cap Wtm = {} /\ Early \subseteq Wtm
  /\ None \notin Wtm \cup Import \cup Wire \cup SendService

VARIABLES
  phase,       \* of the bundle: created, running, unpublished, stopped, freed, gone
  listener,    \* its wiring endpoint listener is registered
  imported,    \* the keys of importedServices
  factory,     \* interfaces with an import_registration_factory that is not freed
  regs,        \* how often a description is in the registrations of its factory
  mine,        \* interfaces whose proxy bundle the factory installed
  bundle,      \* proxy bundle of an interface: none, stopped, started
  proxies,     \* proxy_instances of the remote proxy factories
  stray,       \* descriptions with a proxy service that a hashMap_put replaced
  iPc,         \* importService: new, calling, called, done, failed, closed
  targets,     \* the WTMs it has still to ask
  lock,        \* who holds importedServicesLock from one step to the next
  wtmPc,       \* Wtm: new, listed (in wtmList), importing, up, gone
  todo,        \* entries wtmAdded has still to ask for
  failing,     \* its status is no longer CELIX_SUCCESS
  wires,       \* the wires a WTM can use
  waiting,     \* the requests that wait in a WTM: <<description, named>>
  adding,      \* the descriptions a WTM is announcing
  removing,    \* the wire a WTM is withdrawing
  sendPc,      \* send service: down, up (one that comes again is compared with nothing)
  sendServices,\* the RSA's table of them, by wire
  sending,     \* the send service a caller is in, with sendServicesLock
  named,       \* history: <<v, e>> when v was asked for e with its service id
  lost,        \* history: <<v, e>> when v forgot a request for e that waited
  fell,        \* history: interfaces whose proxy bundle stopped
  untracked,   \* history: descriptions closed while no proxy factory was tracked
  fault        \* undefined behaviour reached; nothing is said of what follows

busVars  == <<phase, listener>>
impVars  == <<imported, factory, regs, mine>>
pxVars   == <<bundle, proxies, stray, fell>>
callVars == <<iPc, targets>>
wtmVars  == <<wtmPc, todo, failing>>
wireVars == <<wires, waiting, adding, removing, named, lost>>
sendVars == <<sendPc, sendServices, sending>>
vars     == <<busVars, impVars, pxVars, callVars, lock, wtmVars, wireVars, sendVars,
              untracked, fault>>

Listed     == {v \in Wtm : wtmPc[v] \in {"listed", "importing", "up", "gone"}}
Published  == phase = "running" /\ \E v \in Wtm : wtmPc[v] \in {"up", "gone"}
OfIntf(i)  == {e \in Import : InterfaceOf[e] = i}
Freed      == {e \in Import : iPc[e] = "closed"}
Tracked(e) == InterfaceOf[e] \in factory /\ bundle[InterfaceOf[e]] = "started"
AdminGone  == phase \in {"stopped", "freed", "gone"}
Busy(v)    == adding[v] # {} \/ removing[v] # None
\* its trackers are open: one that starts opens them when wtmAdded is over
Ready(v)   == wtmPc[v] = "up" \/ (v \in Early /\ wtmPc[v] # "gone")

\* a walk over importedServices reads the keys, up to one it looks for
Walk(found) ==
  fault' \in IF imported \cap Freed = {} THEN {"none"}
            ELSE {"freed description"} \cup (IF found THEN {"none"} ELSE {})

Init ==
  /\ phase = "created" /\ listener = FALSE
  /\ imported = {} /\ factory = {} /\ regs = [e \in Import |-> 0] /\ mine = {}
  /\ bundle = [i \in Interface |-> "none"] /\ proxies = {} /\ stray = {} /\ fell = {}
  /\ iPc = [e \in Import |-> "new"] /\ targets = [e \in Import |-> {}]
  /\ lock = None
  /\ wtmPc = [v \in Wtm |-> "new"] /\ todo = {} /\ failing = FALSE
  /\ wires = [v \in Wtm |-> {}] /\ waiting = [v \in Wtm |-> {}]
  /\ adding = [v \in Wtm |-> {}] /\ removing = [v \in Wtm |-> None] /\ named = {}
  /\ lost = {}
  /\ sendPc = [x \in SendService |-> "down"] /\ sendServices = [w \in Wire |-> None]
  /\ sending = [c \in Caller |-> None]
  /\ untracked = {}
  /\ fault = "none"

-----------------------------------------------------------------------------
(* The bundle: bundleActivator_start, up to its stop further below.        *)

\* the wiring endpoint listener is registered before the WTMs are tracked
StartListener ==
  /\ fault = "none"
  /\ phase \in {"created", "running"} /\ ~listener
  /\ listener' = TRUE
  /\ UNCHANGED <<phase, impVars, pxVars, callVars, lock, wtmVars, wireVars, sendVars,
                 untracked, fault>>

StartTrackerEarly ==  \* mutant: the tracker is opened before the listener is there
  /\ fault = "none"
  /\ phase = "created"
  /\ phase' = "running"
  /\ UNCHANGED <<listener, impVars, pxVars, callVars, lock, wtmVars, wireVars, sendVars,
                 untracked, fault>>

StartTracker ==
  /\ fault = "none"
  /\ phase = "created" /\ listener
  /\ phase' = "running"
  /\ UNCHANGED <<listener, impVars, pxVars, callVars, lock, wtmVars, wireVars, sendVars,
                 untracked, fault>>

-----------------------------------------------------------------------------
(* The proxy factories: a bundle for each interface.                       *)

\* the services of bundle i are unregistered when it stops
ProxiesGone(i) ==
  /\ proxies' = proxies \ OfIntf(i)
  /\ stray' = stray \ OfIntf(i)

\* somebody stops the bundle: importRegistration_proxyFactoryRemoved
ProxyStopped(i) ==
  /\ fault = "none"
  /\ bundle[i] = "started"
  /\ bundle' = [bundle EXCEPT ![i] = "stopped"]
  /\ ProxiesGone(i)
  /\ fell' = fell \cup {i}
  /\ UNCHANGED <<busVars, impVars, callVars, lock, wtmVars, wireVars, sendVars,
                 untracked, fault>>

\* importRegistration_proxyFactoryAdded sets trackedFactory; no proxy comes back
ProxyStarted(i) ==
  /\ fault = "none"
  /\ bundle[i] = "stopped"
  /\ bundle' = [bundle EXCEPT ![i] = "started"]
  /\ UNCHANGED <<busVars, impVars, proxies, stray, fell, callVars, lock, wtmVars,
                 wireVars, sendVars, untracked, fault>>

\* remoteProxyFactory_registerProxyService: the put replaces an older proxy
RegisterProxies(E) ==
  /\ proxies' = proxies \cup E
  /\ stray' = stray \cup (E \cap proxies)

\* remoteProxyFactory_unregisterProxyService: a replaced proxy is not found
Unregister(e) == proxies \ {e}

CloseFactoryForgets(i, P) ==  \* mutant: the bundle it installed is forgotten, not uninstalled
  /\ factory' = factory \ {i}
  /\ mine' = mine
  /\ bundle' = bundle
  /\ proxies' = P
  /\ stray' = stray

\* importRegistrationFactory_close and destroy, when proxies have become P
CloseFactory(i, P) ==
  /\ factory' = factory \ {i}
  /\ mine' = mine \ {i}
  /\ bundle' = IF i \in mine THEN [bundle EXCEPT ![i] = "none"] ELSE bundle
  /\ proxies' = IF i \in mine THEN P \ OfIntf(i) ELSE P
  /\ stray' = IF i \in mine THEN stray \ OfIntf(i) ELSE stray

DropOwn(e) ==  \* mutant: the factory goes with the registrations of its own description
  LET i == InterfaceOf[e] IN
  /\ imported' = imported \ {e}
  /\ regs' = [regs EXCEPT ![e] = @ - 1]
  /\ IF regs[e] = 1
     THEN CloseFactory(i, Unregister(e))
     ELSE proxies' = Unregister(e) /\ UNCHANGED <<factory, mine, bundle, stray>>

DropKeepsProxy(e) ==  \* mutant: the proxy is left registered
  LET i == InterfaceOf[e]
      R == [regs EXCEPT ![e] = @ - 1]
  IN
  /\ imported' = imported \ {e}
  /\ regs' = IF OfIntf(i) \cap imported = {e}
             THEN [f \in Import |-> IF f \in OfIntf(i) THEN 0 ELSE R[f]] ELSE R
  /\ IF \A f \in OfIntf(i) : R[f] = 0
     THEN CloseFactory(i, proxies)
     ELSE UNCHANGED <<factory, mine, bundle, proxies, stray>>

\* One registration of e goes, with the factory if it was the last one, and
\* then the entry.  A factory that keeps registrations but has no entry any
\* more is out of reach: it stays open, and the next import makes another.
Drop(e) ==
  LET i == InterfaceOf[e]
      R == [regs EXCEPT ![e] = @ - 1]
  IN
  /\ imported' = imported \ {e}
  /\ regs' = IF OfIntf(i) \cap imported = {e}
             THEN [f \in Import |-> IF f \in OfIntf(i) THEN 0 ELSE R[f]] ELSE R
  /\ IF \A f \in OfIntf(i) : R[f] = 0
     THEN CloseFactory(i, Unregister(e))
     ELSE /\ proxies' = Unregister(e)
          /\ factory' = IF OfIntf(i) \cap imported = {e} THEN factory \ {i} ELSE factory
          /\ mine' = mine \cap factory'
          /\ UNCHANGED <<bundle, stray>>

-----------------------------------------------------------------------------
(* remoteServiceAdmin_importService.                                       *)

\* importRegistrationFactory_install: a proxy factory that is there is taken
\* over, else the bundle is installed and started.
Install(i) ==
  /\ factory' = factory \cup {i}
  /\ mine' = IF bundle[i] = "started" THEN mine ELSE mine \cup {i}
  /\ bundle' = [bundle EXCEPT ![i] = "started"]

\* The interface has no factory and its bundle cannot be installed, or not
\* started, after which it is uninstalled.
ImportFails(e) ==
  /\ fault = "none"
  /\ Published
  /\ iPc[e] = "new"
  /\ lock = None
  /\ InterfaceOf[e] \notin factory /\ bundle[InterfaceOf[e]] # "started"
  /\ bundle' \in {bundle, [bundle EXCEPT ![InterfaceOf[e]] = "none"]}
  /\ iPc' = [iPc EXCEPT ![e] = "failed"]
  /\ Walk(FALSE)
  /\ UNCHANGED <<busVars, impVars, proxies, stray, fell, targets, lock, wtmVars, wireVars,
                 sendVars, untracked>>

ImportBeginLocked(e) ==  \* mutant: the lock is kept while the WTMs are called
  LET i == InterfaceOf[e] IN
  /\ fault = "none"
  /\ Published
  /\ iPc[e] = "new"
  /\ lock = None
  /\ imported' = imported \cup {e}
  /\ regs' = [regs EXCEPT ![e] = @ + 1]
  /\ IF i \in factory THEN UNCHANGED <<factory, mine, bundle>> ELSE Install(i)
  /\ iPc' = [iPc EXCEPT ![e] = "calling"]
  /\ targets' = [targets EXCEPT ![e] = Listed]
  /\ lock' = e
  /\ Walk(\E f \in imported \ Freed : InterfaceOf[f] = i)
  /\ UNCHANGED <<busVars, proxies, stray, fell, wtmVars, wireVars, sendVars, untracked>>

\* The factory of the interface is found by its entries, or made.
ImportBegin(e) ==
  LET i == InterfaceOf[e] IN
  /\ fault = "none"
  /\ Published
  /\ iPc[e] = "new"
  /\ lock = None
  /\ imported' = imported \cup {e}
  /\ regs' = [regs EXCEPT ![e] = @ + 1]
  /\ IF i \in factory THEN UNCHANGED <<factory, mine, bundle>> ELSE Install(i)
  /\ iPc' = [iPc EXCEPT ![e] = "calling"]
  /\ targets' = [targets EXCEPT ![e] = Listed]
  /\ Walk(\E f \in imported \ Freed : InterfaceOf[f] = i)
  /\ UNCHANGED <<busVars, proxies, stray, fell, lock, wtmVars, wireVars, sendVars,
                 untracked>>

\* importWiringEndpoint of v, with the service id; a usable wire is announced
\* on this thread, else the request waits
ImportCall(e, v) ==
  /\ fault = "none"
  /\ iPc[e] = "calling" /\ v \in targets[e]
  /\ ~Busy(v)
  /\ iPc' = [iPc EXCEPT ![e] = "called"]
  /\ targets' = [targets EXCEPT ![e] = @ \ {v}]
  /\ named' = named \cup {<<v, e>>}
  /\ IF WireOf[e] \in wires[v]
     THEN /\ adding' = [adding EXCEPT ![v] = IF listener THEN {e} ELSE {}]
          /\ waiting' = waiting
     ELSE /\ adding' = adding
          /\ waiting' = [waiting EXCEPT ![v] = @ \cup {<<e, TRUE>>}]
  /\ fault' = IF wtmPc[v] = "gone" THEN "freed WTM" ELSE "none"
  /\ UNCHANGED <<busVars, impVars, pxVars, lock, wtmVars, wires, removing, lost,
                 sendVars, untracked>>

\* the lock is taken again, and released for the next WTM or for good
ImportReturn(e) ==
  /\ fault = "none"
  /\ iPc[e] = "called"
  /\ lock \in {None, e}
  /\ \A v \in Wtm : e \notin adding[v]
  /\ iPc' = [iPc EXCEPT ![e] = IF targets[e] = {} THEN "done" ELSE "calling"]
  /\ lock' = None
  /\ UNCHANGED <<busVars, impVars, pxVars, targets, wtmVars, wireVars, sendVars,
                 untracked, fault>>

-----------------------------------------------------------------------------
(* remoteServiceAdmin_removeImportedService: the topology manager closes   *)
(* the registration, and the description is freed when this returns.       *)

\* without a tracked factory, or when a withdrawn wire has already taken the
\* entry, nothing happens
Close(e) ==
  /\ fault = "none"
  /\ Published
  /\ iPc[e] = "done"
  /\ lock = None
  /\ iPc' = [iPc EXCEPT ![e] = "closed"]
  /\ Walk(e \in imported)
  /\ IF e \in imported /\ Tracked(e)
     THEN Drop(e) /\ UNCHANGED <<fell, untracked>>
     ELSE /\ untracked' = IF e \in imported THEN untracked \cup {e} ELSE untracked
          /\ UNCHANGED <<impVars, pxVars>>
  /\ UNCHANGED <<busVars, targets, lock, wtmVars, wireVars, sendVars>>


-----------------------------------------------------------------------------
(* The WTMs: how they call addWiringEndpoint and removeWiringEndpoint of   *)
(* the listener, with their importedWiringEndpointsLock.                   *)

\* A wire becomes usable.  The requests that wait for it are announced; one
\* without a service id has no string to announce.  When the WTM knows the
\* wire by two descriptions, a second removal with the index of the first may
\* take a request for another wire ("forgotten").
WtmWireUp(v, w) ==
  LET R == {r \in waiting[v] : WireOf[r[1]] = w} IN
  /\ fault = "none"
  /\ Ready(v) /\ ~Busy(v)
  /\ w \notin wires[v]
  /\ wires' = [wires EXCEPT ![v] = @ \cup {w}]
  /\ \E forgotten \in SUBSET (waiting[v] \ R) :
       /\ R = {} => forgotten = {}
       /\ waiting' = [waiting EXCEPT ![v] = @ \ (R \cup forgotten)]
       /\ lost' = lost \cup {<<v, r[1]>> : r \in forgotten}
  /\ adding' = [adding EXCEPT ![v] = IF listener THEN {r[1] : r \in R} ELSE {}]
  /\ fault' = IF \E r \in R : ~r[2] THEN "no requested service" ELSE "none"
  /\ UNCHANGED <<busVars, impVars, pxVars, callVars, lock, wtmVars, removing, named,
                 sendVars, untracked>>

WtmWireDown(v, w) ==
  /\ fault = "none"
  /\ Ready(v) /\ ~Busy(v)
  /\ w \in wires[v]
  /\ wires' = [wires EXCEPT ![v] = @ \ {w}]
  /\ removing' = [removing EXCEPT ![v] = IF listener THEN w ELSE None]
  /\ UNCHANGED <<busVars, impVars, pxVars, callVars, lock, wtmVars, waiting, adding,
                 named, lost, sendVars, untracked, fault>>

\* remoteServiceAdmin_addWiringEndpoint for a remote wire, announced for e
AddWiringEndpoint(v, e) ==
  /\ fault = "none"
  /\ e \in adding[v]
  /\ lock = None
  /\ adding' = [adding EXCEPT ![v] = @ \ {e}]
  /\ IF e \in imported /\ Tracked(e) THEN RegisterProxies({e}) ELSE UNCHANGED <<proxies, stray>>
  /\ IF AdminGone THEN fault' = "freed admin"
     ELSE IF e \in imported /\ ~Tracked(e) THEN fault' = "no proxy factory"
     ELSE Walk(FALSE)
  /\ UNCHANGED <<busVars, impVars, bundle, fell, callVars, lock, wtmVars, wires, waiting,
                 removing, named, lost, sendVars, untracked>>

\* remoteServiceAdmin_removeWiringEndpoint, the part about imported wires.  It
\* removes from the map it walks, which only the last entry survives.
RemoveWiringEndpoint(v) ==
  LET E == {e \in imported : WireOf[e] = removing[v]} IN
  /\ fault = "none"
  /\ removing[v] # None
  /\ lock = None
  /\ removing' = [removing EXCEPT ![v] = None]
  /\ IF Cardinality(E) = 1 /\ E \cap Freed = {} /\ \A e \in E : Tracked(e)
     THEN \E e \in E : Drop(e)
     ELSE UNCHANGED <<impVars, bundle, proxies, stray>>
  /\ IF AdminGone THEN fault' = "freed admin"
     ELSE IF imported \cap Freed # {} THEN fault' = "freed description"
     ELSE IF \E e \in E : ~Tracked(e) THEN fault' = "no proxy factory"
     ELSE \/ Cardinality(E) <= 1 /\ fault' = "none"
          \/ E # {} /\ imported # E /\ fault' = "map changed while read"
          \/ Cardinality(E) > 1 /\ fault' = "map changed while read"
  /\ UNCHANGED <<busVars, fell, callVars, lock, wtmVars, wires, waiting, adding, named,
                 lost, sendVars, untracked>>

\* it stops without telling of the wires it leaves; wtmRemoved does nothing
WtmGone(v) ==
  /\ fault = "none"
  /\ wtmPc[v] = "up" /\ ~Busy(v)
  /\ wtmPc' = [wtmPc EXCEPT ![v] = "gone"]
  /\ wires' = [wires EXCEPT ![v] = {}]
  /\ waiting' = [waiting EXCEPT ![v] = {}]
  /\ UNCHANGED <<busVars, impVars, pxVars, callVars, lock, todo, failing, adding,
                 removing, named, lost, sendVars, untracked, fault>>

-----------------------------------------------------------------------------
(* The WTM tracker: wtmAdded, the part about imported services.            *)

WtmAddedList(v) ==
  /\ fault = "none"
  /\ phase # "created"
  /\ wtmPc[v] = "new"
  /\ wtmPc' = [wtmPc EXCEPT ![v] = "listed"]
  /\ fault' = IF phase \in {"freed", "gone"} THEN "freed admin" ELSE "none"
  /\ UNCHANGED <<busVars, impVars, pxVars, callVars, lock, todo, failing, wireVars,
                 sendVars, untracked>>

WtmAddedLock(v) ==
  /\ fault = "none"
  /\ wtmPc[v] = "listed"
  /\ lock = None
  /\ lock' = v
  /\ wtmPc' = [wtmPc EXCEPT ![v] = "importing"]
  /\ todo' = imported
  /\ failing' = FALSE
  /\ IF AdminGone THEN fault' = "freed admin" ELSE Walk(FALSE)
  /\ UNCHANGED <<busVars, impVars, pxVars, callVars, wireVars, sendVars, untracked>>

\* The call waits for the lock of the WTM, with importedServicesLock held.  The
\* request carries no service id: nothing is announced for it on this thread,
\* and it waits when the WTM cannot use the wire.  The proxy is registered at
\* once, for a registration more; after a failure the entries that follow get
\* none.
WtmAddedRequest(v, e) ==
  LET proxied == ~failing /\ Tracked(e) IN
  /\ fault = "none"
  /\ wtmPc[v] = "importing" /\ e \in todo
  /\ ~Busy(v)
  /\ todo' = todo \ {e}
  /\ waiting' = IF WireOf[e] \in wires[v] THEN waiting
                ELSE [waiting EXCEPT ![v] = @ \cup {<<e, FALSE>>}]
  /\ failing' = ~proxied
  /\ regs' = [regs EXCEPT ![e] = IF proxied THEN @ + 1 ELSE @]
  /\ RegisterProxies(IF proxied THEN {e} ELSE {})
  /\ UNCHANGED <<busVars, imported, factory, mine, bundle, fell, callVars, lock, wtmPc,
                 wires, adding, removing, named, lost, sendVars, untracked, fault>>

\* the first WTM has the RSA service registered
WtmAddedUnlock(v) ==
  /\ fault = "none"
  /\ wtmPc[v] = "importing" /\ todo = {}
  /\ wtmPc' = [wtmPc EXCEPT ![v] = "up"]
  /\ lock' = None
  /\ UNCHANGED <<busVars, impVars, pxVars, callVars, todo, failing, wireVars, sendVars,
                 untracked, fault>>

-----------------------------------------------------------------------------
(* The send services: the tracker, and remoteServiceAdmin_send.            *)

\* it is opened when the admin is created and closed before that is freed
SendTrackerOpen == phase \notin {"freed", "gone"}

Sending == \E c \in Caller : sending[c] # None

SendServiceAdded(x) ==
  /\ fault = "none"
  /\ SendTrackerOpen
  /\ sendPc[x] = "down"
  /\ ~Sending
  /\ sendPc' = [sendPc EXCEPT ![x] = "up"]
  /\ sendServices' = [sendServices EXCEPT ![SendWire[x]] = x]
  /\ UNCHANGED <<busVars, impVars, pxVars, callVars, lock, wtmVars, wireVars, sending,
                 untracked, fault>>

SendServiceRemovedUnlocked(x) ==  \* mutant: without sendServicesLock
  /\ fault = "none"
  /\ SendTrackerOpen
  /\ sendPc[x] = "up"
  /\ sendPc' = [sendPc EXCEPT ![x] = "down"]
  /\ sendServices' = [sendServices EXCEPT ![SendWire[x]] = None]
  /\ UNCHANGED <<busVars, impVars, pxVars, callVars, lock, wtmVars, wireVars, sending,
                 untracked, fault>>

\* the wire loses its entry, another send service of the wire or not
SendServiceRemoved(x) ==
  /\ fault = "none"
  /\ SendTrackerOpen
  /\ sendPc[x] = "up"
  /\ ~Sending
  /\ sendPc' = [sendPc EXCEPT ![x] = "down"]
  /\ sendServices' = [sendServices EXCEPT ![SendWire[x]] = None]
  /\ UNCHANGED <<busVars, impVars, pxVars, callVars, lock, wtmVars, wireVars, sending,
                 untracked, fault>>

\* a proxy, replaced or not, sends over the wire of its description
SendStart(c, e) ==
  /\ fault = "none"
  /\ e \in proxies \cup stray
  /\ ~Sending
  /\ sending' = [sending EXCEPT ![c] = sendServices[WireOf[e]]]
  /\ fault' = IF e \in Freed THEN "freed description"
              ELSE IF phase \in {"freed", "gone"} THEN "freed admin" ELSE "none"
  /\ UNCHANGED <<busVars, impVars, pxVars, callVars, lock, wtmVars, wireVars, sendPc,
                 sendServices, untracked>>

\* an answer, an error, or the time-out of the exchange
SendEnd(c) ==
  /\ fault = "none"
  /\ sending[c] # None
  /\ sending' = [sending EXCEPT ![c] = None]
  /\ UNCHANGED <<busVars, impVars, pxVars, callVars, lock, wtmVars, wireVars, sendPc,
                 sendServices, untracked, fault>>

-----------------------------------------------------------------------------
(* The bundle: bundleActivator_stop.  Its trackers are never closed.       *)

\* the RSA service goes; the topology manager has finished its calls
StopUnpublish ==
  /\ fault = "none"
  /\ phase = "running"
  /\ \A e \in Import : iPc[e] \notin {"calling", "called"}
  /\ phase' = "unpublished"
  /\ UNCHANGED <<listener, impVars, pxVars, callVars, lock, wtmVars, wireVars, sendVars,
                 untracked, fault>>

\* remoteServiceAdmin_stop frees the factory of every entry, shared or not
Stop ==
  /\ fault = "none"
  /\ phase = "unpublished"
  /\ lock = None
  /\ phase' = "stopped"
  /\ imported' = {} /\ factory' = {} /\ regs' = [e \in Import |-> 0] /\ mine' = {}
  /\ bundle' = [i \in Interface |-> IF i \in mine THEN "none" ELSE bundle[i]]
  /\ proxies' = {e \in proxies : regs[e] = 0}
  /\ stray' = {e \in stray : InterfaceOf[e] \notin mine}
  /\ fault' = IF \E e, f \in imported : e # f /\ InterfaceOf[e] = InterfaceOf[f]
              THEN "freed factory" ELSE "none"
  /\ UNCHANGED <<listener, fell, callVars, lock, wtmVars, wireVars, sendVars, untracked>>

\* the send service tracker is closed and the admin freed
Destroy ==
  /\ fault = "none"
  /\ phase = "stopped"
  /\ ~Sending
  /\ phase' = "freed"
  /\ sendServices' = [w \in Wire |-> None]
  /\ UNCHANGED <<listener, impVars, pxVars, callVars, lock, wtmVars, wireVars, sendPc,
                 sending, untracked, fault>>

\* only now no WTM calls the listener any more
StopListener ==
  /\ fault = "none"
  /\ phase = "freed"
  /\ \A v \in Wtm : ~Busy(v)
  /\ phase' = "gone"
  /\ listener' = FALSE
  /\ UNCHANGED <<impVars, pxVars, callVars, lock, wtmVars, wireVars, sendVars, untracked,
                 fault>>

-----------------------------------------------------------------------------

Next ==
  \/ StartListener \/ StartTracker
  \/ \E i \in Interface : ProxyStopped(i) \/ ProxyStarted(i)
  \/ \E e \in Import : ImportFails(e) \/ ImportBegin(e) \/ ImportReturn(e) \/ Close(e)
  \/ \E e \in Import, v \in Wtm :
       ImportCall(e, v) \/ AddWiringEndpoint(v, e) \/ WtmAddedRequest(v, e)
  \/ \E v \in Wtm, w \in Wire : WtmWireUp(v, w) \/ WtmWireDown(v, w)
  \/ \E v \in Wtm : RemoveWiringEndpoint(v) \/ WtmGone(v)
  \/ \E v \in Wtm : WtmAddedList(v) \/ WtmAddedLock(v) \/ WtmAddedUnlock(v)
  \/ \E x \in SendService : SendServiceAdded(x) \/ SendServiceRemoved(x)
  \/ \E c \in Caller, e \in Import : SendStart(c, e)
  \/ \E c \in Caller : SendEnd(c)
  \/ StopUnpublish \/ Stop \/ Destroy \/ StopListener

Spec == Init /\ [][Next]_vars

-----------------------------------------------------------------------------
(* Properties.                                                             *)

TypeOK ==
  /\ phase \in {"created", "running", "unpublished", "stopped", "freed", "gone"}
  /\ listener \in BOOLEAN
  /\ imported \subseteq Import /\ factory \subseteq Interface /\ mine \subseteq factory
  /\ regs \in [Import -> 0..(Cardinality(Wtm) + 1)]
  /\ bundle \in [Interface -> {"none", "stopped", "started"}]
  /\ proxies \subseteq Import /\ stray \subseteq Import /\ fell \subseteq Interface
  /\ iPc \in [Import -> {"new", "calling", "called", "done", "failed", "closed"}]
  /\ targets \in [Import -> SUBSET Wtm]
  /\ lock \in Wtm \cup Import \cup {None}
  /\ wtmPc \in [Wtm -> {"new", "listed", "importing", "up", "gone"}]
  /\ todo \subseteq Import /\ failing \in BOOLEAN
  /\ wires \in [Wtm -> SUBSET Wire]
  /\ waiting \in [Wtm -> SUBSET (Import \X BOOLEAN)]
  /\ adding \in [Wtm -> SUBSET Import] /\ removing \in [Wtm -> Wire \cup {None}]
  /\ named \subseteq Wtm \X Import /\ lost \subseteq Wtm \X Import
  /\ sendPc \in [SendService -> {"down", "up"}]
  /\ sendServices \in [Wire -> SendService \cup {None}]
  /\ sending \in [Caller -> SendService \cup {None}]
  /\ untracked \subseteq Import
  /\ fault \in {"none", "freed WTM", "freed admin", "freed factory", "freed description",
                "no proxy factory", "no requested service", "map changed while read"}

(* The factory that several imports of an interface share is freed with    *)
(* the last of them: an entry of importedServices never points at a freed  *)
(* one, whichever of a close and a withdrawn wire takes the others.  When  *)
(* the topology manager frees a description it has closed, no entry and no *)
(* registered proxy is left of it, unless the proxy factory was away at    *)
(* the time; and only an imported description has a proxy.                 *)
EntriesExact ==
  /\ \A e \in imported : InterfaceOf[e] \in factory /\ (fault = "none" => regs[e] > 0)
  /\ \A e \in Freed : e \notin imported \cup proxies \/ e \in untracked
  /\ proxies \subseteq imported

(* No import is lost between the release of importedServicesLock for the   *)
(* calls, the start of the bundle and the announcements of the WTMs: an    *)
(* entry whose wire an asked WTM can use has its proxy, or is about to get *)
(* it, unless the proxy bundle was stopped or the WTM forgot the request.  *)
NoLostImport ==
  \A e \in imported, v \in Wtm :
    /\ fault = "none" /\ phase = "running"
    /\ <<v, e>> \in named /\ WireOf[e] \in wires[v]
    => e \in proxies \cup adding[v] \/ InterfaceOf[e] \in fell \/ <<v, e>> \in lost

(* A WTM calls the listener with its own lock held, and needs              *)
(* importedServicesLock.  The holder is never waiting for that WTM: not in *)
(* importService, which lets the lock go for its calls, and in wtmAdded    *)
(* only for a WTM that ran before this bundle, when another one has had    *)
(* the RSA published already.  There the two wait for each other for good. *)
NoLockCycle ==
  \A v \in Wtm : Busy(v) =>
    /\ lock = v /\ todo # {} =>
         v \in Early /\ \E u \in Wtm \ {v} : wtmPc[u] \in {"up", "gone"}
    /\ \A e \in Import : lock = e => iPc[e] # "called"

(* The table of send services never leads to one that is gone, and none    *)
(* goes while a request is sent over it.                                   *)
SendAlive ==
  LET Alive(x) == x = None \/ sendPc[x] = "up" IN
  (\A w \in Wire : Alive(sendServices[w])) /\ (\A c \in Caller : Alive(sending[c]))
=============================================================================
