--------------------------- MODULE RsaExportProofs ---------------------------
(***************************************************************************)
(* Proofs about RsaExport, for any services, registrations, WTMs, endpoint *)
(* listeners and threads, and any number of wires: the types, that no      *)
(* service is missed by a WTM, what the endpoint listeners were told, and  *)
(* which endpoint services a request can meet.                             *)
(***************************************************************************)
EXTENDS RsaExport, TLAPS

(***************************************************************************)
(* The inductive invariant.                                                *)
(***************************************************************************)

Idle == <<None, None>>

Walking(v) == wtmPc[v] \in {"exporting", "stuck"}

\* exportedServicesLock is held by one walk of wtmAdded or by one announcement
LockInv ==
  /\ \A v \in Wtm : Walking(v) => lock = v /\ adding = Idle
  /\ left # {} => adding # Idle

\* a walk of wtmAdded has asked for a service, has it still to do, or the
\* export is going to
Asked(v, s) == <<v, s>> \in requested \/ sPc[s] = "put" \/ v \in targets[s]

WalkInv ==
  \A v \in Wtm, s \in exported : wtmPc[v] = "exporting" => s \in todo \/ Asked(v, s)

\* a wire belongs to one WTM, and one that was never opened to no description
WireInv ==
  /\ \A v \in Wtm : announced[v] \subseteq 1..(nextWire - 1)
  /\ \A v, x \in Wtm : v # x => announced[v] \cap announced[x] = {}
  /\ \A v \in Wtm : leaving[v] # None => leaving[v] \in announced[v]
  /\ \A r \in Reg : wireOf[r] # None => wireOf[r] < nextWire

\* a service is not in the map before exportService puts it there, and until
\* then nobody but the tracker of its endpoints touches its registrations
Fresh(s) == sPc[s] \in {"new", "installed"}

FreshInv ==
  /\ \A s \in exported : ~Fresh(s)
  /\ adding # Idle => /\ ~Fresh(adding[2])
                      /\ \A r \in RegsOf(adding[2]) : wireOf[r] = adding[1]
  /\ \A r \in Reg : Fresh(ServiceOf[r]) => /\ r \notin closed \cup toStop
                                           /\ \A v \in Wtm : r \notin stopping[v]

\* the trackers and the endpoint services of the registrations
TrackInv ==
  \A r \in Reg :
    /\ sPc[ServiceOf[r]] = "new" => tracker[r] = "none" /\ endpoint[r] = "none"
    /\ sPc[ServiceOf[r]] = "installed" =>
         tracker[r] = "open" /\ wireOf[r] = None /\ (endpoint[r] = "stale" => r \in ahead)
    /\ endpoint[r] = "live" => tracker[r] = "open"
    /\ r \in closed => tracker[r] = "destroyed"

\* a listener is told of a wire by the walk of the tracker or by its announcement
Exempt(l, r) == l \in left /\ adding[2] = ServiceOf[r]
Told(l, r)   == <<r, wireOf[r]>> \in told[l]

Covered(l, r) ==
  lPc[l] # "absent" /\ ServiceOf[r] \in exported \ mute /\ wireOf[r] # None =>
    ServiceOf[r] \in toTell[l] \/ Told(l, r) \/ Exempt(l, r)

TellInv ==
  /\ \A l \in Listener : toTell[l] # {} <=> lPc[l] = "listed"
  /\ fault = "none" => \A l \in Listener, r \in Reg : Covered(l, r)

IInv ==
  /\ TypeOK /\ LockInv /\ WalkInv /\ WireInv /\ FreshInv /\ TrackInv /\ TellInv
  /\ NoLostRequest /\ AnnouncedExact /\ StaleOnlyEarly

USE DEF expVars, regVars, wtmVars, wireVars, addVars, remVars, stopVars, lVars, Idle

-----------------------------------------------------------------------------
(***************************************************************************)
(* The types.                                                              *)
(***************************************************************************)

TypeFault ==
  fault \in {"none", "freed WTM", "freed tracker", "freed registration",
             "freed endpoint", "freed admin", "freed wire id", "null wire id",
             "map changed while read", "listeners changed while read",
             "properties changed while read"}

(***************************************************************************)
(* The announcements, with and without the receive service of the wire.    *)
(***************************************************************************)

Adds(v, s, w) == \/ AddWiringEndpoint(v, s, w) \/ AddWithoutReceive(v, s, w)
                 \/ AddFreedWire(v, s, w)

Gets(s, w) == /\ s \in exported
              /\ wireOf' = [r \in Reg |-> IF r \in RegsOf(s) THEN w ELSE wireOf[r]]

LEMMA AddsStep ==
  ASSUME NEW v \in Wtm, NEW s \in Service, NEW w \in Wire, Adds(v, s, w)
  PROVE  /\ lock = None /\ w \in announced[v] \cup {nextWire}
         /\ announced' = [announced EXCEPT ![v] = @ \cup {w}]
         /\ nextWire' = IF w = nextWire THEN nextWire + 1 ELSE nextWire
         /\ UNCHANGED <<expVars, tracker, endpoint, closed, ahead, wtmVars, remVars, lVars,
                        serving, stopVars>>
         /\ fault = "none"
         /\ \/ UNCHANGED <<wireOf, receive, mute, addVars, lock>>
            \/ /\ Gets(s, w) /\ receive' = receive \cup {w} /\ mute' = mute \ {s}
               /\ adding' = <<w, s>> /\ left' = Present /\ lock' = v
            \/ /\ Gets(s, w) /\ mute' = mute \cup {s}
               /\ UNCHANGED <<receive, addVars, lock>>
BY DEF Adds, AddWiringEndpoint, AddWithoutReceive, AddFreedWire, Announce, SetWire,
   RegisterReceive, Gets

\* no step follows undefined behaviour
LEMMA NoFault == ASSUME Next PROVE fault = "none"
BY AddsStep DEF Next, Running, ExportInstall, ExportPut, ExportGetWTMs, ExportRequest,
   EndpointAdded, EndpointRemoved, Close, WtmAddedList, WtmAddedLock, WtmAddedRequest,
   WtmAddedUnlock, WtmAnswers, WtmGone, Adds, NotifyListener, AddEnd, RemoveCollect,
   RemoveRemote, RemoveStop, RemoveEnd, ListenerAdded, ListenerTell, ListenerRemoved,
   ReceiveStart, ReceiveEnd, StopCollect, StopOne, StopEnd, UseAfterStop

LEMMA FaultType == ASSUME TypeFault, [Next]_vars PROVE TypeFault'
<1>1. CASE \/ \E s \in Service : ExportPut(s)
           \/ \E s \in Service, v \in Wtm : ExportRequest(s, v)
           \/ \E r \in Reg : EndpointRemoved(r) \/ Close(r) \/ StopOne(r)
           \/ \E v \in Wtm, r \in Reg : RemoveStop(v, r)
  <2>1. fault' \in {"none", "freed WTM", "freed tracker", "freed registration",
                   "map changed while read"}
    BY <1>1 DEF ExportPut, ExportRequest, EndpointRemoved, Close, StopOne, RemoveStop, Change
  <2> QED
    BY <2>1 DEF TypeFault
<1>3. CASE \/ \E v \in Wtm, w \in Wire : RemoveCollect(v, w)
           \/ \E v \in Wtm : RemoveRemote(v)
           \/ \E l \in Listener : ListenerAdded(l) \/ ListenerRemoved(l)
           \/ \E k \in Worker : ReceiveEnd(k)
           \/ StopEnd \/ UseAfterStop
  BY <1>3 DEF RemoveCollect, RemoveRemote, ListenerAdded, ListenerRemoved, ReceiveEnd,
     StopEnd, UseAfterStop, ListenersChanged, TypeFault
<1>4. ASSUME NEW v \in Wtm, NEW s \in Service, NEW w \in Wire, Adds(v, s, w)
      PROVE  TypeFault'
  <2>1. fault' \in {"none", "properties changed while read", "freed wire id", fault}
    BY <1>4 DEF Adds, AddWiringEndpoint, AddWithoutReceive, AddFreedWire, SetWire
  <2> QED
    BY <2>1 DEF TypeFault
<1>2. CASE \/ \E s \in Service : ExportInstall(s) \/ ExportGetWTMs(s)
           \/ \E s \in Service, v \in Wtm : WtmAddedRequest(v, s) \/ WtmAnswers(v, s)
           \/ \E r \in Reg : EndpointAdded(r)
           \/ \E v \in Wtm : WtmAddedList(v) \/ WtmAddedLock(v) \/ WtmAddedUnlock(v)
                             \/ WtmGone(v) \/ RemoveEnd(v)
           \/ \E l \in Listener : NotifyListener(l)
           \/ AddEnd \/ StopCollect \/ UNCHANGED vars
           \/ \E l \in Listener, s \in Service : ListenerTell(l, s)
           \/ \E k \in Worker : ReceiveStart(k)
  <2>1. UNCHANGED fault
    BY <1>2 DEF ExportInstall, ExportGetWTMs, WtmAddedRequest, WtmAnswers, EndpointAdded,
       WtmAddedList, WtmAddedLock, WtmAddedUnlock, WtmGone, RemoveEnd, NotifyListener, AddEnd,
       StopCollect, ListenerTell, ReceiveStart, vars
  <2> QED
    BY <2>1 DEF TypeFault
<1> QED
  BY <1>1, <1>2, <1>3, <1>4 DEF Next, Running, Adds

\* the registrations: exportService, their trackers and their end
LEMMA RegType ==
  ASSUME TypeOK, [Next]_vars
  PROVE  /\ exported' \subseteq Service
         /\ sPc' \in [Service -> {"new", "installed", "put", "calling", "done"}]
         /\ targets' \in [Service -> SUBSET Wtm]
         /\ wireOf' \in [Reg -> Wire \cup {None}]
         /\ tracker' \in [Reg -> {"none", "open", "destroyed"}]
         /\ endpoint' \in [Reg -> {"none", "live", "stale"}]
         /\ closed' \subseteq Reg /\ ahead' \subseteq Reg
<1>1. ASSUME NEW s \in Service, ExportInstall(s) \/ ExportPut(s) \/ ExportGetWTMs(s)
      PROVE  /\ exported' \subseteq Service
             /\ sPc' \in [Service -> {"new", "installed", "put", "calling", "done"}]
             /\ targets' \in [Service -> SUBSET Wtm]
             /\ wireOf' \in [Reg -> Wire \cup {None}]
             /\ tracker' \in [Reg -> {"none", "open", "destroyed"}]
             /\ UNCHANGED <<endpoint, closed, ahead>>
  <2>1. CASE ExportInstall(s)
    BY <2>1 DEF ExportInstall, InstallEndpoints, StartTracking, TypeOK
  <2>2. CASE ExportPut(s)
    BY <2>2 DEF ExportPut, Change, TypeOK
  <2>3. CASE ExportGetWTMs(s)
    BY <2>3 DEF ExportGetWTMs, Listed, TypeOK
  <2> QED
    BY <1>1, <2>1, <2>2, <2>3
<1>2. ASSUME NEW s \in Service, NEW v \in Wtm, ExportRequest(s, v)
      PROVE  /\ sPc' \in [Service -> {"new", "installed", "put", "calling", "done"}]
             /\ targets' \in [Service -> SUBSET Wtm]
             /\ UNCHANGED <<exported, regVars>>
  BY <1>2 DEF ExportRequest, TypeOK
<1>3. ASSUME NEW r \in Reg, EndpointAdded(r) \/ EndpointRemoved(r) \/ Close(r) \/ StopOne(r)
      PROVE  /\ exported' \subseteq Service
             /\ tracker' \in [Reg -> {"none", "open", "destroyed"}]
             /\ endpoint' \in [Reg -> {"none", "live", "stale"}]
             /\ closed' \subseteq Reg /\ ahead' \subseteq Reg
             /\ UNCHANGED <<sPc, targets, wireOf>>
  <2>1. /\ exported \subseteq Service /\ closed \subseteq Reg /\ ahead \subseteq Reg
        /\ tracker \in [Reg -> {"none", "open", "destroyed"}]
        /\ endpoint \in [Reg -> {"none", "live", "stale"}]
    BY DEF TypeOK
  <2> QED
    BY <1>3, <2>1 DEF EndpointAdded, EndpointRemoved, Close, StopOne, StopTracking, Change
<1>4. ASSUME NEW v \in Wtm, NEW r \in Reg, RemoveStop(v, r)
      PROVE  /\ exported' \subseteq Service
             /\ tracker' \in [Reg -> {"none", "open", "destroyed"}]
             /\ endpoint' \in [Reg -> {"none", "live", "stale"}]
             /\ UNCHANGED <<sPc, targets, wireOf, closed, ahead>>
  BY <1>4 DEF RemoveStop, StopTracking, Change, TypeOK
<1>5. ASSUME NEW v \in Wtm, NEW s \in Service, NEW w \in Wire, Adds(v, s, w)
      PROVE  /\ wireOf' \in [Reg -> Wire \cup {None}]
             /\ UNCHANGED <<expVars, tracker, endpoint, closed, ahead>>
  <2>1. \/ UNCHANGED wireOf
        \/ wireOf' = [r \in Reg |-> IF r \in RegsOf(s) THEN w ELSE wireOf[r]]
    BY <1>5, AddsStep DEF Gets
  <2>2. UNCHANGED <<expVars, tracker, endpoint, closed, ahead>>
    BY <1>5, AddsStep
  <2> QED
    BY <2>1, <2>2 DEF TypeOK
<1>6. ASSUME StopEnd
      PROVE  exported' = {} /\ UNCHANGED <<sPc, targets, regVars>>
  BY <1>6 DEF StopEnd
<1> DEFINE Good ==
      /\ exported' \subseteq Service
      /\ sPc' \in [Service -> {"new", "installed", "put", "calling", "done"}]
      /\ targets' \in [Service -> SUBSET Wtm]
      /\ wireOf' \in [Reg -> Wire \cup {None}]
      /\ tracker' \in [Reg -> {"none", "open", "destroyed"}]
      /\ endpoint' \in [Reg -> {"none", "live", "stale"}]
      /\ closed' \subseteq Reg /\ ahead' \subseteq Reg
<1>8. /\ exported \subseteq Service /\ closed \subseteq Reg /\ ahead \subseteq Reg
      /\ sPc \in [Service -> {"new", "installed", "put", "calling", "done"}]
      /\ targets \in [Service -> SUBSET Wtm]
      /\ wireOf \in [Reg -> Wire \cup {None}]
      /\ tracker \in [Reg -> {"none", "open", "destroyed"}]
      /\ endpoint \in [Reg -> {"none", "live", "stale"}]
  BY DEF TypeOK
<1>a. ASSUME NEW s \in Service, ExportInstall(s) \/ ExportPut(s) \/ ExportGetWTMs(s)
      PROVE  Good
  BY <1>a, <1>1, <1>8
<1>b. ASSUME NEW s \in Service, NEW v \in Wtm, ExportRequest(s, v)
      PROVE  Good
  BY <1>b, <1>2, <1>8 DEF regVars
<1>c. ASSUME NEW r \in Reg, EndpointAdded(r) \/ EndpointRemoved(r) \/ Close(r) \/ StopOne(r)
      PROVE  Good
  BY <1>c, <1>3, <1>8
<1>d. ASSUME NEW v \in Wtm, NEW r \in Reg, RemoveStop(v, r)
      PROVE  Good
  BY <1>d, <1>4, <1>8
<1>e. ASSUME NEW v \in Wtm, NEW s \in Service, NEW w \in Wire, Adds(v, s, w)
      PROVE  Good
  BY <1>e, <1>5, <1>8 DEF expVars
<1>f. ASSUME StopEnd
      PROVE  Good
  BY <1>f, <1>6, <1>8 DEF regVars
<1>7. ASSUME \/ \E v \in Wtm, s \in Service : WtmAddedRequest(v, s) \/ WtmAnswers(v, s)
             \/ \E v \in Wtm : WtmAddedList(v) \/ WtmAddedLock(v) \/ WtmAddedUnlock(v)
                               \/ WtmGone(v) \/ RemoveEnd(v) \/ RemoveRemote(v)
             \/ \E v \in Wtm, w \in Wire : RemoveCollect(v, w)
             \/ \E l \in Listener : NotifyListener(l) \/ ListenerAdded(l)
                                    \/ ListenerRemoved(l)
             \/ \E l \in Listener, s \in Service : ListenerTell(l, s)
             \/ \E k \in Worker : ReceiveStart(k) \/ ReceiveEnd(k)
             \/ AddEnd \/ StopCollect \/ UseAfterStop \/ UNCHANGED vars
      PROVE  Good
  <2>1. UNCHANGED <<expVars, regVars>>
    BY <1>7 DEF WtmAddedRequest, WtmAnswers, WtmAddedList, WtmAddedLock, WtmAddedUnlock,
       WtmGone, RemoveRemote, RemoveEnd, RemoveCollect, NotifyListener, ListenerAdded,
       ListenerRemoved, ListenerTell, ReceiveStart, ReceiveEnd, AddEnd, StopCollect,
       UseAfterStop, vars
  <2> QED
    BY <2>1, <1>8 DEF expVars, regVars
<1> HIDE DEF Good
<1>g. Good
  BY <1>7, <1>a, <1>b, <1>c, <1>d, <1>e, <1>f DEF Next, Running, Adds
<1> QED
  BY <1>g DEF Good

\* the WTMs, their wires and the announcements
LEMMA WtmType ==
  ASSUME TypeOK, WireInv, [Next]_vars
  PROVE  /\ receive' \subseteq 1..(nextWire' - 1) /\ mute' \subseteq Service
         /\ lock' \in Wtm \cup {None}
         /\ wtmPc' \in [Wtm -> {"new", "listed", "exporting", "stuck", "up", "gone"}]
         /\ todo' \subseteq Service /\ requested' \subseteq Wtm \X Service
         /\ announced' \in [Wtm -> SUBSET Wire] /\ nextWire' \in 1..(MaxWire + 1)
         /\ adding' \in (Wire \X Service) \cup {<<None, None>>}
         /\ left' \subseteq Listener
         /\ leaving' \in [Wtm -> Wire \cup {None}]
<1> DEFINE Good ==
      /\ receive' \subseteq 1..(nextWire' - 1) /\ mute' \subseteq Service
      /\ lock' \in Wtm \cup {None}
      /\ wtmPc' \in [Wtm -> {"new", "listed", "exporting", "stuck", "up", "gone"}]
      /\ todo' \subseteq Service /\ requested' \subseteq Wtm \X Service
      /\ announced' \in [Wtm -> SUBSET Wire] /\ nextWire' \in 1..(MaxWire + 1)
      /\ adding' \in (Wire \X Service) \cup {<<None, None>>}
      /\ left' \subseteq Listener
      /\ leaving' \in [Wtm -> Wire \cup {None}]
<1>1. ASSUME NEW v \in Wtm, WtmAddedList(v) \/ WtmAddedLock(v) \/ WtmAddedUnlock(v) \/ WtmGone(v)
      PROVE  Good
  <2>1. UNCHANGED <<receive, mute, requested, announced, nextWire, adding, left, leaving>>
    BY <1>1 DEF WtmAddedList, WtmAddedLock, WtmAddedUnlock, WtmGone
  <2>2. lock' \in Wtm \cup {None} /\ todo' \subseteq Service
    BY <1>1 DEF WtmAddedList, WtmAddedLock, WtmAddedUnlock, WtmGone, TypeOK
  <2>3. \E c \in {"listed", "exporting", "up", "gone"} : wtmPc' = [wtmPc EXCEPT ![v] = c]
    BY <1>1 DEF WtmAddedList, WtmAddedLock, WtmAddedUnlock, WtmGone
  <2>4. wtmPc' \in [Wtm -> {"new", "listed", "exporting", "stuck", "up", "gone"}]
    BY <2>3 DEF TypeOK
  <2>5. /\ receive' \subseteq 1..(nextWire' - 1) /\ nextWire' \in 1..(MaxWire + 1)
        /\ mute' \subseteq Service
    BY <2>1 DEF TypeOK
  <2>6. /\ adding' \in (Wire \X Service) \cup {<<None, None>>}
        /\ requested' \subseteq Wtm \X Service
    BY <2>1 DEF TypeOK
  <2>7. /\ announced' \in [Wtm -> SUBSET Wire] /\ left' \subseteq Listener
        /\ leaving' \in [Wtm -> Wire \cup {None}]
    BY <2>1 DEF TypeOK
  <2> QED
    BY <2>2, <2>4, <2>5, <2>6, <2>7
<1>2. ASSUME NEW v \in Wtm, NEW s \in Service,
             WtmAddedRequest(v, s) \/ WtmAnswers(v, s) \/ ExportRequest(s, v)
      PROVE  Good
  <2>1. /\ requested' = requested \cup {<<v, s>>} /\ <<v, s>> \in Wtm \X Service
        /\ todo' \subseteq todo
        /\ UNCHANGED <<receive, mute, lock, announced, nextWire, adding, left, leaving>>
        /\ wtmPc' = wtmPc \/ wtmPc' = [wtmPc EXCEPT ![v] = "stuck"]
    BY <1>2 DEF WtmAddedRequest, WtmAnswers, ExportRequest
  <2>2. requested' \subseteq Wtm \X Service
    BY <2>1 DEF TypeOK
  <2>3. /\ receive' \subseteq 1..(nextWire' - 1) /\ nextWire' \in 1..(MaxWire + 1)
        /\ mute' \subseteq Service
    BY <2>1 DEF TypeOK
  <2>4. /\ lock' \in Wtm \cup {None} /\ todo' \subseteq Service /\ left' \subseteq Listener
        /\ announced' \in [Wtm -> SUBSET Wire]
    BY <2>1 DEF TypeOK
  <2>6. wtmPc' \in [Wtm -> {"new", "listed", "exporting", "stuck", "up", "gone"}]
    <3>1. wtmPc \in [Wtm -> {"new", "listed", "exporting", "stuck", "up", "gone"}]
      BY DEF TypeOK
    <3> QED
      BY <2>1, <3>1
  <2>5. /\ adding' \in (Wire \X Service) \cup {<<None, None>>}
        /\ leaving' \in [Wtm -> Wire \cup {None}]
    BY <2>1 DEF TypeOK
  <2> QED
    BY <2>2, <2>3, <2>4, <2>5, <2>6
<1>3. ASSUME NEW v \in Wtm, NEW s \in Service, NEW w \in Wire, Adds(v, s, w)
      PROVE  Good
  <2>1. /\ w \in 1..MaxWire /\ nextWire \in 1..(MaxWire + 1) /\ w <= nextWire
        /\ MaxWire \in Nat
    <3>1. /\ w \in announced[v] \cup {nextWire} /\ nextWire \in 1..(MaxWire + 1)
          /\ announced[v] \subseteq 1..(nextWire - 1) /\ w \in 1..MaxWire
      BY <1>3, AddsStep DEF WireInv, TypeOK, Wire
    <3> QED
      BY <3>1, RsaExportAssumption
  <2>2. /\ nextWire' \in 1..(MaxWire + 1) /\ nextWire <= nextWire' /\ w < nextWire'
    <3>1. nextWire' = IF w = nextWire THEN nextWire + 1 ELSE nextWire
      BY <1>3, AddsStep
    <3> QED
      BY <2>1, <3>1
  <2>3. receive' \subseteq 1..(nextWire' - 1)
    <3>1. receive' \subseteq receive \cup {w}
      BY <1>3, AddsStep
    <3>2. receive \subseteq 1..(nextWire - 1)
      BY DEF TypeOK
    <3>3. ASSUME NEW x \in receive' PROVE x \in 1..(nextWire' - 1)
      <4>1. x \in 1..(nextWire - 1) \/ x = w
        BY <3>1, <3>2
      <4> QED
        BY <2>1, <2>2, <4>1
    <3> QED
      BY <3>3
  <2>4. announced' \in [Wtm -> SUBSET Wire] /\ mute' \subseteq Service
    <3>1. announced \in [Wtm -> SUBSET Wire] /\ mute \subseteq Service
      BY DEF TypeOK
    <3>2. announced' = [announced EXCEPT ![v] = @ \cup {w}]
      BY <1>3, AddsStep
    <3>3. mute' \subseteq mute \cup {s}
      BY <1>3, AddsStep
    <3> QED
      BY <3>1, <3>2, <3>3
  <2>5. /\ lock' \in Wtm \cup {None} /\ left' \subseteq Listener
        /\ UNCHANGED <<wtmVars, leaving>>
    BY <1>3, AddsStep DEF Present, TypeOK
  <2>6. adding' \in (Wire \X Service) \cup {<<None, None>>}
    <3>1. adding' = <<w, s>> \/ adding' = adding
      BY <1>3, AddsStep
    <3>2. <<w, s>> \in Wire \X Service
      OBVIOUS
    <3>3. adding \in (Wire \X Service) \cup {<<None, None>>}
      BY DEF TypeOK
    <3> QED
      BY <3>1, <3>2, <3>3
  <2> QED
    BY <2>2, <2>3, <2>4, <2>5, <2>6 DEF TypeOK
<1>4. CASE AddEnd \/ \E l \in Listener : NotifyListener(l)
  BY <1>4 DEF AddEnd, NotifyListener, TypeOK
<1>5. ASSUME NEW v \in Wtm, NEW w \in Wire, RemoveCollect(v, w) PROVE Good
  BY <1>5 DEF RemoveCollect, TypeOK
<1>6. ASSUME NEW v \in Wtm, RemoveEnd(v) PROVE Good
  BY <1>6 DEF RemoveEnd, TypeOK
<1>7. CASE \/ \E s \in Service : ExportInstall(s) \/ ExportPut(s) \/ ExportGetWTMs(s)
           \/ \E r \in Reg : EndpointAdded(r) \/ EndpointRemoved(r) \/ Close(r) \/ StopOne(r)
           \/ \E v \in Wtm, r \in Reg : RemoveStop(v, r)
           \/ \E l \in Listener : ListenerAdded(l) \/ ListenerRemoved(l)
           \/ \E l \in Listener, s \in Service : ListenerTell(l, s)
           \/ \E k \in Worker : ReceiveStart(k) \/ ReceiveEnd(k)
           \/ \E v \in Wtm : RemoveRemote(v)
           \/ StopCollect \/ StopEnd \/ UseAfterStop \/ UNCHANGED vars
  <2>1. UNCHANGED <<receive, mute, lock, wtmPc, todo, requested, announced, nextWire, adding,
                    left, leaving>>
    BY <1>7 DEF ExportInstall, ExportPut, ExportGetWTMs, EndpointAdded, EndpointRemoved,
       Close, StopOne, RemoveStop, RemoveRemote, ListenerAdded, ListenerRemoved, ListenerTell,
       ReceiveStart, ReceiveEnd, StopCollect, StopEnd, UseAfterStop, vars
  <2> QED
    BY <2>1 DEF TypeOK
<1> QED
  BY <1>1, <1>2, <1>3, <1>4, <1>5, <1>6, <1>7 DEF Next, Running, Adds

\* the endpoint listeners, and the stops
LEMMA TellType ==
  ASSUME TypeOK, [Next]_vars
  PROVE  /\ stopping' \in [Wtm -> SUBSET Reg]
         /\ lPc' \in [Listener -> {"absent", "listed", "settled"}]
         /\ toTell' \in [Listener -> SUBSET Service]
         /\ told' \in [Listener -> SUBSET (Reg \X (Wire \cup {None}))]
         /\ serving' \subseteq Worker
         /\ admin' \in {"running", "stopping", "stopped"} /\ toStop' \subseteq Reg
<1> DEFINE Good ==
      /\ stopping' \in [Wtm -> SUBSET Reg]
      /\ lPc' \in [Listener -> {"absent", "listed", "settled"}]
      /\ toTell' \in [Listener -> SUBSET Service]
      /\ told' \in [Listener -> SUBSET (Reg \X (Wire \cup {None}))]
      /\ serving' \subseteq Worker
      /\ admin' \in {"running", "stopping", "stopped"} /\ toStop' \subseteq Reg
<1>1. ASSUME NEW v \in Wtm, NEW w \in Wire, RemoveCollect(v, w) PROVE Good
  <2>1. PICK R \in SUBSET Reg : stopping' = [stopping EXCEPT ![v] = R]
    BY <1>1 DEF RemoveCollect, RegsOf
  <2> QED
    BY <1>1, <2>1 DEF RemoveCollect, TypeOK
<1>2. ASSUME NEW v \in Wtm, NEW r \in Reg, RemoveStop(v, r) PROVE Good
  BY <1>2 DEF RemoveStop, TypeOK
<1>3. ASSUME NEW l \in Listener, ListenerAdded(l) \/ ListenerRemoved(l) PROVE Good
  BY <1>3 DEF ListenerAdded, ListenerRemoved, TypeOK
<1>4. ASSUME NEW l \in Listener, NEW s \in Service, ListenerTell(l, s) PROVE Good
  <2>1. {<<r, wireOf[r]>> : r \in RegsOf(s)} \subseteq Reg \X (Wire \cup {None})
    <3>1. \A r \in RegsOf(s) : r \in Reg /\ wireOf[r] \in Wire \cup {None}
      BY DEF RegsOf, TypeOK
    <3>2. \A r \in RegsOf(s) : <<r, wireOf[r]>> \in Reg \X (Wire \cup {None})
      BY <3>1
    <3> QED
      BY <3>2
  <2>2. told' \in [Listener -> SUBSET (Reg \X (Wire \cup {None}))]
    BY <1>4, <2>1 DEF ListenerTell, TypeOK
  <2> QED
    BY <1>4, <2>2 DEF ListenerTell, TypeOK
<1>5. ASSUME NEW l \in Listener, NotifyListener(l) PROVE Good
  <2>1. RegsOf(adding[2]) \X {adding[1]} \subseteq Reg \X (Wire \cup {None})
    <3>1. adding[1] \in Wire \cup {None}
      <4>1. adding \in Wire \X Service \/ adding = <<None, None>>
        BY DEF TypeOK
      <4>2. adding \in Wire \X Service => adding[1] \in Wire
        OBVIOUS
      <4> QED
        BY <4>1, <4>2
    <3> QED
      BY <3>1 DEF RegsOf
  <2>2. told' \in [Listener -> SUBSET (Reg \X (Wire \cup {None}))]
    BY <1>5, <2>1 DEF NotifyListener, TypeOK
  <2> QED
    BY <1>5, <2>2 DEF NotifyListener, TypeOK
<1>6. CASE StopCollect \/ StopEnd \/ \E r \in Reg : StopOne(r)
  BY <1>6 DEF StopCollect, StopEnd, StopOne, RegsOf, TypeOK
<1>7. CASE \E k \in Worker : ReceiveStart(k) \/ ReceiveEnd(k)
  BY <1>7 DEF ReceiveStart, ReceiveEnd, TypeOK
<1>8. CASE \/ \E s \in Service : ExportInstall(s) \/ ExportPut(s) \/ ExportGetWTMs(s)
           \/ \E s \in Service, v \in Wtm : ExportRequest(s, v) \/ WtmAddedRequest(v, s)
                                                \/ WtmAnswers(v, s)
           \/ \E r \in Reg : EndpointAdded(r) \/ EndpointRemoved(r) \/ Close(r)
           \/ \E v \in Wtm : WtmAddedList(v) \/ WtmAddedLock(v) \/ WtmAddedUnlock(v)
                             \/ WtmGone(v) \/ RemoveEnd(v) \/ RemoveRemote(v)
           \/ \E v \in Wtm, s \in Service, w \in Wire : Adds(v, s, w)
           \/ AddEnd \/ UseAfterStop \/ UNCHANGED vars
  <2>1. UNCHANGED <<stopping, lVars, serving, stopVars>>
    BY <1>8, AddsStep DEF ExportInstall, ExportPut, ExportGetWTMs, ExportRequest,
       WtmAddedRequest, WtmAnswers, EndpointAdded, EndpointRemoved, Close, WtmAddedList,
       WtmAddedLock, WtmAddedUnlock, WtmGone, RemoveRemote, RemoveEnd, AddEnd,
       UseAfterStop, vars
  <2> QED
    BY <2>1 DEF TypeOK
<1> QED
  BY <1>1, <1>2, <1>3, <1>4, <1>5, <1>6, <1>7, <1>8 DEF Next, Running, Adds

\* who holds the lock, and why
LEMMA HolderStep ==
  ASSUME TypeOK, LockInv, [Next]_vars
  PROVE  /\ LockInv'
         /\ lock' # None <=> adding' # Idle \/ \E v \in Wtm : Walking(v)'
<1> DEFINE Held == lock # None <=> adding # Idle \/ \E v \in Wtm : Walking(v)
<1>1. /\ Held /\ wtmPc \in [Wtm -> {"new", "listed", "exporting", "stuck", "up", "gone"}]
      /\ None \notin Wtm
  BY RsaExportAssumption DEF TypeOK, Walking
<1>2. ASSUME NEW v \in Wtm, WtmAddedList(v) \/ WtmGone(v) PROVE LockInv' /\ Held'
  <2>1. /\ UNCHANGED <<lock, adding, left>> /\ ~Walking(v)
        /\ wtmPc' = [wtmPc EXCEPT ![v] = "listed"] \/ wtmPc' = [wtmPc EXCEPT ![v] = "gone"]
    BY <1>2 DEF WtmAddedList, WtmGone, Walking
  <2>2. \A x \in Wtm : Walking(x)' <=> Walking(x)
    BY <1>1, <2>1 DEF Walking
  <2> QED
    BY <1>1, <2>1, <2>2 DEF LockInv, Walking
<1>3. ASSUME NEW v \in Wtm, WtmAddedLock(v) PROVE LockInv' /\ Held'
  <2>1. /\ UNCHANGED <<adding, left>> /\ lock = None /\ lock' = v
        /\ wtmPc' = [wtmPc EXCEPT ![v] = "exporting"]
    BY <1>3 DEF WtmAddedLock
  <2> QED
    BY <1>1, <2>1 DEF LockInv, Walking
<1>4. ASSUME NEW v \in Wtm, WtmAddedUnlock(v) PROVE LockInv' /\ Held'
  <2>1. /\ UNCHANGED <<adding, left>> /\ lock' = None /\ wtmPc[v] = "exporting"
        /\ wtmPc' = [wtmPc EXCEPT ![v] = "up"]
    BY <1>4 DEF WtmAddedUnlock
  <2>2. adding = Idle /\ \A x \in Wtm : Walking(x) => x = v
    BY <1>1, <2>1 DEF LockInv, Walking
  <2> QED
    BY <1>1, <2>1, <2>2 DEF LockInv, Walking
<1>9. ASSUME NEW v \in Wtm, NEW s \in Service, WtmAnswers(v, s) PROVE LockInv' /\ Held'
  <2>1. /\ UNCHANGED <<lock, adding, left>> /\ wtmPc[v] = "exporting"
        /\ wtmPc' = [wtmPc EXCEPT ![v] = "stuck"]
    BY <1>9 DEF WtmAnswers
  <2>2. \A x \in Wtm : Walking(x)' <=> Walking(x)
    BY <1>1, <2>1 DEF Walking
  <2> QED
    BY <1>1, <2>1, <2>2 DEF LockInv, Walking
<1>5. ASSUME NEW v \in Wtm, NEW s \in Service, NEW w \in Wire, Adds(v, s, w)
      PROVE  LockInv' /\ Held'
  <2>1. /\ lock = None /\ UNCHANGED wtmPc
        /\ UNCHANGED <<lock, adding, left>> \/ (lock' = v /\ adding' = <<w, s>>)
    BY <1>5, AddsStep
  <2>2. <<w, s>> # Idle
    BY RsaExportAssumption
  <2> QED
    BY <1>1, <2>1, <2>2 DEF LockInv, Walking
<1>6. ASSUME NEW l \in Listener, NotifyListener(l) PROVE LockInv' /\ Held'
  BY <1>1, <1>6 DEF NotifyListener, LockInv, Walking
<1>7. CASE AddEnd
  <2>1. /\ UNCHANGED wtmPc /\ adding # Idle /\ adding' = Idle /\ lock' = None
        /\ left' = {}
    BY <1>7 DEF AddEnd
  <2> QED
    BY <1>1, <2>1 DEF LockInv, Walking
<1>8. CASE ~ \/ \E v \in Wtm : WtmAddedList(v) \/ WtmAddedLock(v) \/ WtmAddedUnlock(v)
                               \/ WtmGone(v)
             \/ \E v \in Wtm, s \in Service, w \in Wire : Adds(v, s, w)
             \/ \E v \in Wtm, s \in Service : WtmAnswers(v, s)
             \/ \E l \in Listener : NotifyListener(l)
             \/ AddEnd
  <2>1. UNCHANGED <<lock, adding, left, wtmPc>>
    BY <1>8 DEF Next, Running, ExportInstall, ExportPut, ExportGetWTMs, ExportRequest,
       WtmAddedRequest, EndpointAdded, EndpointRemoved, Close, RemoveCollect,
       RemoveRemote, RemoveStop, RemoveEnd, ListenerAdded, ListenerTell,
       ListenerRemoved, ReceiveStart, ReceiveEnd, StopCollect, StopOne, StopEnd,
       UseAfterStop, Adds, vars
  <2> QED
    BY <1>1, <2>1 DEF LockInv, Walking
<1> QED
  BY <1>2, <1>3, <1>4, <1>5, <1>6, <1>7, <1>8, <1>9

LEMMA TypeStep ==
  ASSUME TypeOK, LockInv, WireInv, [Next]_vars
  PROVE  TypeOK' /\ LockInv'
<1>1. TypeFault'
  BY FaultType DEF TypeFault, TypeOK
<1> QED
  BY <1>1, RegType, WtmType, TellType, HolderStep DEF TypeOK, TypeFault, Walking

-----------------------------------------------------------------------------
(***************************************************************************)
(* The services and their registrations.                                   *)
(***************************************************************************)

\* exportService goes forward
LEMMA PcStep ==
  ASSUME TypeOK, [Next]_vars, NEW s \in Service
  PROVE  /\ sPc'[s] = "new" => sPc[s] = "new"
         /\ sPc'[s] = "installed" => sPc[s] = "installed" \/ ExportInstall(s)
         /\ sPc[s] = "put" => sPc'[s] = "put" \/ ExportGetWTMs(s)
<1>1. sPc \in [Service -> {"new", "installed", "put", "calling", "done"}]
  BY DEF TypeOK
<1>2. ASSUME NEW x \in Service, ExportInstall(x)
      PROVE  /\ sPc[x] = "new" /\ sPc' = [sPc EXCEPT ![x] = "installed"]
  BY <1>2 DEF ExportInstall
<1>3. ASSUME NEW x \in Service, ExportPut(x)
      PROVE  /\ sPc[x] = "installed" /\ sPc' = [sPc EXCEPT ![x] = "put"]
  BY <1>3 DEF ExportPut
<1>4. ASSUME NEW x \in Service, ExportGetWTMs(x)
      PROVE  /\ sPc[x] = "put" /\ sPc' = [sPc EXCEPT ![x] = "calling"]
  BY <1>4 DEF ExportGetWTMs
<1>5. ASSUME NEW x \in Service, NEW v \in Wtm, ExportRequest(x, v)
      PROVE  /\ sPc[x] = "calling"
             /\ sPc' = sPc \/ sPc' = [sPc EXCEPT ![x] = "done"]
  BY <1>5 DEF ExportRequest
<1>6. CASE \E x \in Service : ExportInstall(x)
  BY <1>1, <1>2, <1>6
<1>7. CASE \E x \in Service : ExportPut(x)
  BY <1>1, <1>3, <1>7
<1>8. CASE \E x \in Service : ExportGetWTMs(x)
  BY <1>1, <1>4, <1>8
<1>9. CASE \E x \in Service, v \in Wtm : ExportRequest(x, v)
  BY <1>1, <1>5, <1>9
<1>10. CASE ~ \E x \in Service : \/ ExportInstall(x) \/ ExportPut(x) \/ ExportGetWTMs(x)
                                 \/ \E v \in Wtm : ExportRequest(x, v)
  <2>1. UNCHANGED sPc
    BY <1>10, AddsStep DEF Next, Running, WtmAddedRequest, EndpointAdded, EndpointRemoved, Close,
       WtmAddedList, WtmAddedLock, WtmAddedUnlock, WtmAnswers, WtmGone, Adds,
       NotifyListener, AddEnd, RemoveCollect, RemoveRemote, RemoveStop, RemoveEnd,
       ListenerAdded, ListenerTell, ListenerRemoved, ReceiveStart, ReceiveEnd,
       StopCollect, StopOne, StopEnd, UseAfterStop, vars
  <2> QED
    BY <2>1
<1> QED
  BY <1>6, <1>7, <1>8, <1>9, <1>10

LEMMA FreshStep == ASSUME TypeOK, [Next]_vars, NEW s \in Service, Fresh(s)' PROVE Fresh(s)
BY PcStep DEF Fresh, ExportInstall

\* what a step does to exportedServices
LEMMA ExportedStep ==
  ASSUME [Next]_vars
  PROVE  \/ exported' \subseteq exported
         \/ \E s \in Service : ExportPut(s) /\ exported' = exported \cup {s}
<1>1. ASSUME NEW s \in Service, ExportPut(s) PROVE exported' = exported \cup {s}
  BY <1>1 DEF ExportPut, Change
<1>2. CASE ~ \E s \in Service : ExportPut(s)
  BY <1>2, AddsStep DEF Next, Running, ExportInstall, ExportGetWTMs, ExportRequest,
     WtmAddedRequest, EndpointAdded, EndpointRemoved, Close, WtmAddedList,
     WtmAddedLock, WtmAddedUnlock, WtmAnswers, WtmGone, Adds, NotifyListener, AddEnd,
     RemoveCollect, RemoveRemote, RemoveStop, RemoveEnd, ListenerAdded, ListenerTell,
     ListenerRemoved, ReceiveStart, ReceiveEnd, StopCollect, StopOne, StopEnd,
     UseAfterStop, Change, vars
<1> QED
  BY <1>1, <1>2

\* what a step does to the wire ids of the registrations
LEMMA WireOfStep ==
  ASSUME TypeOK, [Next]_vars
  PROVE  \/ UNCHANGED wireOf
         \/ \E s \in Service : /\ ExportInstall(s)
                               /\ wireOf' = [r \in Reg |-> IF r \in RegsOf(s) THEN None ELSE wireOf[r]]
         \/ \E v \in Wtm, s \in Service, w \in Wire :
              /\ Adds(v, s, w) /\ s \in exported
              /\ wireOf' = [r \in Reg |-> IF r \in RegsOf(s) THEN w ELSE wireOf[r]]
<1>1. ASSUME NEW s \in Service, ExportInstall(s)
      PROVE  wireOf' = [r \in Reg |-> IF r \in RegsOf(s) THEN None ELSE wireOf[r]]
  BY <1>1 DEF ExportInstall, InstallEndpoints
<1>2. ASSUME NEW v \in Wtm, NEW s \in Service, NEW w \in Wire, Adds(v, s, w)
      PROVE  \/ UNCHANGED wireOf
             \/ /\ s \in exported
                /\ wireOf' = [r \in Reg |-> IF r \in RegsOf(s) THEN w ELSE wireOf[r]]
  BY <1>2, AddsStep DEF Gets
<1>3. CASE ~ \/ \E s \in Service : ExportInstall(s)
             \/ \E v \in Wtm, s \in Service, w \in Wire : Adds(v, s, w)
  BY <1>3, AddsStep DEF Next, Running, ExportPut, ExportGetWTMs, ExportRequest, WtmAddedRequest,
     EndpointAdded, EndpointRemoved, Close, WtmAddedList, WtmAddedLock, WtmAddedUnlock,
     WtmAnswers, WtmGone, NotifyListener, AddEnd, RemoveCollect, RemoveRemote,
     RemoveStop, RemoveEnd, ListenerAdded, ListenerTell, ListenerRemoved, ReceiveStart,
     ReceiveEnd, StopCollect, StopOne, StopEnd, UseAfterStop, Adds, vars
<1> QED
  BY <1>1, <1>2, <1>3

\* what a step does to the trackers and the endpoint services
LEMMA TrackerStep ==
  ASSUME [Next]_vars
  PROVE  \/ UNCHANGED <<tracker, endpoint>>
         \/ \E s \in Service : ExportInstall(s)
         \/ \E r \in Reg : EndpointAdded(r) \/ EndpointRemoved(r) \/ Close(r) \/ StopOne(r)
         \/ \E v \in Wtm, r \in Reg : RemoveStop(v, r)
BY AddsStep DEF Next, Running, ExportPut, ExportGetWTMs, ExportRequest, WtmAddedRequest,
   WtmAddedList, WtmAddedLock, WtmAddedUnlock, WtmAnswers, WtmGone, Adds,
   NotifyListener, AddEnd, RemoveCollect, RemoveRemote, RemoveEnd, ListenerAdded,
   ListenerTell, ListenerRemoved, ReceiveStart, ReceiveEnd, StopCollect, StopEnd,
   UseAfterStop, vars

\* a registration is stopped when it is closed, when its wire is withdrawn and
\* when the bundle stops: its service leaves the map if it was tracked
Stopped(r) == Close(r) \/ StopOne(r) \/ \E v \in Wtm : RemoveStop(v, r)

LEMMA StoppedEffect ==
  ASSUME TypeOK, FreshInv, NEW r \in Reg, Stopped(r)
  PROVE  /\ tracker' = [tracker EXCEPT ![r] = "destroyed"]
         /\ endpoint' = [endpoint EXCEPT ![r] = IF @ = "live" THEN "stale" ELSE @]
         /\ UNCHANGED <<sPc, wireOf, ahead>> /\ closed' \subseteq closed \cup {r}
         /\ ~Fresh(ServiceOf[r])
         /\ \/ exported' = exported \ {ServiceOf[r]}
            \/ exported' = exported /\ \/ r \in closed \/ tracker[r] = "destroyed"
                                       \/ endpoint[r] # "live"
<1>1. CASE Close(r)
  BY <1>1 DEF Close, StopTracking, Change, Fresh
<1>2. CASE StopOne(r)
  BY <1>2 DEF StopOne, StopTracking, Change, FreshInv
<1>3. ASSUME NEW v \in Wtm, RemoveStop(v, r)
      PROVE  /\ tracker' = [tracker EXCEPT ![r] = "destroyed"]
             /\ endpoint' = [endpoint EXCEPT ![r] = IF @ = "live" THEN "stale" ELSE @]
             /\ UNCHANGED <<sPc, wireOf, ahead, closed>>
             /\ ~Fresh(ServiceOf[r])
             /\ \/ exported' = exported \ {ServiceOf[r]}
                \/ exported' = exported /\ \/ r \in closed \/ tracker[r] = "destroyed"
                                           \/ endpoint[r] # "live"
  BY <1>3 DEF RemoveStop, StopTracking, Change, FreshInv
<1> QED
  BY <1>1, <1>2, <1>3 DEF Stopped

LEMMA EarlyStays == ASSUME [Next]_vars PROVE ahead \subseteq ahead'
BY AddsStep DEF Next, Running, ExportInstall, ExportPut, ExportGetWTMs, ExportRequest,
   EndpointAdded, EndpointRemoved, Close, WtmAddedList, WtmAddedLock, WtmAddedRequest,
   WtmAddedUnlock, WtmAnswers, WtmGone, Adds, NotifyListener, AddEnd, RemoveCollect,
   RemoveRemote, RemoveStop, RemoveEnd, ListenerAdded, ListenerTell, ListenerRemoved,
   ReceiveStart, ReceiveEnd, StopCollect, StopOne, StopEnd, UseAfterStop, vars

\* what becomes of the announcement under way
LEMMA AddingStep ==
  ASSUME [Next]_vars
  PROVE  \/ UNCHANGED adding
         \/ adding' = Idle
         \/ \E v \in Wtm, s \in Service, w \in Wire :
              /\ Adds(v, s, w) /\ s \in exported /\ adding' = <<w, s>>
              /\ wireOf' = [r \in Reg |-> IF r \in RegsOf(s) THEN w ELSE wireOf[r]]
<1>1. ASSUME NEW v \in Wtm, NEW s \in Service, NEW w \in Wire, Adds(v, s, w)
      PROVE  \/ UNCHANGED adding
             \/ /\ s \in exported /\ adding' = <<w, s>>
                /\ wireOf' = [r \in Reg |-> IF r \in RegsOf(s) THEN w ELSE wireOf[r]]
  BY <1>1, AddsStep DEF Gets
<1>2. CASE ~ \E v \in Wtm, s \in Service, w \in Wire : Adds(v, s, w)
  BY <1>2, AddsStep DEF Next, Running, ExportInstall, ExportPut, ExportGetWTMs, ExportRequest,
     WtmAddedRequest, EndpointAdded, EndpointRemoved, Close, WtmAddedList,
     WtmAddedLock, WtmAddedUnlock, WtmAnswers, WtmGone, NotifyListener, AddEnd,
     RemoveCollect, RemoveRemote, RemoveStop, RemoveEnd, ListenerAdded, ListenerTell,
     ListenerRemoved, ReceiveStart, ReceiveEnd, StopCollect, StopOne, StopEnd,
     UseAfterStop, Adds, vars
<1> QED
  BY <1>1, <1>2

\* while a service is announced nothing else gives its registrations a wire
LEMMA AddingKeeps ==
  ASSUME TypeOK, FreshInv, [Next]_vars, adding # Idle, UNCHANGED adding
  PROVE  /\ adding[1] \in Wire /\ adding[2] \in Service
         /\ ~Fresh(adding[2])'
         /\ \A r \in RegsOf(adding[2]) : wireOf'[r] = adding[1]
<1>1. adding[1] \in Wire /\ adding[2] \in Service
  <2>1. adding \in Wire \X Service
    BY DEF TypeOK
  <2> QED
    BY <2>1
<1>2. ~Fresh(adding[2]) /\ \A r \in RegsOf(adding[2]) : wireOf[r] = adding[1]
  BY DEF FreshInv
<1>3. lock # None
  BY DEF TypeOK
<1>4. ~Fresh(adding[2])'
  BY <1>1, <1>2, FreshStep
<1>5. \A r \in RegsOf(adding[2]) : wireOf'[r] = adding[1]
  <2>1. CASE UNCHANGED wireOf
    BY <1>2, <2>1
  <2>2. ASSUME NEW s \in Service, ExportInstall(s),
               wireOf' = [r \in Reg |-> IF r \in RegsOf(s) THEN None ELSE wireOf[r]]
        PROVE  \A r \in RegsOf(adding[2]) : wireOf'[r] = adding[1]
    <3>1. s # adding[2]
      BY <1>2, <2>2 DEF ExportInstall, Fresh
    <3> QED
      BY <1>2, <2>2, <3>1 DEF RegsOf
  <2>3. ~ \E v \in Wtm, s \in Service, w \in Wire : Adds(v, s, w)
    BY <1>3, AddsStep
  <2> QED
    BY <2>1, <2>2, <2>3, WireOfStep
<1> QED
  BY <1>1, <1>4, <1>5

LEMMA FreshInvStep == ASSUME TypeOK, FreshInv, [Next]_vars PROVE FreshInv'
<1>1. \A s \in exported' : ~Fresh(s)'
  <2>1. exported \subseteq Service
    BY DEF TypeOK
  <2>2. \A s \in exported : ~Fresh(s)'
    BY <2>1, FreshStep DEF FreshInv
  <2>3. ASSUME NEW s \in Service, ExportPut(s) PROVE ~Fresh(s)'
    BY <2>3 DEF ExportPut, Fresh, TypeOK
  <2> QED
    BY <2>2, <2>3, ExportedStep
<1>2. ASSUME adding' # Idle
      PROVE  ~Fresh(adding[2])' /\ \A r \in RegsOf(adding'[2]) : wireOf'[r] = adding'[1]
  <2>1. CASE UNCHANGED adding
    <3>1. adding # Idle
      BY <1>2, <2>1
    <3>2. ~Fresh(adding[2])' /\ \A r \in RegsOf(adding[2]) : wireOf'[r] = adding[1]
      BY <2>1, <3>1, AddingKeeps DEF Fresh
    <3> QED
      BY <2>1, <3>2 DEF Fresh
  <2>2. ASSUME NEW v \in Wtm, NEW s \in Service, NEW w \in Wire,
               Adds(v, s, w), s \in exported, adding' = <<w, s>>,
               wireOf' = [r \in Reg |-> IF r \in RegsOf(s) THEN w ELSE wireOf[r]]
        PROVE  ~Fresh(adding[2])' /\ \A r \in RegsOf(adding'[2]) : wireOf'[r] = adding'[1]
    <3>1. ~Fresh(s)
      BY <2>2 DEF FreshInv
    <3>2. ~Fresh(s)'
      BY <3>1, FreshStep
    <3> QED
      BY <2>2, <3>2 DEF Fresh, RegsOf
  <2> QED
    BY <1>2, <2>1, <2>2, AddingStep
<1>3. ASSUME NEW r \in Reg, Fresh(ServiceOf[r])'
      PROVE  r \notin closed' \cup toStop' /\ \A v \in Wtm : r \notin stopping'[v]
  <2>1. ServiceOf[r] \in Service
    BY RsaExportAssumption
  <2>2. Fresh(ServiceOf[r])
    BY <1>3, <2>1, FreshStep
  <2>3. r \notin closed \cup toStop /\ ServiceOf[r] \notin exported
        /\ \A v \in Wtm : r \notin stopping[v]
    BY <2>2 DEF FreshInv
  <2>4. r \notin closed'
    <3>1. ASSUME NEW q \in Reg, Close(q)
          PROVE  closed' = closed \cup {q} /\ ~Fresh(ServiceOf[q])
      BY <3>1 DEF Close, Fresh
    <3>2. CASE ~ \E q \in Reg : Close(q)
      <4>1. UNCHANGED closed
        BY <3>2, AddsStep DEF Next, Running, ExportInstall, ExportPut, ExportGetWTMs,
           ExportRequest, WtmAddedRequest, EndpointAdded, EndpointRemoved,
           WtmAddedList, WtmAddedLock, WtmAddedUnlock, WtmAnswers, WtmGone, Adds,
           NotifyListener, AddEnd, RemoveCollect, RemoveRemote, RemoveStop, RemoveEnd,
           ListenerAdded, ListenerTell, ListenerRemoved, ReceiveStart, ReceiveEnd,
           StopCollect, StopOne, StopEnd, UseAfterStop, vars
      <4> QED
        BY <2>3, <4>1
    <3> QED
      BY <2>2, <2>3, <3>1, <3>2
  <2>5. r \notin toStop'
    <3>1. CASE StopCollect
      BY <2>3, <3>1 DEF StopCollect, RegsOf
    <3>2. CASE ~StopCollect
      <4>1. toStop' \subseteq toStop
        BY <3>2, AddsStep DEF Next, Running, ExportInstall, ExportPut, ExportGetWTMs,
           ExportRequest, WtmAddedRequest, EndpointAdded, EndpointRemoved, Close,
           WtmAddedList, WtmAddedLock, WtmAddedUnlock, WtmAnswers, WtmGone, Adds,
           NotifyListener, AddEnd, RemoveCollect, RemoveRemote, RemoveStop, RemoveEnd,
           ListenerAdded, ListenerTell, ListenerRemoved, ReceiveStart, ReceiveEnd,
           StopOne, StopEnd, UseAfterStop, vars
      <4> QED
        BY <2>3, <4>1
    <3> QED
      BY <3>1, <3>2
  <2>6. ASSUME NEW v \in Wtm PROVE r \notin stopping'[v]
    <3>1. ASSUME NEW x \in Wtm, NEW w \in Wire, RemoveCollect(x, w) PROVE r \notin stopping'[v]
      <4> DEFINE R == {q \in UNION {RegsOf(s) : s \in exported} : wireOf[q] = w}
      <4>1. stopping' = [stopping EXCEPT ![x] = R]
        BY <3>1 DEF RemoveCollect
      <4>2. \A q \in R : ServiceOf[q] \in exported
        BY DEF RegsOf
      <4> HIDE DEF R
      <4> QED
        BY <2>3, <4>1, <4>2 DEF TypeOK
    <3>2. ASSUME NEW x \in Wtm, NEW q \in Reg, RemoveStop(x, q) PROVE r \notin stopping'[v]
      BY <2>3, <3>2 DEF RemoveStop, TypeOK
    <3>3. CASE ~ \/ \E x \in Wtm, w \in Wire : RemoveCollect(x, w)
                 \/ \E x \in Wtm, q \in Reg : RemoveStop(x, q)
      <4>1. UNCHANGED stopping
        BY <3>3, AddsStep DEF Next, Running, ExportInstall, ExportPut, ExportGetWTMs,
           ExportRequest, WtmAddedRequest, EndpointAdded, EndpointRemoved, Close,
           WtmAddedList, WtmAddedLock, WtmAddedUnlock, WtmAnswers, WtmGone, Adds,
           NotifyListener, AddEnd, RemoveEnd, RemoveRemote, ListenerAdded,
           ListenerTell, ListenerRemoved, ReceiveStart, ReceiveEnd, StopCollect,
           StopOne, StopEnd, UseAfterStop, vars
      <4> QED
        BY <2>3, <4>1
    <3> QED
      BY <3>1, <3>2, <3>3
  <2> QED
    BY <2>4, <2>5, <2>6
<1> QED
  BY <1>1, <1>2, <1>3 DEF FreshInv, Fresh, RegsOf

\* the trackers and the endpoint services follow exportService
LEMMA TrackInvStep ==
  ASSUME TypeOK, FreshInv, TrackInv, [Next]_vars
  PROVE  TrackInv'
<1> DEFINE Good(r) ==
      /\ sPc[ServiceOf[r]] = "new" => tracker[r] = "none" /\ endpoint[r] = "none"
      /\ sPc[ServiceOf[r]] = "installed" =>
           tracker[r] = "open" /\ (endpoint[r] = "stale" => r \in ahead)
      /\ endpoint[r] = "live" => tracker[r] = "open"
<1> SUFFICES ASSUME NEW r \in Reg
             PROVE  /\ Good(r)'
                    /\ sPc'[ServiceOf[r]] = "installed" => wireOf'[r] = None
                    /\ r \in closed' => tracker'[r] = "destroyed"
  BY DEF TrackInv
<1>1. /\ ServiceOf[r] \in Service
      /\ Good(r)
      /\ sPc[ServiceOf[r]] = "installed" => wireOf[r] = None
      /\ r \in closed => tracker[r] = "destroyed"
  BY RsaExportAssumption DEF TrackInv
<1>2. /\ tracker \in [Reg -> {"none", "open", "destroyed"}]
      /\ endpoint \in [Reg -> {"none", "live", "stale"}]
      /\ sPc \in [Service -> {"new", "installed", "put", "calling", "done"}]
  BY DEF TypeOK
<1>3. /\ sPc'[ServiceOf[r]] = "new" => sPc[ServiceOf[r]] = "new"
      /\ sPc'[ServiceOf[r]] = "installed" =>
           sPc[ServiceOf[r]] = "installed" \/ ExportInstall(ServiceOf[r])
      /\ ahead \subseteq ahead'
  BY <1>1, PcStep, EarlyStays
<1>4. sPc'[ServiceOf[r]] = "installed" => wireOf'[r] = None
  <2>1. CASE UNCHANGED wireOf /\ ~ExportInstall(ServiceOf[r])
    BY <1>1, <1>3, <2>1
  <2>2. ASSUME NEW s \in Service, ExportInstall(s),
               wireOf' = [q \in Reg |-> IF q \in RegsOf(s) THEN None ELSE wireOf[q]]
        PROVE  sPc'[ServiceOf[r]] = "installed" => wireOf'[r] = None
    <3>1. s # ServiceOf[r] => sPc'[ServiceOf[r]] = sPc[ServiceOf[r]]
      BY <1>1, <1>2, <2>2 DEF ExportInstall
    <3> QED
      BY <1>1, <2>2, <3>1 DEF RegsOf
  <2>3. ASSUME NEW v \in Wtm, NEW s \in Service, NEW w \in Wire,
               Adds(v, s, w), s \in exported,
               wireOf' = [q \in Reg |-> IF q \in RegsOf(s) THEN w ELSE wireOf[q]]
        PROVE  sPc'[ServiceOf[r]] = "installed" => wireOf'[r] = None
    <3>1. UNCHANGED sPc
      BY <2>3, AddsStep
    <3>2. sPc[s] # "installed"
      BY <2>3 DEF FreshInv, Fresh
    <3> QED
      BY <1>1, <2>3, <3>1, <3>2 DEF RegsOf
  <2>4. ExportInstall(ServiceOf[r]) =>
          wireOf' = [q \in Reg |-> IF q \in RegsOf(ServiceOf[r]) THEN None ELSE wireOf[q]]
    BY DEF ExportInstall, InstallEndpoints
  <2> QED
    BY <1>1, <2>1, <2>2, <2>3, <2>4, WireOfStep
<1>5. ASSUME NEW s \in Service, ExportInstall(s)
      PROVE  Good(r)' /\ (r \in closed' => tracker'[r] = "destroyed")
  <2>1. /\ sPc[s] = "new" /\ sPc' = [sPc EXCEPT ![s] = "installed"]
        /\ tracker' = [q \in Reg |-> IF q \in RegsOf(s) THEN "open" ELSE tracker[q]]
        /\ UNCHANGED <<endpoint, closed, ahead>>
    BY <1>5 DEF ExportInstall, StartTracking
  <2>2. CASE ServiceOf[r] = s
    <3>1. endpoint[r] = "none" /\ r \notin closed
      BY <1>1, <2>1, <2>2 DEF FreshInv, Fresh
    <3> QED
      BY <1>2, <2>1, <2>2, <3>1 DEF RegsOf
  <2>3. CASE ServiceOf[r] # s
    BY <1>1, <1>2, <2>1, <2>3 DEF RegsOf
  <2> QED
    BY <2>2, <2>3
<1>6. ASSUME NEW q \in Reg, EndpointAdded(q) \/ EndpointRemoved(q)
      PROVE  Good(r)' /\ (r \in closed' => tracker'[r] = "destroyed")
  <2>1. /\ UNCHANGED <<tracker, closed, sPc>> /\ tracker[q] = "open"
    BY <1>6 DEF EndpointAdded, EndpointRemoved
  <2>2. \/ endpoint' = [endpoint EXCEPT ![q] = "live"]
        \/ /\ endpoint' = [endpoint EXCEPT ![q] = "stale"]
           /\ sPc[ServiceOf[q]] = "installed" => q \in ahead'
    BY <1>6 DEF EndpointAdded, EndpointRemoved
  <2> QED
    BY <1>1, <1>2, <1>3, <2>1, <2>2
<1>7. ASSUME NEW q \in Reg, Stopped(q)
      PROVE  Good(r)' /\ (r \in closed' => tracker'[r] = "destroyed")
  <2>1. /\ tracker' = [tracker EXCEPT ![q] = "destroyed"]
        /\ endpoint' = [endpoint EXCEPT ![q] = IF @ = "live" THEN "stale" ELSE @]
        /\ UNCHANGED <<sPc, ahead>> /\ closed' \subseteq closed \cup {q}
        /\ ~Fresh(ServiceOf[q])
    BY <1>7, StoppedEffect
  <2> QED
    BY <1>1, <1>2, <2>1 DEF Fresh
<1>8. ASSUME UNCHANGED <<tracker, endpoint>>, ~ \E s \in Service : ExportInstall(s),
             ~ \E q \in Reg : Stopped(q)
      PROVE  Good(r)' /\ (r \in closed' => tracker'[r] = "destroyed")
  <2>1. UNCHANGED closed
    BY <1>8, AddsStep DEF Stopped, Next, Running, ExportPut, ExportGetWTMs, ExportRequest,
       WtmAddedRequest, EndpointAdded, EndpointRemoved, WtmAddedList, WtmAddedLock,
       WtmAddedUnlock, WtmAnswers, WtmGone, Adds, NotifyListener, AddEnd,
       RemoveCollect, RemoveRemote, RemoveEnd, ListenerAdded, ListenerTell,
       ListenerRemoved, ReceiveStart, ReceiveEnd, StopCollect, StopEnd, UseAfterStop,
       vars
  <2> QED
    BY <1>1, <1>3, <1>8, <2>1
<1> QED
  BY <1>4, <1>5, <1>6, <1>7, <1>8, TrackerStep DEF Stopped

(* Only a registration whose endpoint service went before the put is in    *)
(* exportedServices without one.                                           *)
LEMMA StaleStep ==
  ASSUME TypeOK, FreshInv, TrackInv, StaleOnlyEarly, [Next]_vars
  PROVE  StaleOnlyEarly'
<1> DEFINE Good(r) == /\ tracker[r] = "destroyed" => endpoint[r] = "none" \/ r \in ahead
                      /\ endpoint[r] = "stale" => r \in ahead
<1>1. /\ tracker \in [Reg -> {"none", "open", "destroyed"}]
      /\ endpoint \in [Reg -> {"none", "live", "stale"}]
      /\ ahead \subseteq ahead'
  BY EarlyStays DEF TypeOK
<1>2. ASSUME NEW r \in Reg, ServiceOf[r] \in exported' PROVE Good(r)'
  <2>1. ServiceOf[r] \in exported => Good(r) /\ ~Fresh(ServiceOf[r])
    BY DEF StaleOnlyEarly, FreshInv
  <2>2. CASE ServiceOf[r] \notin exported
    <3>1. PICK s \in Service : ExportPut(s) /\ exported' = exported \cup {s}
      BY <1>2, <2>2, ExportedStep
    <3>2. sPc[ServiceOf[r]] = "installed" /\ UNCHANGED <<tracker, endpoint>>
      BY <1>2, <2>2, <3>1 DEF ExportPut
    <3> QED
      BY <1>1, <3>2 DEF TrackInv
  <2>3. CASE ServiceOf[r] \in exported
    <3>1. ASSUME NEW s \in Service, ExportInstall(s) PROVE Good(r)'
      <4>1. s # ServiceOf[r]
        BY <2>1, <2>3, <3>1 DEF ExportInstall, Fresh
      <4> QED
        BY <1>1, <2>1, <2>3, <3>1, <4>1 DEF ExportInstall, StartTracking, RegsOf
    <3>2. ASSUME NEW q \in Reg, EndpointAdded(q) PROVE Good(r)'
      BY <1>1, <2>1, <2>3, <3>2 DEF EndpointAdded
    <3>3. ASSUME NEW q \in Reg, EndpointRemoved(q) PROVE Good(r)'
      <4>1. q # r
        BY <1>2, <3>3 DEF EndpointRemoved, Change
      <4> QED
        BY <1>1, <2>1, <2>3, <3>3, <4>1 DEF EndpointRemoved
    <3>4. ASSUME NEW q \in Reg, Stopped(q) PROVE Good(r)'
      <4>1. /\ tracker' = [tracker EXCEPT ![q] = "destroyed"]
            /\ endpoint' = [endpoint EXCEPT ![q] = IF @ = "live" THEN "stale" ELSE @]
            /\ \/ exported' = exported \ {ServiceOf[q]}
               \/ exported' = exported /\ \/ q \in closed \/ tracker[q] = "destroyed"
                                          \/ endpoint[q] # "live"
        BY <3>4, StoppedEffect
      <4>2. q = r => endpoint[r] # "live"
        BY <1>2, <4>1 DEF TrackInv
      <4>3. endpoint'[r] = endpoint[r] /\ (q # r => tracker'[r] = tracker[r])
        BY <1>1, <4>1, <4>2
      <4>4. endpoint[r] \in {"none", "stale"} \/ q # r
        BY <1>1, <4>2
      <4> QED
        BY <1>1, <2>1, <2>3, <4>3, <4>4
    <3>5. CASE UNCHANGED <<tracker, endpoint>>
      BY <1>1, <2>1, <2>3, <3>5
    <3> QED
      BY <3>1, <3>2, <3>3, <3>4, <3>5, TrackerStep DEF Stopped
  <2> QED
    BY <2>2, <2>3
<1>3. fault' = "freed endpoint" => ahead' # {}
  <2>1. ASSUME NEW k \in Worker, ReceiveEnd(k), fault' = "freed endpoint" PROVE ahead' # {}
    <3>1. PICK r \in Reg : ServiceOf[r] \in exported /\ endpoint[r] = "stale"
      BY <2>1 DEF ReceiveEnd
    <3> QED
      BY <1>1, <3>1 DEF StaleOnlyEarly
  <2>2. ASSUME Next, \A k \in Worker : ~ReceiveEnd(k) PROVE fault' # "freed endpoint"
    <3>1. fault = "none"
      BY <2>2, NoFault
    <3>2. CASE \/ \E s \in Service : ExportPut(s)
               \/ \E s \in Service, v \in Wtm : ExportRequest(s, v)
               \/ \E r \in Reg : EndpointRemoved(r) \/ Close(r) \/ StopOne(r)
               \/ \E v \in Wtm, r \in Reg : RemoveStop(v, r)
      BY <3>2 DEF ExportPut, ExportRequest, EndpointRemoved, Close, StopOne, RemoveStop,
         Change
    <3>3. CASE \/ \E v \in Wtm, w \in Wire : RemoveCollect(v, w)
               \/ \E v \in Wtm : RemoveRemote(v)
               \/ \E l \in Listener : ListenerAdded(l) \/ ListenerRemoved(l)
               \/ StopEnd \/ UseAfterStop
      BY <3>3 DEF RemoveCollect, RemoveRemote, ListenerAdded, ListenerRemoved, StopEnd,
         UseAfterStop, ListenersChanged
    <3>4. CASE \E v \in Wtm, s \in Service, w \in Wire : Adds(v, s, w)
      BY <3>1, <3>4 DEF Adds, AddWiringEndpoint, AddWithoutReceive, AddFreedWire, SetWire
    <3>5. CASE \/ \E s \in Service : ExportInstall(s) \/ ExportGetWTMs(s)
               \/ \E s \in Service, v \in Wtm : WtmAddedRequest(v, s) \/ WtmAnswers(v, s)
               \/ \E r \in Reg : EndpointAdded(r)
               \/ \E v \in Wtm : WtmAddedList(v) \/ WtmAddedLock(v) \/ WtmAddedUnlock(v)
                                 \/ WtmGone(v) \/ RemoveEnd(v)
               \/ \E l \in Listener : NotifyListener(l)
               \/ AddEnd \/ StopCollect
               \/ \E l \in Listener, s \in Service : ListenerTell(l, s)
               \/ \E k \in Worker : ReceiveStart(k)
      <4>1. UNCHANGED fault
        BY <3>5 DEF ExportInstall, ExportGetWTMs, WtmAddedRequest, WtmAnswers, EndpointAdded,
           WtmAddedList, WtmAddedLock, WtmAddedUnlock, WtmGone, RemoveEnd,
           NotifyListener, AddEnd, StopCollect, ListenerTell, ReceiveStart
      <4> QED
        BY <3>1, <4>1
    <3> QED
      BY <2>2, <3>2, <3>3, <3>4, <3>5 DEF Next, Running, Adds
  <2>3. CASE UNCHANGED vars
    BY <2>3 DEF vars, StaleOnlyEarly
  <2> QED
    BY <2>1, <2>2, <2>3
<1> QED
  BY <1>2, <1>3 DEF StaleOnlyEarly

-----------------------------------------------------------------------------
(***************************************************************************)
(* The requests.                                                           *)
(***************************************************************************)

LEMMA WtmPcStep ==
  ASSUME TypeOK, [Next]_vars, NEW v \in Wtm
  PROVE  /\ wtmPc'[v] = "up" => wtmPc[v] = "up" \/ WtmAddedUnlock(v)
         /\ wtmPc'[v] = "exporting" => wtmPc[v] = "exporting" \/ WtmAddedLock(v)
<1>1. wtmPc \in [Wtm -> {"new", "listed", "exporting", "stuck", "up", "gone"}]
  BY DEF TypeOK
<1>2. ASSUME NEW x \in Wtm, WtmAddedList(x) \/ WtmGone(x)
      PROVE  \E c \in {"listed", "gone"} : wtmPc' = [wtmPc EXCEPT ![x] = c]
  BY <1>2 DEF WtmAddedList, WtmGone
<1>3. ASSUME NEW x \in Wtm, WtmAddedLock(x) PROVE wtmPc' = [wtmPc EXCEPT ![x] = "exporting"]
  BY <1>3 DEF WtmAddedLock
<1>4. ASSUME NEW x \in Wtm, WtmAddedUnlock(x) PROVE wtmPc' = [wtmPc EXCEPT ![x] = "up"]
  BY <1>4 DEF WtmAddedUnlock
<1>9. ASSUME NEW x \in Wtm, NEW s \in Service, WtmAnswers(x, s)
      PROVE  wtmPc' = [wtmPc EXCEPT ![x] = "stuck"]
  BY <1>9 DEF WtmAnswers
<1>10. CASE \E x \in Wtm, s \in Service : WtmAnswers(x, s)
  BY <1>1, <1>9, <1>10
<1>5. CASE \E x \in Wtm : WtmAddedList(x) \/ WtmGone(x)
  BY <1>1, <1>2, <1>5
<1>6. CASE \E x \in Wtm : WtmAddedLock(x)
  BY <1>1, <1>3, <1>6
<1>7. CASE \E x \in Wtm : WtmAddedUnlock(x)
  BY <1>1, <1>4, <1>7
<1>8. CASE ~ \E x \in Wtm : WtmAddedList(x) \/ WtmGone(x) \/ WtmAddedLock(x)
                            \/ WtmAddedUnlock(x) \/ \E s \in Service : WtmAnswers(x, s)
  <2>1. UNCHANGED wtmPc
    BY <1>8, AddsStep DEF Next, Running, ExportInstall, ExportPut, ExportGetWTMs, ExportRequest,
       WtmAddedRequest, EndpointAdded, EndpointRemoved, Close, Adds, NotifyListener,
       AddEnd, RemoveCollect, RemoveRemote, RemoveStop, RemoveEnd, ListenerAdded,
       ListenerTell, ListenerRemoved, ReceiveStart, ReceiveEnd, StopCollect, StopOne,
       StopEnd, UseAfterStop, vars
  <2> QED
    BY <2>1
<1> QED
  BY <1>5, <1>6, <1>7, <1>8, <1>10

\* A WTM in the list that has been asked, or is about to be, stays so.
LEMMA AskedStep ==
  ASSUME TypeOK, [Next]_vars, NEW v \in Listed, NEW s \in Service, Asked(v, s)
  PROVE  Asked(v, s)'
<1>1. v \in Wtm /\ targets \in [Service -> SUBSET Wtm]
  BY DEF Listed, TypeOK
<1>2. ASSUME NEW x \in Service, ExportGetWTMs(x) PROVE Asked(v, s)'
  <2>1. /\ sPc' = [sPc EXCEPT ![x] = "calling"] /\ UNCHANGED requested
        /\ targets' = [targets EXCEPT ![x] = Listed]
    BY <1>2 DEF ExportGetWTMs
  <2> QED
    BY <1>1, <2>1 DEF Asked, TypeOK
<1>3. ASSUME NEW x \in Service, NEW u \in Wtm, ExportRequest(x, u) PROVE Asked(v, s)'
  <2>1. /\ sPc[x] = "calling" /\ requested' = requested \cup {<<u, x>>}
        /\ targets' = [targets EXCEPT ![x] = @ \ {u}]
    BY <1>3 DEF ExportRequest
  <2>2. sPc[s] = "put" => sPc'[s] = "put"
    BY <2>1, <1>3 DEF ExportRequest, TypeOK
  <2>3. v \in targets[s] => v \in targets'[s] \/ <<v, s>> \in requested'
    BY <1>1, <2>1
  <2> QED
    BY <2>1, <2>2, <2>3 DEF Asked
<1>4. ASSUME NEW x \in Service, ExportInstall(x) \/ ExportPut(x) PROVE Asked(v, s)'
  <2>1. /\ UNCHANGED <<requested, targets>>
        /\ \/ sPc[x] = "new" /\ sPc' = [sPc EXCEPT ![x] = "installed"]
           \/ sPc[x] = "installed" /\ sPc' = [sPc EXCEPT ![x] = "put"]
    BY <1>4 DEF ExportInstall, ExportPut
  <2> QED
    BY <2>1 DEF Asked, TypeOK
<1>5. CASE ~ \E x \in Service : \/ ExportInstall(x) \/ ExportPut(x) \/ ExportGetWTMs(x)
                                \/ \E u \in Wtm : ExportRequest(x, u)
  <2>1. UNCHANGED <<sPc, targets>> /\ requested \subseteq requested'
    BY <1>5, AddsStep DEF Next, Running, WtmAddedRequest, EndpointAdded, EndpointRemoved, Close,
       WtmAddedList, WtmAddedLock, WtmAddedUnlock, WtmAnswers, WtmGone, Adds,
       NotifyListener, AddEnd, RemoveCollect, RemoveRemote, RemoveStop, RemoveEnd,
       ListenerAdded, ListenerTell, ListenerRemoved, ReceiveStart, ReceiveEnd,
       StopCollect, StopOne, StopEnd, UseAfterStop, vars
  <2> QED
    BY <2>1 DEF Asked
<1> QED
  BY <1>2, <1>3, <1>4, <1>5

\* a service that comes to be exported has the request ahead of it
LEMMA NewAsked ==
  ASSUME TypeOK, [Next]_vars, NEW v \in Wtm, NEW s \in exported', s \notin exported
  PROVE  Asked(v, s)'
<1>1. s \in Service /\ ExportPut(s)
  BY ExportedStep
<1> QED
  BY <1>1 DEF ExportPut, Asked, TypeOK

LEMMA WalkStep ==
  ASSUME TypeOK, LockInv, WalkInv, NoLostRequest, [Next]_vars
  PROVE  WalkInv' /\ NoLostRequest'
<1>1. ASSUME NEW v \in Wtm, NEW s \in exported', wtmPc'[v] = "exporting"
      PROVE  s \in todo' \/ Asked(v, s)'
  <2>1. CASE s \notin exported
    BY <2>1, NewAsked
  <2>2. CASE s \in exported /\ WtmAddedLock(v)
    BY <2>2 DEF WtmAddedLock
  <2>3. CASE s \in exported /\ wtmPc[v] = "exporting"
    <3>1. /\ lock = v /\ v # None /\ v \in Listed /\ s \in Service
          /\ s \in todo \/ Asked(v, s)
      BY <2>3, RsaExportAssumption DEF LockInv, WalkInv, Walking, Listed, TypeOK
    <3>2. ASSUME NEW x \in Wtm, NEW y \in Service, WtmAddedRequest(x, y), s \in todo
          PROVE  s \in todo' \/ Asked(v, s)'
      <4>1. x = v /\ todo' = todo \ {y} /\ requested' = requested \cup {<<x, y>>}
        BY <3>1, <3>2 DEF WtmAddedRequest, LockInv, Walking
      <4> QED
        BY <3>2, <4>1 DEF Asked
    <3>3. ~ \E x \in Wtm : WtmAddedLock(x)
      BY <3>1 DEF WtmAddedLock
    <3>4. CASE ~ \E x \in Wtm, y \in Service : WtmAddedRequest(x, y)
      <4>1. UNCHANGED todo
        BY <3>3, <3>4, AddsStep DEF Next, Running, ExportInstall, ExportPut, ExportGetWTMs,
           ExportRequest, EndpointAdded, EndpointRemoved, Close, WtmAddedList,
           WtmAddedUnlock, WtmAnswers, WtmGone, Adds, NotifyListener, AddEnd,
           RemoveCollect, RemoveRemote, RemoveStop, RemoveEnd, ListenerAdded,
           ListenerTell, ListenerRemoved, ReceiveStart, ReceiveEnd, StopCollect,
           StopOne, StopEnd, UseAfterStop, vars
      <4> QED
        BY <3>1, <4>1, AskedStep
    <3> QED
      BY <3>1, <3>2, <3>4, AskedStep
  <2> QED
    BY <1>1, <2>1, <2>2, <2>3, WtmPcStep
<1>2. ASSUME NEW v \in Wtm, NEW s \in exported', wtmPc'[v] = "up"
      PROVE  Asked(v, s)'
  <2>1. CASE s \notin exported
    BY <2>1, NewAsked
  <2>2. CASE s \in exported
    <3>1. s \in Service
      BY <2>2 DEF TypeOK
    <3>2. CASE WtmAddedUnlock(v)
      <4>1. wtmPc[v] = "exporting" /\ todo = {}
        BY <3>2 DEF WtmAddedUnlock
      <4>2. Asked(v, s) /\ v \in Listed
        BY <2>2, <4>1 DEF WalkInv, Listed
      <4> QED
        BY <3>1, <4>2, AskedStep
    <3>3. CASE wtmPc[v] = "up"
      <4>1. Asked(v, s) /\ v \in Listed
        BY <2>2, <3>3 DEF NoLostRequest, Asked, Listed
      <4> QED
        BY <3>1, <4>1, AskedStep
    <3> QED
      BY <1>2, <3>2, <3>3, WtmPcStep
  <2> QED
    BY <2>1, <2>2
<1>3. NoLostRequest'
  BY <1>2 DEF NoLostRequest, Asked
<1> QED
  BY <1>1, <1>3 DEF WalkInv, Asked

-----------------------------------------------------------------------------
(***************************************************************************)
(* The wires, and what the endpoint listeners were told of them.           *)
(***************************************************************************)

\* only an announcement and the end of a withdrawal touch the wires
LEMMA WiresSame ==
  ASSUME [Next]_vars,
         ~ \/ \E v \in Wtm, s \in Service, w \in Wire : Adds(v, s, w)
           \/ \E v \in Wtm : RemoveEnd(v)
  PROVE  UNCHANGED wireVars
BY AddsStep DEF Next, Running, ExportInstall, ExportPut, ExportGetWTMs, ExportRequest,
   EndpointAdded, EndpointRemoved, Close, WtmAddedList, WtmAddedLock, WtmAddedRequest,
   WtmAddedUnlock, WtmAnswers, WtmGone, NotifyListener, AddEnd, RemoveCollect,
   RemoveRemote, RemoveStop, ListenerAdded, ListenerTell, ListenerRemoved,
   ReceiveStart, ReceiveEnd, StopCollect, StopOne, StopEnd, UseAfterStop, Adds, vars

LEMMA Numbers ==
  ASSUME TypeOK
  PROVE  /\ MaxWire \in Nat /\ nextWire \in Nat /\ nextWire >= 1 /\ nextWire <= MaxWire + 1
         /\ \A w \in Wire : w \in Nat /\ w >= 1 /\ w <= MaxWire
<1>1. MaxWire \in Nat
  BY RsaExportAssumption
<1>2. nextWire \in 1..(MaxWire + 1)
  BY DEF TypeOK
<1> QED
  BY <1>1, <1>2 DEF Wire

LEMMA Below ==
  ASSUME NEW n \in Nat, NEW w \in Nat, w >= 1, w < n PROVE w \in 1..(n - 1)
OBVIOUS

\* the wire of an announcement is a wire of the WTM, or the next one
LEMMA AddNumbers ==
  ASSUME TypeOK, WireInv, NEW v \in Wtm, NEW s \in Service, NEW w \in Wire,
         Adds(v, s, w)
  PROVE  /\ w \in Nat /\ w >= 1 /\ w < nextWire'
         /\ nextWire' \in Nat /\ nextWire <= nextWire'
         /\ w \in announced[v] \/ w = nextWire
<1>1. /\ w \in announced[v] \/ w = nextWire
      /\ nextWire' = IF w = nextWire THEN nextWire + 1 ELSE nextWire
  BY AddsStep
<1>2. announced[v] \subseteq 1..(nextWire - 1)
  BY DEF WireInv
<1>3. w \in 1..(nextWire - 1) \/ w = nextWire
  BY <1>1, <1>2
<1>4. w \in Nat /\ nextWire \in Nat /\ nextWire >= 1
  BY Numbers
<1> QED
  BY <1>1, <1>3, <1>4

LEMMA NextIsNew ==
  ASSUME TypeOK, WireInv
  PROVE  \A v \in Wtm : nextWire \notin announced[v]
<1>1. nextWire \notin 1..(nextWire - 1)
  BY Numbers
<1> QED
  BY <1>1 DEF WireInv

LEMMA WireStep == ASSUME TypeOK, WireInv, [Next]_vars PROVE WireInv'
<1>1. /\ announced \in [Wtm -> SUBSET Wire]
      /\ wireOf \in [Reg -> Wire \cup {None}] /\ leaving \in [Wtm -> Wire \cup {None}]
  BY DEF TypeOK
<1>2. ASSUME NEW v \in Wtm, NEW s \in Service, NEW w \in Wire, Adds(v, s, w)
      PROVE  WireInv'
  <2>1. /\ w \in Nat /\ w >= 1 /\ w < nextWire'
        /\ nextWire' \in Nat /\ nextWire \in Nat /\ nextWire <= nextWire'
    BY <1>2, Numbers, AddNumbers
  <2>2. announced' = [announced EXCEPT ![v] = @ \cup {w}] /\ UNCHANGED leaving
    BY <1>2, AddsStep
  <2>3. \A x \in Wtm : announced'[x] = IF x = v THEN announced[x] \cup {w} ELSE announced[x]
    BY <1>1, <2>2
  <2>4. \A x \in Wtm : announced'[x] \subseteq 1..(nextWire' - 1)
    <3>1. ASSUME NEW y \in 1..(nextWire - 1) PROVE y \in 1..(nextWire' - 1)
      <4>1. y \in Nat /\ y >= 1 /\ y < nextWire
        BY <2>1
      <4>2. y < nextWire'
        BY <2>1, <4>1
      <4> QED
        BY <2>1, <4>1, <4>2, Below
    <3>2. w \in 1..(nextWire' - 1)
      BY <2>1, Below
    <3>3. \A x \in Wtm : announced[x] \subseteq 1..(nextWire - 1)
      BY DEF WireInv
    <3> QED
      BY <2>3, <3>1, <3>2, <3>3
  <2>5. \A x, y \in Wtm : x # y => announced'[x] \cap announced'[y] = {}
    <3>1. \A x, y \in Wtm : x # y => announced[x] \cap announced[y] = {}
      BY DEF WireInv
    <3>2. \A x \in Wtm : x # v => w \notin announced[x]
      <4>1. w \in announced[v] \/ w = nextWire
        BY <1>2, AddNumbers
      <4> QED
        BY <3>1, <4>1, NextIsNew
    <3> QED
      BY <2>3, <3>1, <3>2
  <2>6. \A r \in Reg : wireOf'[r] # None => wireOf'[r] < nextWire'
    <3>1. \A r \in Reg : wireOf'[r] = wireOf[r] \/ wireOf'[r] = w
      BY <1>2, AddsStep DEF Gets
    <3>2. \A r \in Reg : wireOf[r] # None => wireOf[r] < nextWire /\ wireOf[r] \in Nat
      BY <1>1, Numbers DEF WireInv
    <3> QED
      BY <2>1, <3>1, <3>2
  <2>7. \A x \in Wtm : leaving'[x] # None => leaving'[x] \in announced'[x]
    <3>1. \A x \in Wtm : leaving[x] # None => leaving[x] \in announced[x]
      BY DEF WireInv
    <3> QED
      BY <2>2, <2>3, <3>1
  <2> QED
    BY <2>4, <2>5, <2>6, <2>7 DEF WireInv
<1>3. ASSUME NEW v \in Wtm, RemoveEnd(v) PROVE WireInv'
  <2>1. /\ announced' = [announced EXCEPT ![v] = @ \ {leaving[v]}]
        /\ leaving' = [leaving EXCEPT ![v] = None]
        /\ UNCHANGED <<nextWire, wireOf>>
    BY <1>3 DEF RemoveEnd
  <2>2. \A x \in Wtm : announced'[x] \subseteq announced[x]
    BY <1>1, <2>1
  <2>3. \A x \in Wtm : leaving'[x] # None => leaving'[x] \in announced'[x]
    <3>1. \A x \in Wtm : x # v => announced'[x] = announced[x] /\ leaving'[x] = leaving[x]
      BY <2>1
    <3>2. leaving'[v] = None
      BY <1>1, <2>1
    <3>3. \A x \in Wtm : leaving[x] # None => leaving[x] \in announced[x]
      BY DEF WireInv
    <3> QED
      BY <3>1, <3>2, <3>3
  <2> QED
    BY <2>1, <2>2, <2>3 DEF WireInv
<1>4. CASE ~ \/ \E v \in Wtm, s \in Service, w \in Wire : Adds(v, s, w)
             \/ \E v \in Wtm : RemoveEnd(v)
  <2>1. UNCHANGED <<announced, nextWire>>
    BY <1>4, WiresSame
  <2>2. \A r \in Reg : wireOf'[r] # None => wireOf'[r] = wireOf[r]
    BY <1>4, WireOfStep
  <2>3. \A x \in Wtm : leaving'[x] # None => leaving'[x] \in announced'[x]
    <3>1. ASSUME NEW v \in Wtm, NEW w \in Wire, RemoveCollect(v, w)
          PROVE  leaving' = [leaving EXCEPT ![v] = w] /\ w \in announced[v]
      BY <3>1 DEF RemoveCollect
    <3>2. CASE \E v \in Wtm, w \in Wire : RemoveCollect(v, w)
      <4>1. PICK v \in Wtm, w \in Wire : leaving' = [leaving EXCEPT ![v] = w] /\ w \in announced[v]
        BY <3>1, <3>2
      <4>2. \A x \in Wtm : leaving[x] # None => leaving[x] \in announced[x]
        BY DEF WireInv
      <4> QED
        BY <1>1, <2>1, <4>1, <4>2
    <3>3. CASE ~ \E v \in Wtm, w \in Wire : RemoveCollect(v, w)
      <4>1. UNCHANGED leaving
        BY <1>4, <3>3, AddsStep DEF Next, Running, ExportInstall, ExportPut, ExportGetWTMs,
           ExportRequest, EndpointAdded, EndpointRemoved, Close, WtmAddedList,
           WtmAddedLock, WtmAddedRequest, WtmAddedUnlock, WtmAnswers, WtmGone,
           NotifyListener, AddEnd, RemoveStop, ListenerAdded, ListenerTell,
           ListenerRemoved, ReceiveStart, ReceiveEnd, StopCollect, StopOne, StopEnd,
           UseAfterStop, Adds, RemoveRemote, vars
      <4> QED
        BY <2>1, <4>1 DEF WireInv
    <3> QED
      BY <3>2, <3>3
  <2> QED
    BY <2>1, <2>2, <2>3 DEF WireInv
<1> QED
  BY <1>2, <1>3, <1>4

\* the registrations of announced services, and the wires that their WTM has
ExportedRegs == {r \in Reg : ServiceOf[r] \in exported \ mute}
HadWires     == UNION {announced[v] : v \in Wtm}

\* the receive services are those of the wires that exported services have
LEMMA ReceiveStep ==
  ASSUME TypeOK, WireInv, FreshInv, TrackInv, [Next]_vars,
         receive \subseteq HadWires,
         \A r \in ExportedRegs : wireOf[r] \in HadWires => wireOf[r] \in receive
  PROVE  /\ receive' \subseteq HadWires'
         /\ \A r \in ExportedRegs' : wireOf'[r] \in HadWires' => wireOf'[r] \in receive'
<1>1. /\ announced \in [Wtm -> SUBSET Wire] /\ None \notin Wire
      /\ wireOf \in [Reg -> Wire \cup {None}]
  BY RsaExportAssumption DEF TypeOK
<1>2. ASSUME NEW r \in ExportedRegs', UNCHANGED <<wireOf, mute>>
      PROVE  r \in ExportedRegs \/ wireOf'[r] = None
  <2>1. r \in Reg /\ ServiceOf[r] \in exported' \ mute
    BY <1>2 DEF ExportedRegs
  <2>2. ASSUME NEW s \in Service, ExportPut(s), exported' = exported \cup {s},
               ServiceOf[r] \notin exported
        PROVE  wireOf'[r] = None
    <3>1. ServiceOf[r] = s /\ sPc[s] = "installed"
      BY <2>1, <2>2 DEF ExportPut
    <3> QED
      BY <1>2, <2>1, <3>1 DEF TrackInv
  <2> QED
    BY <2>1, <2>2, ExportedStep DEF ExportedRegs
<1>3. ASSUME NEW v \in Wtm, NEW s \in Service, NEW w \in Wire, Adds(v, s, w)
      PROVE  /\ receive' \subseteq HadWires'
             /\ \A r \in ExportedRegs' : wireOf'[r] \in HadWires' => wireOf'[r] \in receive'
  <2>1. HadWires' = HadWires \cup {w}
    <3>1. announced' = [announced EXCEPT ![v] = @ \cup {w}]
      BY <1>3, AddsStep
    <3> QED
      BY <1>1, <3>1 DEF HadWires
  <2>2. w \in HadWires \/ w = nextWire
    BY <1>3, AddNumbers DEF HadWires
  <2>3. UNCHANGED exported
    BY <1>3, AddsStep
  <2>4. \A r \in Reg : w = nextWire => wireOf[r] # w
    <3>1. \A r \in Reg : wireOf[r] # None => wireOf[r] < nextWire
      BY DEF WireInv
    <3>2. w # None /\ nextWire \in Nat
      BY <1>1, Numbers
    <3> QED
      BY <3>1, <3>2
  <2>5. CASE Gets(s, w) /\ receive' = receive \cup {w} /\ mute' = mute \ {s}
    <3>1. \A r \in ExportedRegs' : wireOf'[r] = w \/ (r \in ExportedRegs /\ wireOf'[r] = wireOf[r])
      BY <2>3, <2>5 DEF Gets, ExportedRegs, RegsOf
    <3> QED
      BY <2>1, <2>5, <3>1
  <2>6. CASE Gets(s, w) /\ receive' = receive /\ mute' = mute \cup {s}
    <3>1. \A r \in ExportedRegs' : r \in ExportedRegs /\ wireOf'[r] = wireOf[r]
      BY <2>3, <2>6 DEF Gets, ExportedRegs, RegsOf
    <3>2. \A r \in ExportedRegs : r \in Reg
      BY DEF ExportedRegs
    <3> QED
      BY <2>1, <2>2, <2>4, <2>6, <3>1, <3>2
  <2>7. CASE UNCHANGED <<wireOf, receive, mute>>
    BY <2>1, <2>2, <2>3, <2>4, <2>7 DEF ExportedRegs
  <2> QED
    BY <1>3, <2>5, <2>6, <2>7, AddsStep
<1>4. ASSUME NEW v \in Wtm, RemoveEnd(v)
      PROVE  /\ receive' \subseteq HadWires'
             /\ \A r \in ExportedRegs' : wireOf'[r] \in HadWires' => wireOf'[r] \in receive'
  <2>1. /\ announced' = [announced EXCEPT ![v] = @ \ {leaving[v]}]
        /\ receive' = receive \ {leaving[v]}
        /\ UNCHANGED <<wireOf, exported, mute>>
    BY <1>4 DEF RemoveEnd
  <2>2. \A x \in Wtm : announced'[x] = IF x = v THEN announced[x] \ {leaving[v]}
                                                ELSE announced[x]
    BY <1>1, <2>1
  <2>3. HadWires \ {leaving[v]} \subseteq HadWires' /\ HadWires' \subseteq HadWires
    BY <2>2 DEF HadWires
  <2>4. leaving[v] \in announced[v]
    BY <1>4 DEF RemoveEnd, WireInv
  <2>5. leaving[v] \notin HadWires'
    <3>1. \A x, y \in Wtm : x # y => announced[x] \cap announced[y] = {}
      BY DEF WireInv
    <3>2. \A x \in Wtm : leaving[v] \notin announced'[x]
      BY <2>2, <2>4, <3>1
    <3> QED
      BY <3>2 DEF HadWires
  <2> QED
    BY <2>1, <2>3, <2>5 DEF ExportedRegs
<1>5. CASE ~ \/ \E v \in Wtm, s \in Service, w \in Wire : Adds(v, s, w)
             \/ \E v \in Wtm : RemoveEnd(v)
  <2>1. UNCHANGED <<receive, mute, announced>> /\ HadWires' = HadWires
    BY <1>5, WiresSame DEF HadWires
  <2>2. None \notin HadWires
    BY <1>1 DEF HadWires
  <2>3. CASE UNCHANGED wireOf
    BY <1>2, <2>1, <2>2, <2>3
  <2>4. ASSUME NEW s \in Service, ExportInstall(s),
               wireOf' = [r \in Reg |-> IF r \in RegsOf(s) THEN None ELSE wireOf[r]]
        PROVE  \A r \in ExportedRegs' : wireOf'[r] \in HadWires' => wireOf'[r] \in receive'
    <3>1. UNCHANGED exported
      BY <2>4 DEF ExportInstall
    <3> QED
      BY <2>1, <2>2, <2>4, <3>1 DEF ExportedRegs
  <2> QED
    BY <1>5, <2>1, <2>3, <2>4, WireOfStep
<1> QED
  BY <1>3, <1>4, <1>5

\* a listener has something to be told of while its registration is handled
LEMMA ListedStep ==
  ASSUME TypeOK, TellInv, [Next]_vars
  PROVE  \A l \in Listener : toTell'[l] # {} <=> lPc'[l] = "listed"
<1>1. /\ lPc \in [Listener -> {"absent", "listed", "settled"}]
      /\ toTell \in [Listener -> SUBSET Service]
      /\ \A l \in Listener : toTell[l] # {} <=> lPc[l] = "listed"
  BY DEF TypeOK, TellInv
<1>2. ASSUME NEW x \in Listener, ListenerAdded(x)
      PROVE  \A l \in Listener : toTell'[l] # {} <=> lPc'[l] = "listed"
  BY <1>1, <1>2 DEF ListenerAdded
<1>3. ASSUME NEW x \in Listener, NEW s \in Service, ListenerTell(x, s)
      PROVE  \A l \in Listener : toTell'[l] # {} <=> lPc'[l] = "listed"
  <2>1. /\ s \in toTell[x] /\ toTell' = [toTell EXCEPT ![x] = @ \ {s}]
        /\ lPc' = IF toTell[x] = {s} THEN [lPc EXCEPT ![x] = "settled"] ELSE lPc
    BY <1>3 DEF ListenerTell
  <2>2. \A l \in Listener : l # x => toTell'[l] = toTell[l] /\ lPc'[l] = lPc[l]
    BY <1>1, <2>1
  <2>3. toTell'[x] # {} <=> lPc'[x] = "listed"
    <3>1. CASE toTell[x] = {s}
      BY <1>1, <2>1, <3>1
    <3>2. CASE toTell[x] # {s}
      BY <1>1, <2>1, <3>2
    <3> QED
      BY <3>1, <3>2
  <2> QED
    BY <1>1, <2>2, <2>3
<1>4. ASSUME NEW x \in Listener, ListenerRemoved(x)
      PROVE  \A l \in Listener : toTell'[l] # {} <=> lPc'[l] = "listed"
  BY <1>1, <1>4 DEF ListenerRemoved
<1>5. CASE ~ \E x \in Listener : \/ ListenerAdded(x) \/ ListenerRemoved(x)
                                 \/ \E s \in Service : ListenerTell(x, s)
  <2>1. UNCHANGED <<lPc, toTell>>
    BY <1>5, AddsStep DEF Next, Running, ExportInstall, ExportPut, ExportGetWTMs, ExportRequest,
       EndpointAdded, EndpointRemoved, Close, WtmAddedList, WtmAddedLock,
       WtmAddedRequest, WtmAddedUnlock, WtmAnswers, WtmGone, Adds, NotifyListener,
       AddEnd, RemoveCollect, RemoveRemote, RemoveStop, RemoveEnd, ReceiveStart,
       ReceiveEnd, StopCollect, StopOne, StopEnd, UseAfterStop, vars
  <2> QED
    BY <1>1, <2>1
<1> QED
  BY <1>2, <1>3, <1>4, <1>5

\* what a listener was told of stays covered by what it is told of
LEMMA CoveredStep ==
  ASSUME TypeOK, LockInv, FreshInv, TrackInv, TellInv, [Next]_vars,
         NEW l \in Listener, NEW r \in Reg, Covered(l, r)
  PROVE  Covered(l, r)'
<1> DEFINE s == ServiceOf[r]
<1>1. /\ s \in Service /\ None \notin Wire
      /\ lPc \in [Listener -> {"absent", "listed", "settled"}]
      /\ toTell \in [Listener -> SUBSET Service]
      /\ told \in [Listener -> SUBSET (Reg \X (Wire \cup {None}))]
  BY RsaExportAssumption DEF TypeOK
<1>2. ASSUME NEW x \in Listener, ListenerAdded(x)
      PROVE  Covered(l, r)'
  <2>1. /\ toTell' = [toTell EXCEPT ![x] = exported]
        /\ l # x => lPc'[l] = lPc[l]
        /\ UNCHANGED <<exported, mute, wireOf, adding, left, told>>
    BY <1>1, <1>2 DEF ListenerAdded
  <2>2. CASE l = x
    <3>1. toTell'[l] = exported'
      BY <1>1, <2>1, <2>2
    <3> QED
      BY <3>1 DEF Covered
  <2>3. CASE l # x
    <3>1. toTell'[l] = toTell[l] /\ lPc'[l] = lPc[l]
      BY <1>1, <2>1, <2>3
    <3>2. (Told(l, r) => Told(l, r)') /\ (Exempt(l, r) => Exempt(l, r)')
      BY <2>1 DEF Told, Exempt
    <3> QED
      BY <2>1, <3>1, <3>2 DEF Covered
  <2> QED
    BY <2>2, <2>3
<1>3. ASSUME NEW x \in Listener, NEW y \in Service, ListenerTell(x, y)
      PROVE  Covered(l, r)'
  <2>1. /\ toTell' = [toTell EXCEPT ![x] = @ \ {y}]
        /\ told' = [told EXCEPT ![x] = @ \cup {<<q, wireOf[q]>> : q \in RegsOf(y)}]
        /\ lPc[l] = "absent" => lPc'[l] = "absent" \/ l = x
        /\ UNCHANGED <<exported, mute, wireOf, addVars>>
    BY <1>1, <1>3 DEF ListenerTell
  <2>2. CASE l = x /\ s = y
    <3>1. r \in RegsOf(y)
      BY <2>2 DEF RegsOf
    <3> QED
      BY <1>1, <2>1, <2>2, <3>1 DEF Covered, Told
  <2>3. CASE ~(l = x /\ s = y)
    <3>1. s \in toTell[l] => s \in toTell'[l]
      BY <1>1, <2>1, <2>3
    <3>2. lPc'[l] # "absent" => lPc[l] # "absent"
      <4>1. lPc[x] = "listed"
        BY <1>3 DEF ListenerTell, TellInv
      <4> QED
        BY <2>1, <4>1
    <3>3. (Told(l, r) => Told(l, r)') /\ (Exempt(l, r) => Exempt(l, r)')
      <4>1. told[l] \subseteq told'[l]
        BY <1>1, <2>1
      <4> QED
        BY <2>1, <4>1 DEF Told, Exempt
    <3> QED
      BY <2>1, <3>1, <3>2, <3>3 DEF Covered
  <2> QED
    BY <2>2, <2>3
<1>4. CASE \E x \in Listener : ListenerRemoved(x)
  BY <1>1, <1>4 DEF ListenerRemoved, Covered, Told, Exempt
<1>5. ASSUME NEW x \in Listener, NotifyListener(x)
      PROVE  Covered(l, r)'
  <2>1. /\ x \in left /\ left' = left \ {x}
        /\ told' = [told EXCEPT ![x] = @ \cup (RegsOf(adding[2]) \X {adding[1]})]
        /\ UNCHANGED <<exported, mute, wireOf, adding, lPc, toTell>>
    BY <1>5 DEF NotifyListener
  <2>2. CASE l = x /\ adding[2] = s
    <3>1. adding # Idle
      BY <2>1 DEF LockInv
    <3>2. r \in RegsOf(adding[2]) /\ wireOf[r] = adding[1]
      BY <2>2, <3>1 DEF FreshInv, RegsOf
    <3>3. <<r, wireOf[r]>> \in told'[l]
      BY <1>1, <2>1, <2>2, <3>2
    <3> QED
      BY <2>1, <3>3 DEF Covered, Told
  <2>3. CASE ~(l = x /\ adding[2] = s)
    <3>1. Exempt(l, r) => Exempt(l, r)'
      BY <2>1, <2>3 DEF Exempt
    <3>2. Told(l, r) => Told(l, r)'
      BY <1>1, <2>1 DEF Told
    <3> QED
      BY <2>1, <3>1, <3>2 DEF Covered
  <2> QED
    BY <2>2, <2>3
<1>6. CASE AddEnd
  BY <1>6 DEF AddEnd, wireVars, Covered, Told, Exempt
<1>7. ASSUME NEW v \in Wtm, NEW y \in Service, NEW w \in Wire, Adds(v, y, w)
      PROVE  Covered(l, r)'
  <2>1. UNCHANGED <<exported, lPc, toTell, told>> /\ lock = None
    BY <1>7, AddsStep
  <2>2. left = {}
    BY <2>1 DEF LockInv, TypeOK
  <2>3. CASE Gets(y, w) /\ mute' = mute \ {y} /\ adding' = <<w, y>> /\ left' = Present
    <3>1. CASE s = y
      <4>1. lPc'[l] # "absent" => Exempt(l, r)'
        BY <2>1, <2>3, <3>1 DEF Exempt, Present
      <4> QED
        BY <4>1 DEF Covered
    <3>2. CASE s # y
      <4>1. wireOf'[r] = wireOf[r] /\ (s \in mute' <=> s \in mute)
        BY <2>3, <3>2 DEF Gets, RegsOf
      <4> QED
        BY <2>1, <2>2, <4>1 DEF Covered, Told, Exempt
    <3> QED
      BY <3>1, <3>2
  <2>4. CASE Gets(y, w) /\ mute' = mute \cup {y} /\ UNCHANGED addVars
    <3>1. CASE s = y
      BY <2>4, <3>1 DEF Covered
    <3>2. CASE s # y
      <4>1. wireOf'[r] = wireOf[r] /\ (s \in mute' <=> s \in mute)
        BY <2>4, <3>2 DEF Gets, RegsOf
      <4> QED
        BY <2>1, <2>4, <4>1 DEF Covered, Told, Exempt
    <3> QED
      BY <3>1, <3>2
  <2>5. CASE UNCHANGED <<wireOf, mute, addVars>>
    BY <2>1, <2>5 DEF Covered, Told, Exempt
  <2> QED
    BY <1>7, <2>3, <2>4, <2>5, AddsStep
<1>8. ASSUME NEW y \in Service, ExportInstall(y)
      PROVE  Covered(l, r)'
  <2>1. /\ UNCHANGED <<exported, mute, lVars, addVars>>
        /\ wireOf' = [q \in Reg |-> IF q \in RegsOf(y) THEN None ELSE wireOf[q]]
    BY <1>8 DEF ExportInstall, InstallEndpoints
  <2>2. wireOf'[r] = None \/ wireOf'[r] = wireOf[r]
    BY <2>1
  <2> QED
    BY <2>1, <2>2 DEF Covered, Told, Exempt
<1>9. CASE ~ \/ \E x \in Listener : \/ ListenerAdded(x) \/ ListenerRemoved(x)
                                    \/ NotifyListener(x)
                                    \/ \E y \in Service : ListenerTell(x, y)
             \/ \E v \in Wtm, y \in Service, w \in Wire : Adds(v, y, w)
             \/ \E y \in Service : ExportInstall(y)
             \/ AddEnd
  <2>1. UNCHANGED <<wireOf, mute, addVars, lVars>>
    BY <1>9 DEF Next, Running, ExportPut, ExportGetWTMs, ExportRequest, EndpointAdded,
       EndpointRemoved, Close, WtmAddedList, WtmAddedLock, WtmAddedRequest,
       WtmAddedUnlock, WtmAnswers, WtmGone, RemoveCollect, RemoveRemote, RemoveStop,
       RemoveEnd, ReceiveStart, ReceiveEnd, StopCollect, StopOne, StopEnd,
       UseAfterStop, Adds, vars
  <2>2. ASSUME NEW y \in Service, ExportPut(y), exported' = exported \cup {y}
        PROVE  s \in exported' => s \in exported \/ wireOf[r] = None
    BY <2>2 DEF ExportPut, TrackInv
  <2>3. s \in exported' => s \in exported \/ wireOf[r] = None
    BY <2>2, ExportedStep
  <2> QED
    BY <2>1, <2>3 DEF Covered, Told, Exempt
<1> QED
  BY <1>2, <1>3, <1>4, <1>5, <1>6, <1>7, <1>8, <1>9

LEMMA TellStep ==
  ASSUME TypeOK, LockInv, FreshInv, TrackInv, TellInv, [Next]_vars
  PROVE  TellInv'
<1>1. ASSUME fault' = "none", NEW l \in Listener, NEW r \in Reg
      PROVE  Covered(l, r)'
  <2>1. fault = "none"
    BY <1>1, NoFault DEF vars
  <2>2. Covered(l, r)
    BY <2>1 DEF TellInv
  <2> QED
    BY <2>2, CoveredStep
<1> QED
  BY <1>1, ListedStep DEF TellInv, Covered, Told, Exempt

\* once nothing is left to tell a listener of, it was told of everything
LEMMA AnnouncedStep ==
  ASSUME TypeOK, LockInv, WireInv, FreshInv, TrackInv, TellInv, AnnouncedExact, [Next]_vars
  PROVE  AnnouncedExact'
<1>1. /\ receive \subseteq HadWires
      /\ \A r \in ExportedRegs : wireOf[r] \in HadWires => wireOf[r] \in receive
  BY DEF AnnouncedExact, HadWires, ExportedRegs
<1>2. /\ receive' \subseteq HadWires'
      /\ \A r \in ExportedRegs' : wireOf'[r] \in HadWires' => wireOf'[r] \in receive'
  BY <1>1, ReceiveStep
<1>3. TellInv'
  BY TellStep
<1>4. ASSUME NEW l \in Listener, NEW r \in ExportedRegs', lPc'[l] = "settled",
             fault' = "none", wireOf'[r] # None, ~(l \in left' /\ adding'[2] = ServiceOf[r])
      PROVE  <<r, wireOf'[r]>> \in told'[l]
  <2>1. r \in Reg /\ ServiceOf[r] \in exported' \ mute'
    BY DEF ExportedRegs
  <2>2. Covered(l, r)' /\ toTell'[l] = {}
    BY <1>3, <1>4, <2>1 DEF TellInv, Covered, Told, Exempt
  <2> QED
    BY <1>4, <2>1, <2>2 DEF Covered, Told, Exempt
<1> QED
  BY <1>2, <1>4 DEF AnnouncedExact, HadWires, ExportedRegs

-----------------------------------------------------------------------------
(***************************************************************************)
(* The inductive invariant, and what follows from it.                      *)
(***************************************************************************)

LEMMA InitInv == ASSUME Init PROVE IInv
<1>1. MaxWire \in Nat /\ None \notin Wire /\ ServiceOf \in [Reg -> Service]
  BY RsaExportAssumption
<1>2. TypeOK
  <2>1. 1 \in 1..(MaxWire + 1)
    BY <1>1
  <2>2. nextWire = 1 /\ nextWire \in 1..(MaxWire + 1)
    BY <2>1 DEF Init
  <2>3. receive \subseteq 1..(nextWire - 1) /\ mute \subseteq Service
    BY DEF Init
  <2>4. /\ exported \subseteq Service
        /\ sPc \in [Service -> {"new", "installed", "put", "calling", "done"}]
        /\ targets \in [Service -> SUBSET Wtm]
        /\ wireOf \in [Reg -> Wire \cup {None}]
        /\ tracker \in [Reg -> {"none", "open", "destroyed"}]
        /\ endpoint \in [Reg -> {"none", "live", "stale"}]
        /\ closed \subseteq Reg /\ ahead \subseteq Reg
    BY DEF Init
  <2>5. /\ wtmPc \in [Wtm -> {"new", "listed", "exporting", "stuck", "up", "gone"}]
        /\ todo \subseteq Service /\ requested \subseteq Wtm \X Service
        /\ announced \in [Wtm -> SUBSET Wire]
        /\ adding \in (Wire \X Service) \cup {<<None, None>>} /\ left \subseteq Listener
        /\ leaving \in [Wtm -> Wire \cup {None}] /\ stopping \in [Wtm -> SUBSET Reg]
    BY DEF Init
  <2>6. /\ lPc \in [Listener -> {"absent", "listed", "settled"}]
        /\ toTell \in [Listener -> SUBSET Service]
        /\ told \in [Listener -> SUBSET (Reg \X (Wire \cup {None}))]
        /\ serving \subseteq Worker /\ toStop \subseteq Reg
        /\ admin = "running" /\ fault = "none" /\ lock \in Wtm \cup {None}
    BY DEF Init
  <2>7. lock # None <=>
          adding # <<None, None>> \/ \E v \in Wtm : wtmPc[v] \in {"exporting", "stuck"}
    BY DEF Init
  <2> QED
    BY <2>2, <2>3, <2>4, <2>5, <2>6, <2>7 DEF TypeOK
<1>3. LockInv
  BY DEF Init, LockInv, Walking, Idle
<1>4. WalkInv /\ NoLostRequest /\ WireInv
  BY DEF Init, WalkInv, NoLostRequest, WireInv
<1>5. FreshInv /\ TrackInv
  BY <1>1 DEF Init, FreshInv, TrackInv, Fresh
<1>6. TellInv
  BY DEF Init, TellInv, Covered
<1>7. AnnouncedExact /\ StaleOnlyEarly
  BY DEF Init, AnnouncedExact, StaleOnlyEarly
<1> QED
  BY <1>2, <1>3, <1>4, <1>5, <1>6, <1>7 DEF IInv

LEMMA NextInv == ASSUME IInv, [Next]_vars PROVE IInv'
<1>1. TypeOK' /\ LockInv'
  BY TypeStep DEF IInv
<1>2. WalkInv' /\ NoLostRequest'
  BY WalkStep DEF IInv
<1>3. WireInv' /\ FreshInv' /\ TrackInv' /\ StaleOnlyEarly'
  BY WireStep, FreshInvStep, TrackInvStep, StaleStep DEF IInv
<1>4. TellInv' /\ AnnouncedExact'
  BY TellStep, AnnouncedStep DEF IInv
<1> QED
  BY <1>1, <1>2, <1>3, <1>4 DEF IInv

LEMMA Inductive == Spec => []IInv
BY InitInv, NextInv, PTL DEF Spec

(* Every variable keeps its type, and exportedServicesLock is held exactly  *)
(* while wtmAdded walks over exportedServices or an announcement is made;   *)
(* the walk that waits for ever for a WTM that answers keeps it.            *)
THEOREM TypeCorrect == Spec => []TypeOK
<1>1. IInv => TypeOK
  BY DEF IInv
<1> QED
  BY <1>1, Inductive, PTL

(* However exportService, which puts a service in the map and then looks    *)
(* up the WTMs, meets wtmAdded, which lists the WTM and then walks over the *)
(* map: a WTM that has been handled was asked for every exported service,   *)
(* or exportService is going to ask it.                                     *)
THEOREM RequestNeverLost == Spec => []NoLostRequest
<1>1. IInv => NoLostRequest
  BY DEF IInv
<1> QED
  BY <1>1, Inductive, PTL

(* However the walk of the endpoint listener tracker meets the              *)
(* announcements, the new exports and the withdrawals: a listener that has  *)
(* been handled was told of every exported service with the wire it has     *)
(* now, and the receive services are those of the wires that were not       *)
(* withdrawn and that exported services have.  Both leave out the services  *)
(* whose last wire could not get a receive service.                         *)
THEOREM AnnouncementsExact == Spec => []AnnouncedExact
<1>1. IInv => AnnouncedExact
  BY DEF IInv
<1> QED
  BY <1>1, Inductive, PTL

(* In whatever order endpoints come and go, exports are closed, wires are   *)
(* withdrawn and the bundle stops: an exported service has a stopped        *)
(* tracker, or an endpoint service that has gone, only if that happened     *)
(* before exportService put it in the map or without an endpoint service.   *)
THEOREM StaleOnlyIfEarly == Spec => []StaleOnlyEarly
<1>1. IInv => StaleOnlyEarly
  BY DEF IInv
<1> QED
  BY <1>1, Inductive, PTL
=============================================================================
