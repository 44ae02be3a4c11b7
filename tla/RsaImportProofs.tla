--------------------------- MODULE RsaImportProofs ---------------------------
(***************************************************************************)
(* Proofs about RsaImport, for any imports, interfaces, WTMs, send         *)
(* services and callers: the types, the entries of importedServices and    *)
(* their proxies, that no import is lost, the locks, and the table of send *)
(* services.                                                               *)
(***************************************************************************)
EXTENDS RsaImport, FiniteSetTheorems, TLAPS

(***************************************************************************)
(* The inductive invariant.                                                *)
(***************************************************************************)

\* importedServicesLock is held over several steps only by wtmAdded, which
\* walks a part of the entries
LockInv ==
  /\ lock \in Wtm \cup {None}
  /\ \A v \in Wtm : wtmPc[v] = "importing" <=> lock = v
  /\ todo \subseteq imported /\ (lock = None => todo = {})

\* only a WTM with its trackers open has wires and announces them, while the
\* bundle can be called its listener is registered, and nothing is imported
\* before a WTM has been handled
WtmInv ==
  /\ \A v \in Wtm : ~Ready(v) => wires[v] = {} /\ ~Busy(v)
  /\ imported # {} => \E v \in Wtm : wtmPc[v] \in {"up", "gone"}
  /\ phase \in {"running", "unpublished", "stopped", "freed"} => listener
  /\ phase = "created" => imported = {}

\* an entry has been imported; a WTM that was asked for it keeps the request
\* until the wire is usable, or withdraws the wire just now
AskedInv ==
  /\ \A e \in Import : iPc[e] \in {"new", "failed"} =>
       e \notin imported /\ \A v \in Wtm : <<v, e>> \notin named
  /\ fault = "none" /\ phase = "running" =>
       \A v \in Wtm, e \in imported :
         <<v, e>> \in named /\ wtmPc[v] # "gone" /\ WireOf[e] \notin wires[v] =>
           <<e, TRUE>> \in waiting[v] \/ removing[v] = WireOf[e] \/ <<v, e>> \in lost

\* an entry has as many registrations as it was given, by its import and by
\* each WTM whose walk has passed it, or fewer
Passed(e) ==
  {v \in Wtm : wtmPc[v] \in {"up", "gone"} \/ (wtmPc[v] = "importing" /\ e \notin todo)}

CountInv ==
  \A e \in Import :
    regs[e] <= Cardinality(Passed(e)) + (IF iPc[e] = "new" THEN 0 ELSE 1)

\* a send service is in the table for its own wire
SendInv == \A w \in Wire : sendServices[w] # None => SendWire[sendServices[w]] = w

IInv ==
  /\ TypeOK /\ LockInv /\ WtmInv /\ AskedInv /\ CountInv /\ SendInv
  /\ EntriesExact /\ NoLostImport /\ SendAlive

USE DEF busVars, impVars, pxVars, callVars, wtmVars, wireVars, sendVars

-----------------------------------------------------------------------------
(***************************************************************************)
(* What the helpers of the actions do.                                     *)
(***************************************************************************)

\* An entry that goes takes its own proxy along; the others keep their
\* factory, their registrations and their proxies.
LEMMA DropFacts ==
  ASSUME TypeOK, EntriesExact, fault = "none", NEW e \in imported, Drop(e)
  PROVE  /\ imported' = imported \ {e}
         /\ factory' \subseteq factory /\ mine' \subseteq factory'
         /\ regs' \in [Import -> 0..(Cardinality(Wtm) + 1)]
         /\ \A f \in Import : regs'[f] <= regs[f]
         /\ bundle' \in [Interface -> {"none", "stopped", "started"}]
         /\ proxies' \subseteq proxies \ {e} /\ stray' \subseteq stray
         /\ \A f \in imported' : /\ InterfaceOf[f] \in factory' /\ regs'[f] > 0
                                 /\ f \in proxies => f \in proxies'
<1> DEFINE i == InterfaceOf[e]
           R == [regs EXCEPT ![e] = @ - 1]
           last == OfIntf(i) \cap imported = {e}
<1>1. /\ e \in Import /\ i \in Interface /\ regs[e] \in Nat /\ regs[e] > 0
      /\ imported \subseteq Import
  BY RsaImportAssumption DEF TypeOK, EntriesExact
<1>2. /\ R \in [Import -> 0..(Cardinality(Wtm) + 1)]
      /\ \A f \in Import : R[f] <= regs[f]
      /\ \A f \in Import : f # e => R[f] = regs[f]
  <2>1. Cardinality(Wtm) \in Nat
    BY RsaImportAssumption, FS_CardinalityType
  <2> QED
    BY <1>1, <2>1 DEF TypeOK
<1>3. \A f \in imported \ {e} : /\ R[f] > 0 /\ InterfaceOf[f] \in factory
                                /\ f \in OfIntf(i) => ~last
  BY <1>1, <1>2 DEF EntriesExact
<1>4. regs' = IF last THEN [f \in Import |-> IF f \in OfIntf(i) THEN 0 ELSE R[f]] ELSE R
  BY DEF Drop
<1>5. imported' = imported \ {e}
  BY DEF Drop
<1>6. \A f \in imported' : regs'[f] = R[f]
  BY <1>1, <1>3, <1>4, <1>5
<1>7. /\ regs' \in [Import -> 0..(Cardinality(Wtm) + 1)]
      /\ \A f \in Import : regs'[f] <= regs[f]
  <2>1. Cardinality(Wtm) \in Nat
    BY RsaImportAssumption, FS_CardinalityType
  <2>2. \A f \in Import : regs[f] \in Nat
    BY <2>1 DEF TypeOK
  <2> QED
    BY <1>2, <1>4, <2>1, <2>2
<1>8. CASE \A f \in OfIntf(i) : R[f] = 0
  <2>1. CloseFactory(i, Unregister(e))
    BY <1>8 DEF Drop
  <2>2. \A f \in imported \ {e} : f \notin OfIntf(i)
    BY <1>3, <1>8
  <2>3. \A f \in imported \ {e} : InterfaceOf[f] # i
    BY <1>1, <2>2 DEF OfIntf
  <2> QED
    BY <1>1, <1>3, <1>5, <1>6, <1>7, <2>1, <2>2, <2>3
       DEF CloseFactory, Unregister, TypeOK
<1>9. CASE ~ \A f \in OfIntf(i) : R[f] = 0
  <2>1. /\ proxies' = proxies \ {e} /\ mine' = mine \cap factory'
        /\ factory' = IF last THEN factory \ {i} ELSE factory
        /\ UNCHANGED <<bundle, stray>>
    BY <1>9 DEF Drop, Unregister
  <2>2. last => \A f \in imported \ {e} : InterfaceOf[f] # i
    BY <1>1 DEF OfIntf
  <2> QED
    BY <1>3, <1>5, <1>6, <1>7, <2>1, <2>2 DEF TypeOK
<1> QED
  BY <1>8, <1>9

\* A table of sets with one more element in one of them.
LEMMA AddTo ==
  ASSUME NEW S, NEW T, NEW f \in [S -> SUBSET T], NEW x \in S, NEW y \in T
  PROVE  [f EXCEPT ![x] = @ \cup {y}] \in [S -> SUBSET T]
OBVIOUS

LEMMA RegsNat == ASSUME TypeOK PROVE \A e \in Import : regs[e] \in Nat
<1>1. Cardinality(Wtm) \in Nat
  BY RsaImportAssumption, FS_CardinalityType
<1>2. regs \in [Import -> 0..(Cardinality(Wtm) + 1)]
  BY DEF TypeOK
<1> QED
  BY <1>1, <1>2

\* How many WTMs have passed an entry.
LEMMA PassedBound ==
  ASSUME NEW e
  PROVE  /\ IsFiniteSet(Passed(e)) /\ Cardinality(Passed(e)) \in 0..Cardinality(Wtm)
         /\ (\E v \in Wtm : v \notin Passed(e)) => Cardinality(Passed(e)) < Cardinality(Wtm)
<1>1. Passed(e) \in SUBSET Wtm
  BY DEF Passed
<1>2. IsFiniteSet(Wtm) /\ Cardinality(Wtm) \in Nat
  BY RsaImportAssumption, FS_CardinalityType
<1>3. /\ IsFiniteSet(Passed(e)) /\ Cardinality(Passed(e)) <= Cardinality(Wtm)
      /\ Cardinality(Wtm) = Cardinality(Passed(e)) => Wtm = Passed(e)
  BY <1>1, <1>2, FS_Subset
<1>4. Cardinality(Passed(e)) \in Nat
  BY <1>3, FS_CardinalityType
<1> QED
  BY <1>2, <1>3, <1>4

-----------------------------------------------------------------------------
(***************************************************************************)
(* The types.                                                              *)
(***************************************************************************)

\* the steps that leave importedServices and the proxies alone
Aside ==
  \/ StartListener \/ StartTracker
  \/ \E e \in Import : ImportFails(e) \/ ImportReturn(e)
  \/ \E e \in Import, v \in Wtm : ImportCall(e, v)
  \/ \E v \in Wtm, w \in Wire : WtmWireUp(v, w) \/ WtmWireDown(v, w)
  \/ \E v \in Wtm : WtmGone(v) \/ WtmAddedList(v) \/ WtmAddedLock(v) \/ WtmAddedUnlock(v)
  \/ \E x \in SendService : SendServiceAdded(x) \/ SendServiceRemoved(x)
  \/ \E c \in Caller, e \in Import : SendStart(c, e)
  \/ \E c \in Caller : SendEnd(c)
  \/ StopUnpublish \/ Destroy \/ StopListener
  \/ UNCHANGED vars

LEMMA AsideSame ==
  ASSUME Aside
  PROVE  /\ UNCHANGED <<impVars, proxies, stray, fell>>
         /\ \/ UNCHANGED bundle
            \/ \E i : bundle' = [bundle EXCEPT ![i] = "none"]
BY DEF Aside, StartListener, StartTracker, ImportFails, ImportReturn, ImportCall,
   WtmWireUp, WtmWireDown, WtmGone, WtmAddedList, WtmAddedLock, WtmAddedUnlock,
   SendServiceAdded, SendServiceRemoved, SendStart, SendEnd, StopUnpublish, Destroy,
   StopListener, vars

\* the others, one by one
LEMMA Others ==
  ASSUME [Next]_vars, ~Aside
  PROVE  \/ \E i \in Interface : ProxyStopped(i) \/ ProxyStarted(i)
         \/ \E e \in Import : ImportBegin(e) \/ Close(e)
         \/ \E e \in Import, v \in Wtm : AddWiringEndpoint(v, e) \/ WtmAddedRequest(v, e)
         \/ \E v \in Wtm : RemoveWiringEndpoint(v)
         \/ Stop
BY DEF Next, Aside

TypeFault == fault \in {"none", "freed WTM", "freed admin", "freed factory",
                        "freed description", "no proxy factory",
                        "no requested service", "map changed while read"}

LEMMA FaultType == ASSUME TypeFault, [Next]_vars PROVE TypeFault'
<1>1. CASE Aside
  <2>1. CASE \/ \E e \in Import : ImportFails(e)
             \/ \E e \in Import, v \in Wtm : ImportCall(e, v)
             \/ \E v \in Wtm, w \in Wire : WtmWireUp(v, w)
             \/ \E v \in Wtm : WtmAddedList(v) \/ WtmAddedLock(v)
             \/ \E c \in Caller, e \in Import : SendStart(c, e)
    BY <2>1 DEF ImportFails, ImportCall, WtmWireUp, WtmAddedList, WtmAddedLock, SendStart,
       Walk, TypeFault
  <2>2. CASE \/ StartListener \/ StartTracker \/ StopUnpublish \/ Destroy \/ StopListener
             \/ \E e \in Import : ImportReturn(e)
             \/ \E v \in Wtm, w \in Wire : WtmWireDown(v, w)
             \/ \E v \in Wtm : WtmGone(v) \/ WtmAddedUnlock(v)
             \/ \E x \in SendService : SendServiceAdded(x) \/ SendServiceRemoved(x)
             \/ \E c \in Caller : SendEnd(c)
             \/ UNCHANGED vars
    <3>1. UNCHANGED fault
      BY <2>2 DEF StartListener, StartTracker, ImportReturn, WtmWireDown, WtmGone,
         WtmAddedUnlock, SendServiceAdded, SendServiceRemoved, SendEnd, StopUnpublish,
         Destroy, StopListener, vars
    <3> QED
      BY <3>1 DEF TypeFault
  <2> QED
    BY <1>1, <2>1, <2>2 DEF Aside
<1>2. CASE \/ \E i \in Interface : ProxyStopped(i) \/ ProxyStarted(i)
           \/ \E e \in Import, v \in Wtm : WtmAddedRequest(v, e)
  <2>1. UNCHANGED fault
    BY <1>2 DEF ProxyStopped, ProxyStarted, WtmAddedRequest
  <2> QED
    BY <2>1 DEF TypeFault
<1>3. CASE \/ \E e \in Import : ImportBegin(e) \/ Close(e)
           \/ \E e \in Import, v \in Wtm : AddWiringEndpoint(v, e)
  BY <1>3 DEF ImportBegin, Close, AddWiringEndpoint, Walk, TypeFault
<1>4. CASE Stop \/ \E v \in Wtm : RemoveWiringEndpoint(v)
  BY <1>4 DEF RemoveWiringEndpoint, Stop, TypeFault
<1> QED
  BY <1>1, <1>2, <1>3, <1>4, Others

LEMMA AsideType == ASSUME TypeOK, Aside PROVE TypeOK'
<1>1. /\ UNCHANGED <<impVars, proxies, stray, fell>>
      /\ bundle' \in [Interface -> {"none", "stopped", "started"}]
  BY AsideSame DEF TypeOK
<1>2. TypeFault'
  <2>1. [Next]_vars
    BY Zenon DEF Aside, Next
  <2> QED
    BY <2>1, FaultType DEF TypeFault, TypeOK
<1>3. CASE StartListener \/ StartTracker \/ StopUnpublish \/ Destroy \/ StopListener
  BY <1>1, <1>2, <1>3 DEF StartListener, StartTracker, StopUnpublish, Destroy, StopListener,
     TypeOK, TypeFault
<1>4. ASSUME NEW e \in Import, ImportFails(e) \/ ImportReturn(e) PROVE TypeOK'
  <2>1. CASE ImportFails(e)
    BY <1>1, <1>2, <2>1 DEF ImportFails, TypeOK, TypeFault
  <2>2. CASE ImportReturn(e)
    BY <1>1, <1>2, <2>2 DEF ImportReturn, TypeOK, TypeFault
  <2> QED
    BY <1>4, <2>1, <2>2
<1>5. ASSUME NEW e \in Import, NEW v \in Wtm, ImportCall(e, v) PROVE TypeOK'
  <2>1. adding' \in [Wtm -> SUBSET Import] /\ named' \subseteq Wtm \X Import
    <3>1. <<v, e>> \in Wtm \X Import
      OBVIOUS
    <3>2. adding' \in [Wtm -> SUBSET Import]
      <4>1. \/ adding' = adding
            \/ adding' = [adding EXCEPT ![v] = {e}]
            \/ adding' = [adding EXCEPT ![v] = {}]
        BY <1>5 DEF ImportCall
      <4>2. adding \in [Wtm -> SUBSET Import]
        BY DEF TypeOK
      <4> QED
        BY <4>1, <4>2
    <3>3. named' = named \cup {<<v, e>>} /\ named \subseteq Wtm \X Import
      BY <1>5 DEF ImportCall, TypeOK
    <3> QED
      BY <3>1, <3>2, <3>3
  <2>2. waiting' \in [Wtm -> SUBSET (Import \X BOOLEAN)]
    <3>1. <<e, TRUE>> \in Import \X BOOLEAN
      OBVIOUS
    <3>2. \/ waiting' = waiting
          \/ waiting' = [waiting EXCEPT ![v] = @ \cup {<<e, TRUE>>}]
      BY <1>5 DEF ImportCall
    <3>3. waiting \in [Wtm -> SUBSET (Import \X BOOLEAN)]
      BY DEF TypeOK
    <3>4. [waiting EXCEPT ![v] = @ \cup {<<e, TRUE>>}] \in [Wtm -> SUBSET (Import \X BOOLEAN)]
      BY <3>1, <3>3, AddTo
    <3> QED
      BY <3>2, <3>3, <3>4
  <2>3. iPc' \in [Import -> {"new", "calling", "called", "done", "failed", "closed"}]
        /\ targets' \in [Import -> SUBSET Wtm]
    BY <1>5 DEF ImportCall, TypeOK
  <2> QED
    BY <1>1, <1>2, <1>5, <2>1, <2>2, <2>3 DEF ImportCall, TypeOK, TypeFault
<1>6. ASSUME NEW v \in Wtm, NEW w \in Wire, WtmWireUp(v, w) \/ WtmWireDown(v, w)
      PROVE  TypeOK'
  <2>1. CASE WtmWireUp(v, w)
    <3>1. {r[1] : r \in {x \in waiting[v] : WireOf[x[1]] = w}} \subseteq Import
      <4>1. waiting[v] \subseteq Import \X BOOLEAN
        BY DEF TypeOK
      <4>2. \A r \in Import \X BOOLEAN : r[1] \in Import
        OBVIOUS
      <4> QED
        BY <4>1, <4>2
    <3>2. adding' \in [Wtm -> SUBSET Import] /\ wires' \in [Wtm -> SUBSET Wire]
      BY <2>1, <3>1 DEF WtmWireUp, TypeOK
    <3>3. waiting' \in [Wtm -> SUBSET (Import \X BOOLEAN)]
      <4>1. PICK R : waiting' = [waiting EXCEPT ![v] = @ \ R]
        BY <2>1 DEF WtmWireUp
      <4>2. waiting \in [Wtm -> SUBSET (Import \X BOOLEAN)]
        BY DEF TypeOK
      <4> QED
        BY <4>1, <4>2
    <3>4. lost' \subseteq Wtm \X Import
      <4>1. PICK F \in SUBSET waiting[v] : lost' = lost \cup {<<v, x[1]>> : x \in F}
        BY <2>1 DEF WtmWireUp
      <4>2. F \subseteq Import \X BOOLEAN /\ lost \subseteq Wtm \X Import
        BY DEF TypeOK
      <4>3. \A x \in Import \X BOOLEAN : <<v, x[1]>> \in Wtm \X Import
        OBVIOUS
      <4> QED
        BY <4>1, <4>2, <4>3
    <3> QED
      BY <1>1, <1>2, <2>1, <3>2, <3>3, <3>4 DEF WtmWireUp, TypeOK, TypeFault
  <2>2. CASE WtmWireDown(v, w)
    BY <1>1, <1>2, <2>2 DEF WtmWireDown, TypeOK, TypeFault
  <2> QED
    BY <1>6, <2>1, <2>2
<1>7. ASSUME NEW v \in Wtm, WtmGone(v) \/ WtmAddedList(v) \/ WtmAddedUnlock(v)
      PROVE  TypeOK'
  <2>1. CASE WtmGone(v)
    <3>1. wires' \in [Wtm -> SUBSET Wire]
      BY <2>1 DEF WtmGone, TypeOK
    <3>2. waiting' \in [Wtm -> SUBSET (Import \X BOOLEAN)]
      BY <2>1 DEF WtmGone, TypeOK
    <3>3. wtmPc' \in [Wtm -> {"new", "listed", "importing", "up", "gone"}]
      BY <2>1 DEF WtmGone, TypeOK
    <3> QED
      BY <1>1, <1>2, <2>1, <3>1, <3>2, <3>3 DEF WtmGone, TypeOK, TypeFault
  <2>2. CASE WtmAddedList(v)
    <3>1. wtmPc' \in [Wtm -> {"new", "listed", "importing", "up", "gone"}]
      BY <2>2 DEF WtmAddedList, TypeOK
    <3> QED
      BY <1>1, <1>2, <2>2, <3>1 DEF WtmAddedList, TypeOK, TypeFault
  <2>3. CASE WtmAddedUnlock(v)
    <3>1. wtmPc' \in [Wtm -> {"new", "listed", "importing", "up", "gone"}]
      BY <2>3 DEF WtmAddedUnlock, TypeOK
    <3> QED
      BY <1>1, <1>2, <2>3, <3>1 DEF WtmAddedUnlock, TypeOK, TypeFault
  <2> QED
    BY <1>7, <2>1, <2>2, <2>3
<1>8. ASSUME NEW v \in Wtm, WtmAddedLock(v) PROVE TypeOK'
  <2>1. wtmPc' \in [Wtm -> {"new", "listed", "importing", "up", "gone"}]
    BY <1>8 DEF WtmAddedLock, TypeOK
  <2>2. todo' \subseteq Import /\ failing' \in BOOLEAN /\ lock' \in Wtm
    BY <1>8 DEF WtmAddedLock, TypeOK
  <2>3. UNCHANGED <<busVars, callVars, wireVars, sendVars, untracked>>
    BY <1>8 DEF WtmAddedLock
  <2> QED
    BY <1>1, <1>2, <2>1, <2>2, <2>3 DEF TypeOK, TypeFault
<1>9. ASSUME NEW x \in SendService, SendServiceAdded(x) \/ SendServiceRemoved(x)
      PROVE  TypeOK'
  <2>1. /\ sendPc' \in [SendService -> {"down", "up"}]
        /\ sendServices' \in [Wire -> SendService \cup {None}]
    BY <1>9 DEF SendServiceAdded, SendServiceRemoved, TypeOK
  <2>2. UNCHANGED <<busVars, callVars, lock, wtmVars, wireVars, sending, untracked>>
    BY <1>9 DEF SendServiceAdded, SendServiceRemoved
  <2> QED
    BY <1>1, <1>2, <2>1, <2>2 DEF TypeOK, TypeFault
<1>10. ASSUME NEW c \in Caller, NEW e \in Import, SendStart(c, e) PROVE TypeOK'
  <2>1. sendServices[WireOf[e]] \in SendService \cup {None}
    BY RsaImportAssumption DEF TypeOK
  <2> QED
    BY <1>1, <1>2, <1>10, <2>1 DEF SendStart, TypeOK, TypeFault
<1>11. ASSUME NEW c \in Caller, SendEnd(c) PROVE TypeOK'
  BY <1>1, <1>2, <1>11 DEF SendEnd, TypeOK, TypeFault
<1>12. CASE UNCHANGED vars
  BY <1>12 DEF vars, TypeOK
<1> QED
  BY <1>3, <1>4, <1>5, <1>6, <1>7, <1>8, <1>9, <1>10, <1>11, <1>12 DEF Aside

LEMMA TypeStep ==
  ASSUME TypeOK, LockInv, CountInv, EntriesExact, [Next]_vars
  PROVE  TypeOK'
<1>1. TypeFault'
  BY FaultType DEF TypeFault, TypeOK
<1>2. Cardinality(Wtm) \in Nat
  BY RsaImportAssumption, FS_CardinalityType
<1>3. CASE Aside
  BY <1>3, AsideType
<1>4. ASSUME NEW i \in Interface, ProxyStopped(i) \/ ProxyStarted(i) PROVE TypeOK'
  BY <1>1, <1>4 DEF ProxyStopped, ProxyStarted, ProxiesGone, TypeOK, TypeFault
<1>5. ASSUME NEW e \in Import, ImportBegin(e) PROVE TypeOK'
  <2>1. /\ factory' \subseteq Interface /\ mine' \subseteq factory'
        /\ bundle' \in [Interface -> {"none", "stopped", "started"}]
    <3>1. InterfaceOf[e] \in Interface
      BY RsaImportAssumption
    <3>2. CASE InterfaceOf[e] \in factory
      BY <1>5, <3>1, <3>2 DEF ImportBegin, TypeOK
    <3>3. CASE InterfaceOf[e] \notin factory
      BY <1>5, <3>1, <3>3 DEF ImportBegin, Install, TypeOK
    <3> QED
      BY <3>2, <3>3
  <2>2. regs[e] <= Cardinality(Wtm)
    BY <1>2, <1>5, PassedBound DEF ImportBegin, CountInv, TypeOK
  <2>3. regs' \in [Import -> 0..(Cardinality(Wtm) + 1)]
    BY <1>2, <1>5, <2>2 DEF ImportBegin, TypeOK
  <2> QED
    BY <1>1, <1>5, <2>1, <2>3 DEF ImportBegin, Listed, TypeOK, TypeFault
<1>6. ASSUME NEW e \in Import, Close(e) PROVE TypeOK'
  <2>1. CASE e \in imported /\ Tracked(e)
    <3>1. Drop(e) /\ UNCHANGED <<fell, untracked>>
      BY <1>6, <2>1 DEF Close
    <3> QED
      BY <1>1, <1>6, <2>1, <3>1, DropFacts DEF Close, TypeOK, TypeFault
  <2>2. CASE ~(e \in imported /\ Tracked(e))
    BY <1>1, <1>6, <2>2 DEF Close, TypeOK, TypeFault
  <2> QED
    BY <2>1, <2>2
<1>7. ASSUME NEW e \in Import, NEW v \in Wtm, AddWiringEndpoint(v, e) PROVE TypeOK'
  <2>1. proxies' \subseteq Import /\ stray' \subseteq Import
    <3>1. RegisterProxies({e}) \/ UNCHANGED <<proxies, stray>>
      BY <1>7 DEF AddWiringEndpoint
    <3>2. proxies \subseteq Import /\ stray \subseteq Import
      BY DEF TypeOK
    <3> QED
      BY <3>1, <3>2 DEF RegisterProxies
  <2>2. adding' \in [Wtm -> SUBSET Import]
    BY <1>7 DEF AddWiringEndpoint, TypeOK
  <2>3. /\ UNCHANGED <<busVars, impVars, bundle, fell, callVars, lock, wtmVars, wires>>
        /\ UNCHANGED <<waiting, removing, named, lost, sendVars, untracked>>
    BY <1>7 DEF AddWiringEndpoint
  <2> QED
    BY <1>1, <2>1, <2>2, <2>3
       DEF TypeOK, TypeFault, busVars, impVars, callVars, wtmVars, sendVars
<1>8. ASSUME NEW e \in Import, NEW v \in Wtm, WtmAddedRequest(v, e) PROVE TypeOK'
  <2>1. proxies' \subseteq Import /\ stray' \subseteq Import /\ failing' \in BOOLEAN
    BY <1>8 DEF WtmAddedRequest, RegisterProxies, TypeOK
  <2>2. regs[e] <= Cardinality(Wtm)
    <3>1. v \notin Passed(e)
      BY <1>8 DEF WtmAddedRequest, Passed
    <3>2. /\ Cardinality(Passed(e)) < Cardinality(Wtm)
          /\ Cardinality(Passed(e)) \in 0..Cardinality(Wtm)
      BY <3>1, PassedBound
    <3>3. regs[e] \in Nat
      BY RegsNat
    <3>4. regs[e] <= Cardinality(Passed(e)) + (IF iPc[e] = "new" THEN 0 ELSE 1)
      BY DEF CountInv
    <3> HIDE DEF Passed
    <3> QED
      BY <1>2, <3>2, <3>3, <3>4
  <2>3. regs' \in [Import -> 0..(Cardinality(Wtm) + 1)]
    BY <1>2, <1>8, <2>2 DEF WtmAddedRequest, TypeOK
  <2> QED
    <3>1. waiting' \in [Wtm -> SUBSET (Import \X BOOLEAN)]
      <4>1. <<e, FALSE>> \in Import \X BOOLEAN
        OBVIOUS
      <4>2. \/ waiting' = waiting
            \/ waiting' = [waiting EXCEPT ![v] = @ \cup {<<e, FALSE>>}]
        BY <1>8 DEF WtmAddedRequest
      <4>3. waiting \in [Wtm -> SUBSET (Import \X BOOLEAN)]
        BY DEF TypeOK
      <4>4. [waiting EXCEPT ![v] = @ \cup {<<e, FALSE>>}]
              \in [Wtm -> SUBSET (Import \X BOOLEAN)]
        BY <4>1, <4>3, AddTo
      <4> QED
        BY <4>2, <4>3, <4>4
    <3> QED
      BY <1>1, <1>8, <2>1, <2>3, <3>1 DEF WtmAddedRequest, TypeOK, TypeFault
<1>9. ASSUME NEW v \in Wtm, RemoveWiringEndpoint(v) PROVE TypeOK'
  <2>1. CASE \E e \in imported : Drop(e)
    BY <1>1, <1>9, <2>1, DropFacts DEF RemoveWiringEndpoint, TypeOK, TypeFault
  <2>2. CASE UNCHANGED <<impVars, bundle, proxies, stray>>
    BY <1>1, <1>9, <2>2 DEF RemoveWiringEndpoint, TypeOK, TypeFault
  <2> QED
    BY <1>9, <2>1, <2>2 DEF RemoveWiringEndpoint
<1>10. CASE Stop
  <2>1. /\ regs' \in [Import -> 0..(Cardinality(Wtm) + 1)]
        /\ bundle' \in [Interface -> {"none", "stopped", "started"}]
        /\ proxies' \subseteq Import /\ stray' \subseteq Import
    <3>1. 0 \in 0..(Cardinality(Wtm) + 1)
      BY <1>2
    <3>2. /\ regs' = [e \in Import |-> 0]
          /\ bundle' = [i \in Interface |-> IF i \in mine THEN "none" ELSE bundle[i]]
          /\ proxies' \subseteq proxies /\ stray' \subseteq stray
      BY <1>10 DEF Stop
    <3> QED
      BY <3>1, <3>2 DEF TypeOK
  <2> QED
    BY <1>1, <1>10, <2>1 DEF Stop, TypeOK, TypeFault
<1> QED
  BY <1>3, <1>4, <1>5, <1>6, <1>7, <1>8, <1>9, <1>10, Others

-----------------------------------------------------------------------------
(***************************************************************************)
(* The locks, and the WTMs.                                                *)
(***************************************************************************)

\* which steps touch the lock and what it guards
LEMMA LockStep ==
  ASSUME TypeOK, LockInv, EntriesExact, [Next]_vars
  PROVE  LockInv'
<1>1. CASE Aside
  <2>1. UNCHANGED imported
    BY <1>1, AsideSame
  <2>2. ASSUME NEW e \in Import, ImportReturn(e) PROVE LockInv'
    <3>1. lock = None /\ UNCHANGED <<lock, wtmPc, todo>>
      BY <2>2, RsaImportAssumption DEF ImportReturn, LockInv
    <3> QED
      BY <2>1, <3>1 DEF LockInv
  <2>3. ASSUME NEW v \in Wtm, WtmAddedLock(v) PROVE LockInv'
    BY <2>1, <2>3, RsaImportAssumption DEF WtmAddedLock, LockInv, TypeOK
  <2>4. ASSUME NEW v \in Wtm, WtmAddedUnlock(v) PROVE LockInv'
    <3>1. /\ lock = v /\ lock' = None /\ None \notin Wtm /\ todo = {} /\ todo' = todo
          /\ wtmPc' = [wtmPc EXCEPT ![v] = "up"]
      BY <2>4, RsaImportAssumption DEF WtmAddedUnlock, LockInv
    <3>2. \A x \in Wtm : wtmPc'[x] # "importing"
      BY <3>1 DEF LockInv, TypeOK
    <3> QED
      BY <3>1, <3>2 DEF LockInv
  <2>5. ASSUME NEW v \in Wtm, WtmGone(v) \/ WtmAddedList(v) PROVE LockInv'
    <3>1. PICK s \in {"gone", "listed"} :
            /\ wtmPc[v] # "importing" /\ wtmPc' = [wtmPc EXCEPT ![v] = s]
            /\ UNCHANGED <<lock, todo>>
      BY <2>5 DEF WtmGone, WtmAddedList
    <3>2. wtmPc \in [Wtm -> {"new", "listed", "importing", "up", "gone"}]
      BY DEF TypeOK
    <3>3. \A x \in Wtm : wtmPc'[x] = "importing" <=> wtmPc[x] = "importing"
      BY <3>1, <3>2
    <3> QED
      BY <2>1, <3>1, <3>3 DEF LockInv
  <2>6. CASE \/ StartListener \/ StartTracker \/ StopUnpublish \/ Destroy \/ StopListener
             \/ \E e \in Import : ImportFails(e)
             \/ \E e \in Import, v \in Wtm : ImportCall(e, v)
             \/ \E v \in Wtm, w \in Wire : WtmWireUp(v, w) \/ WtmWireDown(v, w)
             \/ \E x \in SendService : SendServiceAdded(x) \/ SendServiceRemoved(x)
             \/ \E c \in Caller, e \in Import : SendStart(c, e)
             \/ \E c \in Caller : SendEnd(c)
             \/ UNCHANGED vars
    <3>1. UNCHANGED <<lock, wtmPc, todo>>
      BY <2>6 DEF StartListener, StartTracker, StopUnpublish, Destroy, StopListener,
         ImportFails, ImportCall, WtmWireUp, WtmWireDown, SendServiceAdded,
         SendServiceRemoved, SendStart, SendEnd, vars
    <3> QED
      BY <2>1, <3>1 DEF LockInv
  <2> QED
    BY <1>1, <2>2, <2>3, <2>4, <2>5, <2>6 DEF Aside
<1>2. CASE ~Aside
  <2>1. ASSUME NEW i \in Interface, ProxyStopped(i) \/ ProxyStarted(i) PROVE LockInv'
    BY <2>1 DEF ProxyStopped, ProxyStarted, LockInv
  <2>2. ASSUME NEW e \in Import, ImportBegin(e) \/ Close(e) PROVE LockInv'
    <3>1. lock = None /\ UNCHANGED <<lock, wtmPc, todo>>
      BY <2>2 DEF ImportBegin, Close
    <3> QED
      BY <3>1 DEF LockInv
  <2>3. ASSUME NEW e \in Import, NEW v \in Wtm, AddWiringEndpoint(v, e) PROVE LockInv'
    BY <2>3 DEF AddWiringEndpoint, LockInv
  <2>4. ASSUME NEW e \in Import, NEW v \in Wtm, WtmAddedRequest(v, e) PROVE LockInv'
    <3>1. UNCHANGED <<imported, lock, wtmPc>> /\ todo' \subseteq todo
      BY <2>4 DEF WtmAddedRequest
    <3> QED
      BY <3>1 DEF LockInv
  <2>5. ASSUME NEW v \in Wtm, RemoveWiringEndpoint(v) PROVE LockInv'
    <3>1. lock = None /\ UNCHANGED <<lock, wtmPc, todo>>
      BY <2>5 DEF RemoveWiringEndpoint
    <3> QED
      BY <3>1 DEF LockInv
  <2>6. CASE Stop
    BY <2>6 DEF Stop, LockInv
  <2> QED
    BY <1>2, <2>1, <2>2, <2>3, <2>4, <2>5, <2>6, Others
<1> QED
  BY <1>1, <1>2

\* the first part of WtmInv
Apart == \A v \in Wtm : ~Ready(v) => wires[v] = {} /\ ~Busy(v)
Heard ==
  /\ phase \in {"running", "unpublished", "stopped", "freed"} => listener
  /\ phase = "created" => imported = {}

LEMMA ApartStep ==
  ASSUME TypeOK, LockInv, Apart, Heard, EntriesExact, [Next]_vars
  PROVE  Apart' /\ Heard'
<1>1. CASE \/ StartListener \/ StartTracker \/ StopUnpublish \/ Stop \/ Destroy
           \/ StopListener
  <2>1. UNCHANGED <<wtmPc, wires, adding, removing>>
    BY <1>1 DEF StartListener, StartTracker, StopUnpublish, Stop, Destroy, StopListener
  <2>2. phase' \in {"running", "unpublished", "stopped", "freed"} => listener'
    BY <1>1 DEF StartListener, StartTracker, StopUnpublish, Stop, Destroy, StopListener,
       Heard
  <2>3. phase' = "created" => imported' = {}
    BY <1>1 DEF StartListener, StartTracker, StopUnpublish, Stop, Destroy, StopListener,
       Heard
  <2> QED
    BY <2>1, <2>2, <2>3 DEF Apart, Heard, Ready, Busy
<1>2. ASSUME NEW e \in Import, ImportBegin(e) PROVE Apart' /\ Heard'
  <2>1. UNCHANGED <<phase, listener, wtmPc, wires, adding, removing>> /\ phase = "running"
    BY <1>2 DEF ImportBegin, Published
  <2> QED
    BY <2>1 DEF Apart, Heard, Ready, Busy
<1>3. CASE \/ \E e \in Import : Close(e)
           \/ \E e \in Import, v \in Wtm : WtmAddedRequest(v, e)
           \/ \E i \in Interface : ProxyStopped(i) \/ ProxyStarted(i)
           \/ \E e \in Import : ImportFails(e) \/ ImportReturn(e)
           \/ \E x \in SendService : SendServiceAdded(x) \/ SendServiceRemoved(x)
           \/ \E c \in Caller, e \in Import : SendStart(c, e)
           \/ \E c \in Caller : SendEnd(c)
           \/ UNCHANGED vars
  <2>1. UNCHANGED <<phase, listener, wtmPc, wires, adding, removing>>
    BY <1>3 DEF Close, WtmAddedRequest, ProxyStopped, ProxyStarted, ImportFails,
       ImportReturn, SendServiceAdded, SendServiceRemoved, SendStart, SendEnd, vars
  <2>2. imported' \subseteq imported
    BY <1>3 DEF Close, Drop, WtmAddedRequest, ProxyStopped, ProxyStarted, ImportFails,
       ImportReturn, SendServiceAdded, SendServiceRemoved, SendStart, SendEnd, vars
  <2> QED
    BY <2>1, <2>2 DEF Apart, Heard, Ready, Busy
<1>4. ASSUME NEW e \in Import, NEW v \in Wtm, ImportCall(e, v) PROVE Apart' /\ Heard'
  BY <1>4 DEF ImportCall, Apart, Heard, Ready, Busy, TypeOK
<1>5. ASSUME NEW e \in Import, NEW v \in Wtm, AddWiringEndpoint(v, e) PROVE Apart' /\ Heard'
  BY <1>5 DEF AddWiringEndpoint, Apart, Heard, Ready, Busy, TypeOK
<1>6. ASSUME NEW v \in Wtm, NEW w \in Wire, WtmWireUp(v, w) \/ WtmWireDown(v, w)
      PROVE  Apart' /\ Heard'
  <2>1. /\ Ready(v) /\ UNCHANGED <<phase, listener, wtmPc, imported>>
        /\ \E W : wires' = [wires EXCEPT ![v] = W]
        /\ adding' = adding \/ \E A : adding' = [adding EXCEPT ![v] = A]
        /\ removing' = removing \/ \E d : removing' = [removing EXCEPT ![v] = d]
    <3>1. CASE WtmWireUp(v, w)
      BY <3>1 DEF WtmWireUp
    <3>2. CASE WtmWireDown(v, w)
      BY <3>2 DEF WtmWireDown
    <3> QED
      BY <1>6, <3>1, <3>2
  <2>2. /\ wires \in [Wtm -> SUBSET Wire] /\ adding \in [Wtm -> SUBSET Import]
        /\ removing \in [Wtm -> Wire \cup {None}]
    BY DEF TypeOK
  <2>3. \A x \in Wtm : x # v =>
          wires'[x] = wires[x] /\ adding'[x] = adding[x] /\ removing'[x] = removing[x]
    BY <2>1, <2>2
  <2>4. \A x \in Wtm : Ready(x)' <=> Ready(x)
    BY <2>1 DEF Ready
  <2> QED
    BY <2>1, <2>3, <2>4 DEF Apart, Heard, Busy
<1>7. ASSUME NEW v \in Wtm,
             WtmGone(v) \/ WtmAddedList(v) \/ WtmAddedLock(v) \/ WtmAddedUnlock(v)
      PROVE  Apart' /\ Heard'
  <2>1. PICK t \in {"listed", "importing", "up", "gone"} :
          /\ wtmPc' = [wtmPc EXCEPT ![v] = t] /\ (t = "gone" => ~Busy(v))
          /\ wtmPc[v] \in {"new", "listed", "importing"} \/ t = "gone"
          /\ wires' = IF t = "gone" THEN [wires EXCEPT ![v] = {}] ELSE wires
          /\ UNCHANGED <<phase, listener, imported, adding, removing>>
    BY <1>7 DEF WtmGone, WtmAddedList, WtmAddedLock, WtmAddedUnlock
  <2>2. wtmPc \in [Wtm -> {"new", "listed", "importing", "up", "gone"}]
        /\ wires \in [Wtm -> SUBSET Wire]
    BY DEF TypeOK
  <2>3. \A x \in Wtm : x # v => wtmPc'[x] = wtmPc[x] /\ wires'[x] = wires[x]
    BY <2>1, <2>2
  <2>4. ~Ready(v)' => wires'[v] = {} /\ ~Busy(v)
    <3>1. CASE t = "gone"
      BY <2>1, <2>2, <3>1
    <3>2. CASE t # "gone"
      <4>1. wires' = wires /\ (~Ready(v)' => ~Ready(v))
        BY <2>1, <2>2, <3>2 DEF Ready
      <4> QED
        BY <4>1 DEF Apart
    <3> QED
      BY <3>1, <3>2
  <2>5. \A x \in Wtm : Busy(x)' <=> Busy(x)
    BY <2>1 DEF Busy
  <2>6. \A x \in Wtm : x # v => (Ready(x)' <=> Ready(x))
    BY <2>3 DEF Ready
  <2>7. Apart'
    BY <2>3, <2>4, <2>5, <2>6 DEF Apart
  <2> QED
    BY <2>1, <2>7 DEF Heard
<1>8. ASSUME NEW v \in Wtm, RemoveWiringEndpoint(v) PROVE Apart' /\ Heard'
  <2>1. UNCHANGED <<phase, listener, wtmPc, wires, adding>> /\ imported' \subseteq imported
        /\ removing' = [removing EXCEPT ![v] = None]
    BY <1>8 DEF RemoveWiringEndpoint, Drop
  <2> QED
    BY <2>1 DEF Apart, Heard, Ready, Busy, TypeOK
<1> QED
  BY <1>1, <1>2, <1>3, <1>4, <1>5, <1>6, <1>7, <1>8 DEF Next

\* a WTM that has been handled stays so
LEMMA HandledStays ==
  ASSUME TypeOK, [Next]_vars, NEW v \in Wtm, wtmPc[v] \in {"up", "gone"}
  PROVE  wtmPc'[v] \in {"up", "gone"}
<1>1. CASE \E x \in Wtm : WtmGone(x) \/ WtmAddedList(x) \/ WtmAddedLock(x) \/ WtmAddedUnlock(x)
  <2>1. PICK x \in Wtm, s \in {"gone", "listed", "importing", "up"} :
          /\ wtmPc' = [wtmPc EXCEPT ![x] = s]
          /\ s \in {"listed", "importing"} => wtmPc[x] \notin {"up", "gone"}
    BY <1>1 DEF WtmGone, WtmAddedList, WtmAddedLock, WtmAddedUnlock
  <2> QED
    BY <2>1 DEF TypeOK
<1>2. CASE ~ \E x \in Wtm : WtmGone(x) \/ WtmAddedList(x) \/ WtmAddedLock(x) \/ WtmAddedUnlock(x)
  <2>1. UNCHANGED wtmPc
    BY <1>2 DEF Next, StartListener, StartTracker, ProxyStopped, ProxyStarted,
       ImportFails, ImportBegin, ImportReturn, Close, ImportCall, AddWiringEndpoint,
       WtmAddedRequest, WtmWireUp, WtmWireDown, RemoveWiringEndpoint,
       SendServiceAdded, SendServiceRemoved, SendStart, SendEnd, StopUnpublish, Stop,
       Destroy, StopListener, vars
  <2> QED
    BY <2>1
<1> QED
  BY <1>1, <1>2

-----------------------------------------------------------------------------
(***************************************************************************)
(* The requests and the registrations.                                     *)
(***************************************************************************)

\* an entry comes with its import only
LEMMA ImportedStep ==
  ASSUME [Next]_vars
  PROVE  imported' \subseteq imported \/ \E e \in Import : ImportBegin(e)
<1>1. CASE Aside
  BY <1>1, AsideSame
<1>2. CASE ~Aside
  BY <1>2, Others DEF ProxyStopped, ProxyStarted, Close, AddWiringEndpoint,
     WtmAddedRequest, RemoveWiringEndpoint, Stop, Drop
<1> QED
  BY <1>1, <1>2

\* with the last part, which the publication of the RSA gives
LEMMA WtmStep ==
  ASSUME TypeOK, LockInv, WtmInv, EntriesExact, [Next]_vars
  PROVE  WtmInv'
<1>1. Apart' /\ Heard'
  BY ApartStep DEF WtmInv, Apart, Heard
<1>2. ASSUME imported' # {} PROVE \E v \in Wtm : wtmPc[v] \in {"up", "gone"}
  BY <1>2, ImportedStep DEF ImportBegin, Published, WtmInv
<1>3. imported' # {} => \E v \in Wtm : wtmPc'[v] \in {"up", "gone"}
  BY <1>2, HandledStays
<1> QED
  BY <1>1, <1>3 DEF WtmInv, Apart, Heard

\* no step follows undefined behaviour
LEMMA NoFault == ASSUME Next PROVE fault = "none"
BY DEF Next, StartListener, StartTracker, ProxyStopped, ProxyStarted, ImportFails,
   ImportBegin, ImportReturn, Close, ImportCall, AddWiringEndpoint, WtmAddedRequest,
   WtmWireUp, WtmWireDown, RemoveWiringEndpoint, WtmGone, WtmAddedList, WtmAddedLock,
   WtmAddedUnlock, SendServiceAdded, SendServiceRemoved, SendStart, SendEnd,
   StopUnpublish, Stop, Destroy, StopListener

\* the bundle comes to run before anything is imported
LEMMA Runs ==
  ASSUME WtmInv, [Next]_vars, phase' = "running"
  PROVE  /\ phase = "running" \/ (imported = {} /\ imported' = {})
         /\ phase = "running" => listener
<1>1. CASE StartTracker
  BY <1>1 DEF StartTracker, WtmInv
<1>2. CASE phase = "running"
  BY <1>2 DEF WtmInv
<1>3. CASE ~StartTracker /\ [Next]_vars
  <2>1. phase = phase'
    BY <1>3 DEF Next, StartListener, StartTracker, ProxyStopped, ProxyStarted, ImportFails,
       ImportBegin, ImportReturn, Close, ImportCall, AddWiringEndpoint, WtmAddedRequest,
       WtmWireUp, WtmWireDown, RemoveWiringEndpoint, WtmGone, WtmAddedList, WtmAddedLock,
       WtmAddedUnlock, SendServiceAdded, SendServiceRemoved, SendStart, SendEnd,
       StopUnpublish, Stop, Destroy, StopListener, vars
  <2> QED
    BY <1>2, <2>1
<1> QED
  BY <1>1, <1>3

\* what a withdrawn wire leaves, when all went well
LEMMA Withdrawn ==
  ASSUME TypeOK, NEW v \in Wtm, RemoveWiringEndpoint(v), fault' = "none"
  PROVE  \A e \in imported' : WireOf[e] # removing[v]
<1> DEFINE E == {e \in imported : WireOf[e] = removing[v]}
<1>1. /\ IsFiniteSet(E) /\ Cardinality(E) \in Nat
      /\ Cardinality(E) = 0 <=> E = {}
  BY RsaImportAssumption, FS_Subset, FS_CardinalityType, FS_EmptySet DEF TypeOK
<1>2. imported \cap Freed = {} /\ (\A e \in E : Tracked(e)) /\ Cardinality(E) <= 1
  BY DEF RemoveWiringEndpoint
<1>3. CASE E = {}
  <2>1. imported' \subseteq imported
    BY DEF RemoveWiringEndpoint, Drop
  <2> QED
    BY <1>3, <2>1
<1>4. CASE E # {}
  <2>1. Cardinality(E) = 1
    BY <1>1, <1>2, <1>4
  <2>2. PICK e \in E : Drop(e)
    BY <1>2, <2>1 DEF RemoveWiringEndpoint
  <2>3. E = {e}
    BY <1>1, <2>1, FS_Singleton
  <2> QED
    BY <2>2, <2>3 DEF Drop
<1> QED
  BY <1>3, <1>4

\* the steps on which AskedInv and NoLostImport turn: those that change the
\* requests, the wires or what is announced
Requests ==
  \/ \E e \in Import, v \in Wtm :
       ImportCall(e, v) \/ AddWiringEndpoint(v, e) \/ WtmAddedRequest(v, e)
  \/ \E v \in Wtm, w \in Wire : WtmWireUp(v, w) \/ WtmWireDown(v, w)
  \/ \E v \in Wtm : RemoveWiringEndpoint(v) \/ WtmGone(v)

LEMMA RequestsSame ==
  ASSUME [Next]_vars, ~Requests
  PROVE  UNCHANGED <<wires, waiting, adding, removing, named, lost>>
BY DEF Next, Requests, StartListener, StartTracker, ProxyStopped, ProxyStarted,
   ImportFails, ImportBegin, ImportReturn, Close, WtmAddedList, WtmAddedLock,
   WtmAddedUnlock, SendServiceAdded, SendServiceRemoved, SendStart, SendEnd,
   StopUnpublish, Stop, Destroy, StopListener, vars

\* a WTM is gone for good
LEMMA GoneStays ==
  ASSUME TypeOK, [Next]_vars, NEW v \in Wtm, wtmPc[v] = "gone"
  PROVE  wtmPc'[v] = "gone"
<1>1. CASE \/ \E x \in Wtm : WtmGone(x) \/ WtmAddedList(x) \/ WtmAddedLock(x)
                             \/ WtmAddedUnlock(x)
  <2>1. PICK x \in Wtm, s \in {"gone", "listed", "importing", "up"} :
          wtmPc[x] # "gone" /\ wtmPc' = [wtmPc EXCEPT ![x] = s]
    BY <1>1 DEF WtmGone, WtmAddedList, WtmAddedLock, WtmAddedUnlock
  <2>2. wtmPc \in [Wtm -> {"new", "listed", "importing", "up", "gone"}]
    BY DEF TypeOK
  <2> QED
    BY <2>1, <2>2
<1>2. CASE ~ \E x \in Wtm : WtmGone(x) \/ WtmAddedList(x) \/ WtmAddedLock(x)
                            \/ WtmAddedUnlock(x)
  <2>1. UNCHANGED wtmPc
    BY <1>2 DEF Next, StartListener, StartTracker, ProxyStopped, ProxyStarted,
       ImportFails, ImportBegin, ImportReturn, Close, ImportCall, AddWiringEndpoint,
       WtmAddedRequest, WtmWireUp, WtmWireDown, RemoveWiringEndpoint,
       SendServiceAdded, SendServiceRemoved, SendStart, SendEnd, StopUnpublish, Stop,
       Destroy, StopListener, vars
  <2> QED
    BY <2>1
<1> QED
  BY <1>1, <1>2

\* An import that has not begun has no entry and no request.
NotBegun ==
  \A e \in Import : iPc[e] \in {"new", "failed"} =>
    e \notin imported /\ \A v \in Wtm : <<v, e>> \notin named

\* A WTM that was asked keeps the request, has the wire or withdraws it, or
\* has forgotten the request.
Kept(v, e) ==
  <<v, e>> \in named /\ wtmPc[v] # "gone" /\ WireOf[e] \notin wires[v] =>
    <<e, TRUE>> \in waiting[v] \/ removing[v] = WireOf[e] \/ <<v, e>> \in lost

LEMMA LostStays == ASSUME [Next]_vars PROVE lost \subseteq lost'
<1>1. CASE ~Requests
  BY <1>1, RequestsSame
<1>2. CASE Requests
  BY <1>2 DEF Requests, ImportCall, AddWiringEndpoint, WtmAddedRequest, WtmWireUp,
     WtmWireDown, RemoveWiringEndpoint, WtmGone
<1> QED
  BY <1>1, <1>2

LEMMA NotBegunStep == ASSUME TypeOK, NotBegun, [Next]_vars PROVE NotBegun'
<1>1. ASSUME NEW e \in Import, ImportFails(e) \/ ImportReturn(e) PROVE NotBegun'
  BY <1>1 DEF ImportFails, ImportReturn, NotBegun, TypeOK
<1>2. ASSUME NEW e \in Import, ImportBegin(e) \/ Close(e) PROVE NotBegun'
  <2>1. UNCHANGED named /\ imported' \subseteq imported \cup {e}
        /\ (iPc' = [iPc EXCEPT ![e] = "calling"] \/ iPc' = [iPc EXCEPT ![e] = "closed"])
    BY <1>2 DEF ImportBegin, Close, Drop
  <2> QED
    BY <2>1 DEF NotBegun, TypeOK
<1>3. ASSUME NEW e \in Import, NEW v \in Wtm, ImportCall(e, v) PROVE NotBegun'
  BY <1>3 DEF ImportCall, NotBegun, TypeOK
<1>4. CASE ~ \E e \in Import : \/ ImportFails(e) \/ ImportReturn(e) \/ ImportBegin(e)
                               \/ Close(e) \/ \E v \in Wtm : ImportCall(e, v)
  <2>1. UNCHANGED <<iPc, named>>
    BY <1>4 DEF Next, StartListener, StartTracker, ProxyStopped, ProxyStarted,
       AddWiringEndpoint, WtmAddedRequest, WtmWireUp, WtmWireDown, RemoveWiringEndpoint,
       WtmGone, WtmAddedList, WtmAddedLock, WtmAddedUnlock, SendServiceAdded,
       SendServiceRemoved, SendStart, SendEnd, StopUnpublish, Stop, Destroy, StopListener,
       vars
  <2>2. imported' \subseteq imported
    BY <1>4, ImportedStep
  <2> QED
    BY <2>1, <2>2 DEF NotBegun
<1> QED
  BY <1>1, <1>2, <1>3, <1>4

\* what announces and withdraws a wire, step by step
LEMMA KeptStep ==
  ASSUME TypeOK, WtmInv, EntriesExact, NotBegun, [Next]_vars,
         fault' = "none", phase' = "running",
         phase = "running" =>
           fault = "none" /\ \A v \in Wtm, e \in imported : Kept(v, e)
  PROVE  \A v \in Wtm, e \in imported' : Kept(v, e)'
<1> SUFFICES ASSUME NEW v \in Wtm, NEW e \in imported'
             PROVE  Kept(v, e)'
  OBVIOUS
<1>1. phase = "running" /\ listener
  BY Runs
<1>2. e \in Import /\ WireOf[e] \in Wire /\ WireOf[e] # None
  <2>1. e \in Import
    <3>1. imported \subseteq Import
      BY DEF TypeOK
    <3>2. ASSUME NEW f \in Import, ImportBegin(f) PROVE imported' = imported \cup {f}
      BY <3>2 DEF ImportBegin
    <3> QED
      BY <3>1, <3>2, ImportedStep
  <2> QED
    BY <2>1, RsaImportAssumption
<1>3. e \notin imported => <<v, e>> \notin named /\ UNCHANGED named
  <2>1. SUFFICES ASSUME e \notin imported PROVE <<v, e>> \notin named /\ UNCHANGED named
    OBVIOUS
  <2>2. PICK f \in Import : ImportBegin(f)
    BY <2>1, ImportedStep
  <2>3. f = e /\ iPc[e] = "new" /\ UNCHANGED named
    BY <2>1, <2>2 DEF ImportBegin
  <2> QED
    BY <1>2, <2>3 DEF NotBegun
<1>4. CASE e \notin imported
  BY <1>3, <1>4 DEF Kept
<1>5. CASE e \in imported
  <2>1. Kept(v, e)
    BY <1>1, <1>5
  <2>2. /\ wtmPc'[v] # "gone" => wtmPc[v] # "gone"
        /\ <<v, e>> \in lost => <<v, e>> \in lost'
    BY GoneStays, LostStays
  <2>3. CASE ~Requests
    BY <2>1, <2>2, <2>3, RequestsSame DEF Kept
  <2>4. ASSUME NEW f \in Import, NEW x \in Wtm, ImportCall(f, x) PROVE Kept(v, e)'
    <3>1. CASE x = v /\ f = e
      <4>1. /\ WireOf[e] \notin wires[v] => waiting' = [waiting EXCEPT ![v] = @ \cup {<<e, TRUE>>}]
            /\ UNCHANGED wires
        BY <2>4, <3>1 DEF ImportCall
      <4>2. WireOf[e] \notin wires[v] => <<e, TRUE>> \in waiting'[v]
        BY <4>1 DEF TypeOK
      <4> QED
        BY <4>1, <4>2 DEF Kept
    <3>2. CASE ~(x = v /\ f = e)
      <4>1. /\ UNCHANGED <<wires, removing, wtmPc>> /\ named' = named \cup {<<x, f>>}
            /\ \/ waiting' = waiting
               \/ waiting' = [waiting EXCEPT ![x] = @ \cup {<<f, TRUE>>}]
        BY <2>4 DEF ImportCall
      <4>2. <<v, e>> \in named' => <<v, e>> \in named
        BY <3>2, <4>1
      <4>3. waiting[v] \subseteq waiting'[v]
        BY <4>1 DEF TypeOK
      <4> QED
        BY <2>1, <2>2, <4>1, <4>2, <4>3 DEF Kept
    <3> QED
      BY <3>1, <3>2
  <2>5. ASSUME NEW f \in Import, NEW x \in Wtm,
               AddWiringEndpoint(x, f) \/ WtmAddedRequest(x, f)
        PROVE  Kept(v, e)'
    <3>1. /\ UNCHANGED <<wires, removing, named>>
          /\ \/ waiting' = waiting
             \/ waiting' = [waiting EXCEPT ![x] = @ \cup {<<f, FALSE>>}]
      BY <2>5 DEF AddWiringEndpoint, WtmAddedRequest
    <3>2. waiting[v] \subseteq waiting'[v]
      BY <3>1 DEF TypeOK
    <3> QED
      BY <2>1, <2>2, <3>1, <3>2 DEF Kept
  <2>6. ASSUME NEW x \in Wtm, NEW w \in Wire, WtmWireUp(x, w) PROVE Kept(v, e)'
    <3> DEFINE R == {r \in waiting[x] : WireOf[r[1]] = w}
    <3>1. PICK F \in SUBSET waiting[x] :
            /\ wires' = [wires EXCEPT ![x] = @ \cup {w}]
            /\ waiting' = [waiting EXCEPT ![x] = @ \ (R \cup F)]
            /\ lost' = lost \cup {<<x, r[1]>> : r \in F}
            /\ UNCHANGED <<removing, named, wtmPc>>
      BY <2>6 DEF WtmWireUp
    <3>2. WireOf[e] \notin wires'[v] => WireOf[e] \notin wires[v] /\ (v = x => WireOf[e] # w)
      BY <3>1 DEF TypeOK
    <3>3. (v = x => WireOf[e] # w) /\ <<e, TRUE>> \in waiting[v] =>
            <<e, TRUE>> \in waiting'[v] \/ <<v, e>> \in lost'
      <4>1. WireOf[e] # w => <<e, TRUE>> \notin R
        OBVIOUS
      <4>2. <<e, TRUE>> \in F => <<x, e>> \in lost'
        <5>1. <<e, TRUE>>[1] = e
          OBVIOUS
        <5> QED
          BY <3>1, <5>1
      <4> HIDE DEF R
      <4> QED
        BY <3>1, <4>1, <4>2 DEF TypeOK
    <3> QED
      BY <2>1, <2>2, <3>1, <3>2, <3>3 DEF Kept
  <2>7. ASSUME NEW x \in Wtm, NEW w \in Wire, WtmWireDown(x, w) PROVE Kept(v, e)'
    <3>1. /\ wires' = [wires EXCEPT ![x] = @ \ {w}]
          /\ removing' = [removing EXCEPT ![x] = w] /\ removing[x] = None
          /\ UNCHANGED <<waiting, named, wtmPc>>
      BY <1>1, <2>7 DEF WtmWireDown, Busy
    <3> QED
      BY <1>2, <2>1, <2>2, <3>1 DEF Kept, TypeOK
  <2>8. ASSUME NEW x \in Wtm, RemoveWiringEndpoint(x) PROVE Kept(v, e)'
    <3>1. /\ removing' = [removing EXCEPT ![x] = None]
          /\ UNCHANGED <<wires, waiting, named, wtmPc>>
      BY <2>8 DEF RemoveWiringEndpoint
    <3>2. WireOf[e] # removing[x]
      BY <2>8, Withdrawn
    <3> QED
      BY <2>1, <2>2, <3>1, <3>2 DEF Kept, TypeOK
  <2>9. ASSUME NEW x \in Wtm, WtmGone(x) PROVE Kept(v, e)'
    <3>1. /\ wtmPc' = [wtmPc EXCEPT ![x] = "gone"]
          /\ wires' = [wires EXCEPT ![x] = {}] /\ waiting' = [waiting EXCEPT ![x] = {}]
          /\ UNCHANGED <<removing, named>>
      BY <2>9 DEF WtmGone
    <3> QED
      BY <2>1, <2>2, <3>1 DEF Kept, TypeOK
  <2> QED
    BY <2>3, <2>4, <2>5, <2>6, <2>7, <2>8, <2>9 DEF Requests
<1> QED
  BY <1>4, <1>5

LEMMA AskedStep ==
  ASSUME TypeOK, WtmInv, EntriesExact, AskedInv, [Next]_vars
  PROVE  AskedInv'
<1>1. NotBegun'
  BY NotBegunStep DEF AskedInv, NotBegun
<1>2. ASSUME fault' = "none", phase' = "running"
      PROVE  \A v \in Wtm, e \in imported' : Kept(v, e)'
  <2>1. fault = "none"
    BY <1>2, NoFault DEF vars
  <2>2. NotBegun /\ (phase = "running" => \A v \in Wtm, e \in imported : Kept(v, e))
    BY <2>1 DEF AskedInv, NotBegun, Kept
  <2> QED
    BY <1>2, <2>1, <2>2, KeptStep
<1> QED
  BY <1>1, <1>2 DEF AskedInv, NotBegun, Kept

\* an import begins once
LEMMA BegunStays ==
  ASSUME TypeOK, [Next]_vars, NEW f \in Import, iPc'[f] = "new"
  PROVE  iPc[f] = "new"
<1>1. CASE \E e \in Import : \/ ImportFails(e) \/ ImportReturn(e) \/ ImportBegin(e)
                             \/ Close(e) \/ \E v \in Wtm : ImportCall(e, v)
  <2>1. PICK e \in Import, s \in {"failed", "done", "calling", "closed", "called"} :
          iPc' = [iPc EXCEPT ![e] = s]
    BY <1>1 DEF ImportFails, ImportReturn, ImportBegin, Close, ImportCall
  <2> QED
    BY <2>1 DEF TypeOK
<1>2. CASE ~ \E e \in Import : \/ ImportFails(e) \/ ImportReturn(e) \/ ImportBegin(e)
                               \/ Close(e) \/ \E v \in Wtm : ImportCall(e, v)
  <2>1. UNCHANGED iPc
    BY <1>2 DEF Next, StartListener, StartTracker, ProxyStopped, ProxyStarted,
       AddWiringEndpoint, WtmAddedRequest, WtmWireUp, WtmWireDown, RemoveWiringEndpoint,
       WtmGone, WtmAddedList, WtmAddedLock, WtmAddedUnlock, SendServiceAdded,
       SendServiceRemoved, SendStart, SendEnd, StopUnpublish, Stop, Destroy, StopListener,
       vars
  <2> QED
    BY <2>1
<1> QED
  BY <1>1, <1>2

\* who adds a registration
LEMMA RegsStep ==
  ASSUME TypeOK, EntriesExact, [Next]_vars, NEW f \in Import,
         ~ImportBegin(f), \A v \in Wtm : ~WtmAddedRequest(v, f)
  PROVE  regs'[f] <= regs[f]
<1>1. regs[f] \in Nat /\ DOMAIN regs = Import
  <2>1. regs \in [Import -> 0..(Cardinality(Wtm) + 1)]
    BY DEF TypeOK
  <2> QED
    BY <2>1, RegsNat
<1>2. ASSUME NEW e \in imported, Drop(e), fault = "none" PROVE regs'[f] <= regs[f]
  BY <1>2, DropFacts
<1>3. CASE Aside
  <2>1. UNCHANGED regs
    BY <1>3, AsideSame
  <2> QED
    BY <1>1, <2>1
<1>4. ASSUME NEW e \in Import, ImportBegin(e) PROVE regs'[f] <= regs[f]
  <2>1. e # f /\ regs' = [regs EXCEPT ![e] = @ + 1]
    BY <1>4 DEF ImportBegin
  <2> QED
    BY <1>1, <2>1
<1>5. ASSUME NEW e \in Import, NEW v \in Wtm, WtmAddedRequest(v, e) PROVE regs'[f] <= regs[f]
  <2>1. e # f /\ \E n : regs' = [regs EXCEPT ![e] = n]
    BY <1>5 DEF WtmAddedRequest
  <2> QED
    BY <1>1, <2>1
<1>6. ASSUME NEW e \in Import, Close(e) PROVE regs'[f] <= regs[f]
  BY <1>1, <1>2, <1>6 DEF Close
<1>7. ASSUME NEW v \in Wtm, RemoveWiringEndpoint(v) PROVE regs'[f] <= regs[f]
  <2>1. (\E e \in imported : Drop(e)) \/ UNCHANGED regs
    BY <1>7 DEF RemoveWiringEndpoint
  <2>2. fault = "none"
    BY <1>7 DEF RemoveWiringEndpoint
  <2> QED
    BY <1>1, <1>2, <2>1, <2>2
<1>8. CASE Stop
  <2>1. regs' = [e \in Import |-> 0]
    BY <1>8 DEF Stop
  <2> QED
    BY <1>1, <2>1
<1>9. CASE \/ \E i \in Interface : ProxyStopped(i) \/ ProxyStarted(i)
           \/ \E e \in Import, v \in Wtm : AddWiringEndpoint(v, e)
  <2>1. UNCHANGED regs
    BY <1>9 DEF ProxyStopped, ProxyStarted, AddWiringEndpoint
  <2> QED
    BY <1>1, <2>1
<1> QED
  BY <1>3, <1>4, <1>5, <1>6, <1>7, <1>8, <1>9, Others

\* Passed only grows, by at most the WTM that asks for the entry; an entry gets
\* a registration with its import, which no walk can be under way at, and one
\* from each WTM that passes it.
LEMMA CountStep ==
  ASSUME TypeOK, LockInv, EntriesExact, CountInv, [Next]_vars
  PROVE  CountInv'
<1> DEFINE one(f) == IF iPc[f] = "new" THEN 0 ELSE 1
<1>1. \A f \in Import : /\ regs[f] \in Nat /\ Cardinality(Passed(f)) \in Nat
                        /\ IsFiniteSet(Passed(f))
                        /\ regs[f] <= Cardinality(Passed(f)) + one(f)
  BY RegsNat, PassedBound DEF CountInv
<1>2. \A f \in Import : IsFiniteSet(Passed(f))' /\ (Cardinality(Passed(f)) \in Nat)'
  <2>1. ASSUME NEW f \in Import PROVE Passed(f)' \in SUBSET Wtm
    BY DEF Passed
  <2> QED
    BY <2>1, RsaImportAssumption, FS_Subset, FS_CardinalityType
<1>3. SUFFICES ASSUME NEW f \in Import
               PROVE  regs'[f] <= Cardinality(Passed(f)') + one(f)'
  BY DEF CountInv
<1>4. Passed(f) \subseteq Passed(f)'
  <2>1. CASE \E v \in Wtm : WtmGone(v) \/ WtmAddedList(v) \/ WtmAddedUnlock(v)
    <3>1. PICK v \in Wtm, s \in {"gone", "listed", "up"} :
            /\ wtmPc' = [wtmPc EXCEPT ![v] = s]
            /\ s = "listed" => v \notin Passed(f)
            /\ UNCHANGED todo
      BY <2>1 DEF WtmGone, WtmAddedList, WtmAddedUnlock, Passed
    <3> QED
      BY <3>1 DEF Passed, TypeOK
  <2>2. ASSUME NEW v \in Wtm, WtmAddedLock(v) PROVE Passed(f) \subseteq Passed(f)'
    <3>1. /\ wtmPc' = [wtmPc EXCEPT ![v] = "importing"]
          /\ v \notin Passed(f)
          /\ \A x \in Wtm : wtmPc[x] # "importing"
      BY <2>2, RsaImportAssumption DEF WtmAddedLock, Passed, LockInv
    <3> QED
      BY <3>1 DEF Passed, TypeOK
  <2>3. ASSUME NEW v \in Wtm, NEW e \in Import, WtmAddedRequest(v, e)
        PROVE  Passed(f) \subseteq Passed(f)'
    BY <2>3 DEF WtmAddedRequest, Passed
  <2>4. CASE ~ \/ \E v \in Wtm : \/ WtmGone(v) \/ WtmAddedList(v) \/ WtmAddedUnlock(v)
                                 \/ WtmAddedLock(v)
               \/ \E v \in Wtm, e \in Import : WtmAddedRequest(v, e)
    <3>1. UNCHANGED <<wtmPc, todo>>
      BY <2>4 DEF Next, StartListener, StartTracker, ProxyStopped, ProxyStarted,
         ImportFails, ImportBegin, ImportReturn, Close, ImportCall, AddWiringEndpoint,
         WtmWireUp, WtmWireDown, RemoveWiringEndpoint, SendServiceAdded,
         SendServiceRemoved, SendStart, SendEnd, StopUnpublish, Stop, Destroy,
         StopListener, vars
    <3> QED
      BY <3>1 DEF Passed
  <2> QED
    BY <2>1, <2>2, <2>3, <2>4
<1>5. Cardinality(Passed(f)) <= Cardinality(Passed(f)')
  BY <1>2, <1>4, FS_Subset
<1>6. one(f) \in Nat /\ one(f)' \in Nat /\ one(f) <= one(f)'
  <2>1. iPc'[f] = "new" => iPc[f] = "new"
    BY BegunStays
  <2> QED
    BY <2>1
<1>7. CASE ImportBegin(f)
  <2>1. regs'[f] = regs[f] + 1 /\ one(f) = 0 /\ one(f)' = 1
    <3>1. /\ iPc[f] = "new" /\ iPc' = [iPc EXCEPT ![f] = "calling"]
          /\ regs' = [regs EXCEPT ![f] = @ + 1]
      BY <1>7 DEF ImportBegin
    <3> QED
      BY <3>1 DEF TypeOK
  <2> HIDE DEF one
  <2> QED
    BY <1>1, <1>2, <1>5, <2>1
<1>8. ASSUME NEW v \in Wtm, WtmAddedRequest(v, f)
      PROVE  regs'[f] <= Cardinality(Passed(f)') + one(f)'
  <2>1. v \notin Passed(f) /\ Passed(f)' = Passed(f) \cup {v}
    <3>1. /\ wtmPc[v] = "importing" /\ f \in todo /\ todo' = todo \ {f}
          /\ UNCHANGED wtmPc
      BY <1>8 DEF WtmAddedRequest
    <3>2. \A x \in Wtm : wtmPc[x] = "importing" => x = v
      BY <3>1 DEF LockInv
    <3> QED
      BY <3>1, <3>2 DEF Passed
  <2>2. Cardinality(Passed(f)') = Cardinality(Passed(f)) + 1
    BY <1>1, <2>1, FS_AddElement
  <2>3. regs'[f] \in Nat /\ regs'[f] <= regs[f] + 1
    <3>1. PICK b \in BOOLEAN : regs' = [regs EXCEPT ![f] = IF b THEN @ + 1 ELSE @]
      BY <1>8, Zenon DEF WtmAddedRequest
    <3>2. DOMAIN regs = Import
      BY DEF TypeOK
    <3>3. regs'[f] = IF b THEN regs[f] + 1 ELSE regs[f]
      BY <3>1, <3>2
    <3> QED
      BY <1>1, <3>3
  <2> HIDE DEF one
  <2> QED
    BY <1>1, <1>2, <1>6, <2>2, <2>3
<1>9. CASE ~ImportBegin(f) /\ \A v \in Wtm : ~WtmAddedRequest(v, f)
  <2>1. regs'[f] <= regs[f] /\ regs'[f] \in Nat
    <3>1. TypeOK'
      BY TypeStep
    <3>2. regs' \in [Import -> 0..(Cardinality(Wtm) + 1)]
      BY <3>1 DEF TypeOK
    <3>3. regs'[f] \in Nat
      BY <3>2, RsaImportAssumption, FS_CardinalityType
    <3> QED
      BY <1>9, <3>3, RegsStep
  <2> HIDE DEF one
  <2> QED
    BY <1>1, <1>2, <1>5, <1>6, <2>1
<1> QED
  BY <1>7, <1>8, <1>9

-----------------------------------------------------------------------------
(***************************************************************************)
(* The entries, their factories and their proxies.                         *)
(***************************************************************************)

\* only a close turns a description into one that may be freed
LEMMA FreedStep ==
  ASSUME TypeOK, [Next]_vars, NEW f \in Import, f \in Freed', f \notin Freed
  PROVE  Close(f)
<1>1. CASE \E e \in Import : \/ ImportFails(e) \/ ImportReturn(e) \/ ImportBegin(e)
                             \/ \E v \in Wtm : ImportCall(e, v)
  <2>1. PICK e \in Import, s \in {"failed", "done", "calling", "called"} :
          iPc' = [iPc EXCEPT ![e] = s]
    BY <1>1 DEF ImportFails, ImportReturn, ImportBegin, ImportCall
  <2> QED
    BY <2>1 DEF TypeOK, Freed
<1>2. ASSUME NEW e \in Import, Close(e) PROVE Close(f)
  <2>1. iPc' = [iPc EXCEPT ![e] = "closed"]
    BY <1>2 DEF Close
  <2>2. e = f
    BY <2>1 DEF TypeOK, Freed
  <2> QED
    BY <1>2, <2>2
<1>3. CASE ~ \E e \in Import : \/ ImportFails(e) \/ ImportReturn(e) \/ ImportBegin(e)
                               \/ Close(e) \/ \E v \in Wtm : ImportCall(e, v)
  <2>1. UNCHANGED iPc
    BY <1>3 DEF Next, StartListener, StartTracker, ProxyStopped, ProxyStarted,
       AddWiringEndpoint, WtmAddedRequest, WtmWireUp, WtmWireDown, RemoveWiringEndpoint,
       WtmGone, WtmAddedList, WtmAddedLock, WtmAddedUnlock, SendServiceAdded,
       SendServiceRemoved, SendStart, SendEnd, StopUnpublish, Stop, Destroy, StopListener,
       vars
  <2> QED
    BY <2>1 DEF Freed
<1> QED
  BY <1>1, <1>2, <1>3

\* the three parts of EntriesExact
Held(e)  == InterfaceOf[e] \in factory /\ (fault = "none" => regs[e] > 0)
Clean(e) == e \in Freed => e \notin imported \cup proxies \/ e \in untracked

LEMMA HeldStep ==
  ASSUME TypeOK, LockInv, EntriesExact, [Next]_vars, fault = "none"
  PROVE  \A e \in imported' : Held(e)'
<1>1. \A e \in imported : InterfaceOf[e] \in factory /\ regs[e] > 0 /\ regs[e] \in Nat
  BY RegsNat DEF EntriesExact, TypeOK
<1>2. regs \in [Import -> Nat] /\ imported \subseteq Import
  BY RegsNat DEF TypeOK
<1>3. CASE UNCHANGED <<imported, factory, regs>>
  BY <1>1, <1>3 DEF Held
<1>4. ASSUME NEW e \in imported, Drop(e) PROVE \A f \in imported' : Held(f)'
  BY <1>4, DropFacts DEF Held
<1>5. ASSUME NEW e \in Import, ImportBegin(e) PROVE \A f \in imported' : Held(f)'
  <2>1. imported' = imported \cup {e} /\ regs' = [regs EXCEPT ![e] = @ + 1]
    BY <1>5 DEF ImportBegin
  <2>2. factory \subseteq factory' /\ InterfaceOf[e] \in factory'
    BY <1>5 DEF ImportBegin, Install
  <2> QED
    BY <1>1, <1>2, <2>1, <2>2 DEF Held
<1>6. ASSUME NEW e \in Import, NEW v \in Wtm, WtmAddedRequest(v, e)
      PROVE  \A f \in imported' : Held(f)'
  <2>1. UNCHANGED <<imported, factory>>
    BY <1>6 DEF WtmAddedRequest
  <2>2. PICK b \in BOOLEAN : regs' = [regs EXCEPT ![e] = IF b THEN @ + 1 ELSE @]
    BY <1>6, Zenon DEF WtmAddedRequest
  <2>3. \A f \in imported : regs'[f] > 0
    BY <1>1, <1>2, <2>2
  <2> QED
    BY <1>1, <2>1, <2>3 DEF Held
<1>7. CASE Stop
  BY <1>7 DEF Stop
<1>8. CASE Aside
  BY <1>3, <1>8, AsideSame
<1>9. CASE \/ \E i \in Interface : ProxyStopped(i) \/ ProxyStarted(i)
           \/ \E e \in Import, v \in Wtm : AddWiringEndpoint(v, e)
  BY <1>3, <1>9 DEF ProxyStopped, ProxyStarted, AddWiringEndpoint
<1>10. ASSUME NEW e \in Import, Close(e) PROVE \A f \in imported' : Held(f)'
  <2>1. CASE e \in imported /\ Tracked(e)
    BY <1>4, <1>10, <2>1 DEF Close
  <2>2. CASE ~(e \in imported /\ Tracked(e))
    BY <1>3, <1>10, <2>2 DEF Close
  <2> QED
    BY <2>1, <2>2
<1>11. ASSUME NEW v \in Wtm, RemoveWiringEndpoint(v) PROVE \A f \in imported' : Held(f)'
  BY <1>3, <1>4, <1>11 DEF RemoveWiringEndpoint
<1> QED
  BY <1>5, <1>6, <1>7, <1>8, <1>9, <1>10, <1>11, Others

\* what becomes of the proxies: an imported description gets one, and one that
\* goes takes its proxy along
LEMMA ProxiesStep ==
  ASSUME TypeOK, LockInv, EntriesExact, [Next]_vars, fault = "none"
  PROVE  /\ proxies' \subseteq imported'
         /\ proxies' \subseteq proxies \cup imported
<1>1. proxies \subseteq imported
  BY DEF EntriesExact
<1>2. ASSUME NEW e \in imported, Drop(e)
      PROVE  proxies' \subseteq imported' /\ proxies' \subseteq proxies \cup imported
  BY <1>1, <1>2, DropFacts
<1>3. CASE proxies' \subseteq proxies /\ UNCHANGED imported
  BY <1>1, <1>3
<1>4. CASE Aside
  BY <1>3, <1>4, AsideSame
<1>5. CASE \E i \in Interface : ProxyStopped(i) \/ ProxyStarted(i)
  BY <1>3, <1>5 DEF ProxyStopped, ProxyStarted, ProxiesGone
<1>6. CASE \E e \in Import : ImportBegin(e)
  BY <1>1, <1>6 DEF ImportBegin
<1>7. ASSUME NEW e \in Import, Close(e)
      PROVE  proxies' \subseteq imported' /\ proxies' \subseteq proxies \cup imported
  <2>1. CASE e \in imported /\ Tracked(e)
    BY <1>2, <1>7, <2>1 DEF Close
  <2>2. CASE ~(e \in imported /\ Tracked(e))
    BY <1>3, <1>7, <2>2 DEF Close
  <2> QED
    BY <2>1, <2>2
<1>8. ASSUME NEW v \in Wtm, RemoveWiringEndpoint(v)
      PROVE  proxies' \subseteq imported' /\ proxies' \subseteq proxies \cup imported
  BY <1>2, <1>3, <1>8 DEF RemoveWiringEndpoint
<1>9. ASSUME NEW e \in Import, NEW v \in Wtm, AddWiringEndpoint(v, e)
      PROVE  proxies' \subseteq imported' /\ proxies' \subseteq proxies \cup imported
  <2>1. UNCHANGED imported
    BY <1>9 DEF AddWiringEndpoint
  <2>2. proxies' = proxies \/ (e \in imported /\ proxies' = proxies \cup {e})
    BY <1>9 DEF AddWiringEndpoint, RegisterProxies
  <2> QED
    BY <1>1, <2>1, <2>2
<1>10. ASSUME NEW e \in Import, NEW v \in Wtm, WtmAddedRequest(v, e)
       PROVE  proxies' \subseteq imported' /\ proxies' \subseteq proxies \cup imported
  <2>1. UNCHANGED imported /\ e \in imported
    BY <1>10 DEF WtmAddedRequest, LockInv
  <2>2. proxies' \subseteq proxies \cup {e}
    BY <1>10 DEF WtmAddedRequest, RegisterProxies
  <2> QED
    BY <1>1, <2>1, <2>2
<1>11. CASE Stop
  <2>1. proxies' = {e \in proxies : regs[e] = 0}
    BY <1>11 DEF Stop
  <2>2. \A e \in imported : regs[e] > 0 /\ regs[e] \in Nat
    BY RegsNat DEF EntriesExact, TypeOK
  <2>3. proxies' = {}
    BY <1>1, <2>1, <2>2
  <2> QED
    BY <2>3
<1> QED
  BY <1>4, <1>5, <1>6, <1>7, <1>8, <1>9, <1>10, <1>11, Others

LEMMA CleanStep ==
  ASSUME TypeOK, LockInv, NotBegun, EntriesExact, [Next]_vars, fault = "none"
  PROVE  \A e \in Import : Clean(e)'
<1> SUFFICES ASSUME NEW e \in Import, e \in Freed', e \in imported'
             PROVE  e \in untracked'
  BY ProxiesStep DEF Clean
<1>1. untracked \subseteq untracked'
  BY DEF Next, StartListener, StartTracker, ProxyStopped, ProxyStarted, ImportFails,
     ImportBegin, ImportReturn, Close, ImportCall, AddWiringEndpoint, WtmAddedRequest,
     WtmWireUp, WtmWireDown, RemoveWiringEndpoint, WtmGone, WtmAddedList, WtmAddedLock,
     WtmAddedUnlock, SendServiceAdded, SendServiceRemoved, SendStart, SendEnd,
     StopUnpublish, Stop, Destroy, StopListener, vars
<1>2. CASE e \in Freed
  <2>1. ~ImportBegin(e)
    BY <1>2 DEF ImportBegin, Freed
  <2>2. ASSUME NEW f \in Import, ImportBegin(f) PROVE imported' = imported \cup {f}
    BY <2>2 DEF ImportBegin
  <2>3. e \in imported
    BY <2>1, <2>2, ImportedStep
  <2> QED
    BY <1>1, <1>2, <2>3 DEF EntriesExact
<1>3. CASE e \notin Freed
  <2>1. Close(e)
    BY <1>3, FreedStep
  <2> QED
    BY <2>1 DEF Close, Drop
<1> QED
  BY <1>2, <1>3

LEMMA EntriesStep ==
  ASSUME TypeOK, LockInv, NotBegun, EntriesExact, [Next]_vars
  PROVE  EntriesExact'
<1>1. CASE Next
  <2>1. fault = "none"
    BY <1>1, NoFault
  <2>2. /\ \A e \in imported' : Held(e)'
        /\ \A e \in Import : Clean(e)'
        /\ proxies' \subseteq imported'
    BY <2>1, HeldStep, CleanStep, ProxiesStep
  <2>3. Freed' \subseteq Import
    BY DEF Freed
  <2> QED
    BY <2>2, <2>3 DEF EntriesExact, Held, Clean
<1>2. CASE UNCHANGED vars
  BY <1>2 DEF vars, EntriesExact, Freed
<1> QED
  BY <1>1, <1>2

-----------------------------------------------------------------------------
(***************************************************************************)
(* No import is lost.                                                      *)
(***************************************************************************)

\* an entry of which an asked WTM has the wire
Served(v, e) ==
  <<v, e>> \in named /\ WireOf[e] \in wires[v] =>
    e \in proxies \cup adding[v] \/ InterfaceOf[e] \in fell \/ <<v, e>> \in lost

\* the proxy of an entry that stays goes with its bundle only
LEMMA ProxyStays ==
  ASSUME TypeOK, LockInv, EntriesExact, [Next]_vars, phase' = "running",
         NEW e \in imported, e \in imported', e \in proxies
  PROVE  e \in proxies' \/ InterfaceOf[e] \in fell'
<1>1. e \in Import
  BY DEF TypeOK
<1>2. ASSUME NEW f \in imported, Drop(f), fault = "none" PROVE e \in proxies'
  BY <1>2, DropFacts
<1>3. CASE Aside
  BY <1>3, AsideSame
<1>4. ASSUME NEW i \in Interface, ProxyStopped(i)
      PROVE  e \in proxies' \/ InterfaceOf[e] \in fell'
  BY <1>1, <1>4 DEF ProxyStopped, ProxiesGone, OfIntf
<1>5. ASSUME NEW f \in Import, Close(f) PROVE e \in proxies'
  <2>1. CASE f \in imported /\ Tracked(f)
    BY <1>2, <1>5, <2>1 DEF Close
  <2>2. CASE ~(f \in imported /\ Tracked(f))
    BY <1>5, <2>2 DEF Close
  <2> QED
    BY <2>1, <2>2
<1>6. ASSUME NEW v \in Wtm, RemoveWiringEndpoint(v) PROVE e \in proxies'
  BY <1>2, <1>6 DEF RemoveWiringEndpoint
<1>7. CASE \/ \E i \in Interface : ProxyStarted(i)
           \/ \E f \in Import : ImportBegin(f)
           \/ \E f \in Import, v \in Wtm : AddWiringEndpoint(v, f) \/ WtmAddedRequest(v, f)
  BY <1>7 DEF ProxyStarted, ImportBegin, AddWiringEndpoint, WtmAddedRequest,
     RegisterProxies
<1>8. ~Stop
  BY DEF Stop
<1> QED
  BY <1>3, <1>4, <1>5, <1>6, <1>7, <1>8, Others

\* an interface whose bundle fell is remembered
LEMMA FellStays == ASSUME [Next]_vars PROVE fell \subseteq fell'
<1>1. CASE Aside
  BY <1>1, AsideSame
<1>2. CASE ~Aside
  BY <1>2, Others DEF ProxyStopped, ProxyStarted, ImportBegin, Close, AddWiringEndpoint,
     WtmAddedRequest, RemoveWiringEndpoint, Stop
<1> QED
  BY <1>1, <1>2

LEMMA NoLostStep ==
  ASSUME TypeOK, LockInv, WtmInv, AskedInv, EntriesExact, NoLostImport, [Next]_vars
  PROVE  NoLostImport'
<1> SUFFICES ASSUME fault' = "none", phase' = "running", NEW e \in imported', NEW v \in Wtm
             PROVE  Served(v, e)'
  BY DEF NoLostImport, Served
<1>1. /\ phase = "running" /\ listener /\ fault = "none"
      /\ e \in Import
  <2>1. fault = "none"
    BY NoFault DEF vars
  <2>2. imported \subseteq Import
    BY DEF TypeOK
  <2>3. ASSUME NEW f \in Import, ImportBegin(f) PROVE imported' = imported \cup {f}
    BY <2>3 DEF ImportBegin
  <2> QED
    BY <2>1, <2>2, <2>3, ImportedStep, Runs
<1>2. CASE e \notin imported
  <2>1. PICK f \in Import : ImportBegin(f)
    BY <1>2, ImportedStep
  <2>2. f = e /\ iPc[e] = "new" /\ UNCHANGED named
    BY <1>2, <2>1 DEF ImportBegin
  <2>3. <<v, e>> \notin named'
    BY <1>1, <2>2 DEF AskedInv
  <2> QED
    BY <2>3 DEF Served
<1>3. CASE e \in imported
  <2>1. Served(v, e) /\ Kept(v, e)
    BY <1>1, <1>3 DEF NoLostImport, Served, AskedInv, Kept
  <2>2. e \in proxies => e \in proxies' \/ InterfaceOf[e] \in fell'
    BY <1>3, ProxyStays
  <2>3. /\ InterfaceOf[e] \in fell => InterfaceOf[e] \in fell'
        /\ <<v, e>> \in lost => <<v, e>> \in lost'
    BY FellStays, LostStays
  <2>4. CASE ~Requests
    BY <2>1, <2>2, <2>3, <2>4, RequestsSame DEF Served
  <2>5. ASSUME NEW f \in Import, NEW x \in Wtm, ImportCall(f, x) PROVE Served(v, e)'
    <3>1. /\ named' = named \cup {<<x, f>>} /\ adding[x] = {} /\ UNCHANGED <<wires, proxies>>
          /\ \/ WireOf[f] \in wires[x] /\ adding' = [adding EXCEPT ![x] = {f}]
             \/ WireOf[f] \notin wires[x] /\ adding' = adding
      BY <1>1, <2>5 DEF ImportCall, Busy
    <3>2. CASE x = v /\ f = e
      <4>1. WireOf[e] \in wires[v] => e \in adding'[v]
        <5>1. adding \in [Wtm -> SUBSET Import]
          BY DEF TypeOK
        <5> QED
          BY <3>1, <3>2, <5>1
      <4> QED
        BY <3>1, <4>1 DEF Served
    <3>3. CASE ~(x = v /\ f = e)
      <4>1. <<v, e>> \in named' => <<v, e>> \in named
        BY <3>1, <3>3
      <4>2. adding[v] \subseteq adding'[v]
        BY <3>1 DEF TypeOK
      <4> QED
        BY <2>1, <2>3, <3>1, <4>1, <4>2 DEF Served
    <3> QED
      BY <3>2, <3>3
  <2>6. ASSUME NEW f \in Import, NEW x \in Wtm, AddWiringEndpoint(x, f)
        PROVE  Served(v, e)'
    <3>1. /\ adding' = [adding EXCEPT ![x] = @ \ {f}] /\ UNCHANGED <<named, wires>>
      BY <2>6 DEF AddWiringEndpoint
    <3>2. f \in imported => f \in proxies'
      <4>1. f \in imported => Tracked(f)
        BY <2>6 DEF AddWiringEndpoint
      <4> QED
        BY <2>6, <4>1 DEF AddWiringEndpoint, RegisterProxies
    <3>3. e \in adding[v] => e \in adding'[v] \/ e \in proxies'
      BY <1>3, <3>1, <3>2 DEF TypeOK
    <3> QED
      BY <2>1, <2>2, <2>3, <3>1, <3>3 DEF Served
  <2>7. ASSUME NEW f \in Import, NEW x \in Wtm, WtmAddedRequest(x, f) PROVE Served(v, e)'
    <3>1. UNCHANGED <<adding, named, wires>>
      BY <2>7 DEF WtmAddedRequest
    <3> QED
      BY <2>1, <2>2, <2>3, <3>1 DEF Served
  <2>8. ASSUME NEW x \in Wtm, NEW w \in Wire, WtmWireUp(x, w) PROVE Served(v, e)'
    <3> DEFINE R == {r \in waiting[x] : WireOf[r[1]] = w}
    <3>1. /\ wires' = [wires EXCEPT ![x] = @ \cup {w}]
          /\ adding' = [adding EXCEPT ![x] = {r[1] : r \in R}]
          /\ adding[x] = {} /\ removing[x] = None
          /\ UNCHANGED <<named, proxies>>
      BY <1>1, <2>8 DEF WtmWireUp, Busy
    <3>2. CASE x = v /\ WireOf[e] = w /\ WireOf[e] \notin wires[v] /\ <<v, e>> \in named
      <4>1. WireOf[e] # None
        BY <1>1, RsaImportAssumption
      <4> SUFFICES ASSUME <<v, e>> \notin lost PROVE Served(v, e)'
        BY <2>3 DEF Served
      <4>2. <<e, TRUE>> \in waiting[v]
        <5>1. wtmPc[v] # "gone"
          BY <2>8, <3>2 DEF WtmWireUp, Ready
        <5> QED
          BY <2>1, <3>1, <3>2, <4>1, <5>1 DEF Kept
      <4>3. <<e, TRUE>> \in R
        BY <3>2, <4>2
      <4>4. e \in {r[1] : r \in R}
        BY <4>3
      <4> HIDE DEF R
      <4>5. e \in adding'[v]
        BY <3>1, <3>2, <4>4 DEF TypeOK
      <4> QED
        BY <4>5 DEF Served
    <3>3. CASE ~(x = v /\ WireOf[e] = w /\ WireOf[e] \notin wires[v] /\ <<v, e>> \in named)
      <4> HIDE DEF R
      <4>1. <<v, e>> \in named' /\ WireOf[e] \in wires'[v] =>
              <<v, e>> \in named /\ WireOf[e] \in wires[v]
        BY <3>1, <3>3 DEF TypeOK
      <4>2. adding[v] \subseteq adding'[v]
        BY <3>1 DEF TypeOK
      <4> QED
        BY <2>1, <2>3, <3>1, <4>1, <4>2 DEF Served
    <3> QED
      BY <3>2, <3>3
  <2>9. ASSUME NEW x \in Wtm, NEW w \in Wire, WtmWireDown(x, w) PROVE Served(v, e)'
    <3>1. wires' = [wires EXCEPT ![x] = @ \ {w}] /\ UNCHANGED <<adding, named, proxies>>
      BY <2>9 DEF WtmWireDown
    <3>2. wires'[v] \subseteq wires[v]
      BY <3>1 DEF TypeOK
    <3> QED
      BY <2>1, <2>3, <3>1, <3>2 DEF Served
  <2>10. ASSUME NEW x \in Wtm, RemoveWiringEndpoint(x) PROVE Served(v, e)'
    <3>1. UNCHANGED <<wires, adding, named>>
      BY <2>10 DEF RemoveWiringEndpoint
    <3> QED
      BY <2>1, <2>2, <2>3, <3>1 DEF Served
  <2>11. ASSUME NEW x \in Wtm, WtmGone(x) PROVE Served(v, e)'
    <3>1. wires' = [wires EXCEPT ![x] = {}] /\ UNCHANGED <<adding, named, proxies>>
      BY <2>11 DEF WtmGone
    <3>2. wires'[v] \subseteq wires[v]
      BY <3>1 DEF TypeOK
    <3> QED
      BY <2>1, <2>3, <3>1, <3>2 DEF Served
  <2> QED
    BY <2>4, <2>5, <2>6, <2>7, <2>8, <2>9, <2>10, <2>11 DEF Requests
<1> QED
  BY <1>2, <1>3

-----------------------------------------------------------------------------
(***************************************************************************)
(* The send services.                                                      *)
(***************************************************************************)

SendSteps ==
  \/ \E x \in SendService : SendServiceAdded(x) \/ SendServiceRemoved(x)
  \/ \E c \in Caller, e \in Import : SendStart(c, e)
  \/ \E c \in Caller : SendEnd(c)
  \/ Destroy

LEMMA SendSame ==
  ASSUME [Next]_vars, ~SendSteps
  PROVE  UNCHANGED sendVars
BY DEF Next, SendSteps, StartListener, StartTracker, ProxyStopped, ProxyStarted,
   ImportFails, ImportBegin, ImportReturn, Close, ImportCall, AddWiringEndpoint,
   WtmAddedRequest, WtmWireUp, WtmWireDown, RemoveWiringEndpoint, WtmGone, WtmAddedList,
   WtmAddedLock, WtmAddedUnlock, StopUnpublish, Stop, StopListener, vars

\* A send service is removed while nobody sends, from the one entry it can be in.
LEMMA SendStep ==
  ASSUME TypeOK, SendInv, SendAlive, [Next]_vars
  PROVE  SendInv' /\ SendAlive'
<1>1. /\ sendServices \in [Wire -> SendService \cup {None}]
      /\ sending \in [Caller -> SendService \cup {None}]
      /\ sendPc \in [SendService -> {"down", "up"}]
      /\ None \notin SendService
      /\ \A x \in SendService : SendWire[x] \in Wire
  BY RsaImportAssumption DEF TypeOK
<1>2. ASSUME NEW x \in SendService, SendServiceAdded(x) PROVE SendInv' /\ SendAlive'
  BY <1>1, <1>2 DEF SendServiceAdded, SendInv, SendAlive
<1>3. ASSUME NEW x \in SendService, SendServiceRemoved(x) PROVE SendInv' /\ SendAlive'
  <2>1. /\ sendPc' = [sendPc EXCEPT ![x] = "down"] /\ UNCHANGED sending
        /\ sendServices' = [sendServices EXCEPT ![SendWire[x]] = None]
        /\ \A c \in Caller : sending[c] = None
    BY <1>3 DEF SendServiceRemoved, Sending
  <2>2. SendInv'
    BY <1>1, <2>1 DEF SendInv
  <2>3. \A w \in Wire : sendServices'[w] # x
    BY <1>1, <2>1 DEF SendInv
  <2>4. \A w \in Wire : sendServices'[w] = None \/ sendPc'[sendServices'[w]] = "up"
    BY <1>1, <2>1, <2>3 DEF SendAlive
  <2> QED
    BY <2>1, <2>2, <2>4 DEF SendAlive
<1>4. ASSUME NEW c \in Caller, NEW e \in Import, SendStart(c, e)
      PROVE  SendInv' /\ SendAlive'
  <2>1. /\ sending' = [sending EXCEPT ![c] = sendServices[WireOf[e]]]
        /\ UNCHANGED <<sendPc, sendServices>> /\ WireOf[e] \in Wire
    BY <1>4, RsaImportAssumption DEF SendStart
  <2> QED
    BY <1>1, <2>1 DEF SendInv, SendAlive
<1>5. ASSUME NEW c \in Caller, SendEnd(c) PROVE SendInv' /\ SendAlive'
  BY <1>1, <1>5 DEF SendEnd, SendInv, SendAlive
<1>6. CASE Destroy
  BY <1>1, <1>6 DEF Destroy, SendInv, SendAlive
<1>7. CASE ~SendSteps
  BY <1>7, SendSame DEF SendInv, SendAlive
<1> QED
  BY <1>2, <1>3, <1>4, <1>5, <1>6, <1>7 DEF SendSteps

-----------------------------------------------------------------------------
(***************************************************************************)
(* The theorems.                                                           *)
(***************************************************************************)

LEMMA InitInv == Init => IInv
<1> SUFFICES ASSUME Init PROVE IInv
  OBVIOUS
<1>1. TypeOK
  <2>1. 0 \in 0..(Cardinality(Wtm) + 1)
    BY RsaImportAssumption, FS_CardinalityType
  <2> QED
    BY <2>1 DEF Init, TypeOK
<1>2. LockInv /\ WtmInv /\ AskedInv /\ SendInv /\ EntriesExact /\ NoLostImport /\ SendAlive
  BY RsaImportAssumption DEF Init, LockInv, WtmInv, AskedInv, SendInv, EntriesExact,
     NoLostImport, SendAlive, Busy, Freed
<1>3. CountInv
  BY PassedBound DEF Init, CountInv
<1> QED
  BY <1>1, <1>2, <1>3 DEF IInv

LEMMA NextInv == IInv /\ [Next]_vars => IInv'
<1> SUFFICES ASSUME IInv, [Next]_vars PROVE IInv'
  OBVIOUS
<1>1. /\ TypeOK /\ LockInv /\ WtmInv /\ AskedInv /\ CountInv /\ SendInv
      /\ EntriesExact /\ NoLostImport /\ SendAlive /\ NotBegun
  BY DEF IInv, AskedInv, NotBegun
<1>2. TypeOK' /\ LockInv' /\ WtmInv'
  BY <1>1, TypeStep, LockStep, WtmStep
<1>3. AskedInv' /\ CountInv'
  BY <1>1, AskedStep, CountStep
<1>4. EntriesExact' /\ NoLostImport'
  BY <1>1, EntriesStep, NoLostStep
<1>5. SendInv' /\ SendAlive'
  BY <1>1, SendStep
<1> QED
  BY <1>2, <1>3, <1>4, <1>5 DEF IInv

LEMMA Inductive == Spec => []IInv
BY InitInv, NextInv, PTL DEF Spec

(* The state of the admin, of its WTMs and of their calls is always of the *)
(* types that RsaImport gives; in particular a description is never in     *)
(* more registrations of its factory than one and one for each WTM.        *)
THEOREM TypeCorrect == Spec => []TypeOK
<1>1. IInv => TypeOK
  BY DEF IInv
<1> QED
  BY <1>1, Inductive, PTL

(* importedServices, the import registration factories and the proxies     *)
(* agree after every step of importService, removeImportedService, wtmAdded*)
(* and the calls of the WTMs, however many imports share a factory.        *)
THEOREM EntriesAgree == Spec => []EntriesExact
<1>1. IInv => EntriesExact
  BY DEF IInv
<1> QED
  BY <1>1, Inductive, PTL

(* An entry whose wire an asked WTM can use has its proxy, or is being     *)
(* announced, or its proxy bundle was stopped.                             *)
THEOREM ImportNeverLost == Spec => []NoLostImport
<1>1. IInv => NoLostImport
  BY DEF IInv
<1> QED
  BY <1>1, Inductive, PTL

(* Whoever holds importedServicesLock does not wait for a WTM that is      *)
(* calling the listener, but for one that ran before the bundle: its       *)
(* wtmAdded may, when another WTM has been handled already.                *)
THEOREM LocksOrdered == Spec => []NoLockCycle
<1>1. IInv => NoLockCycle
  <2> SUFFICES ASSUME IInv, NEW v \in Wtm, Busy(v)
               PROVE  /\ lock = v /\ todo # {} =>
                           /\ v \in Early
                           /\ \E u \in Wtm \ {v} : wtmPc[u] \in {"up", "gone"}
                      /\ \A e \in Import : lock = e => iPc[e] # "called"
    BY DEF NoLockCycle
  <2>1. TypeOK /\ LockInv /\ WtmInv
    BY DEF IInv
  <2>2. lock = v => wtmPc[v] = "importing" /\ v \in Early
    BY <2>1 DEF LockInv, WtmInv, Ready
  <2>3. todo # {} => \E u \in Wtm : wtmPc[u] \in {"up", "gone"}
    BY <2>1 DEF LockInv, WtmInv
  <2>4. \A e \in Import : lock # e
    BY <2>1, RsaImportAssumption DEF LockInv
  <2> QED
    BY <2>2, <2>3, <2>4
<1> QED
  BY <1>1, Inductive, PTL

(* The table of send services and the exchanges lead to send services that *)
(* are registered.                                                         *)
THEOREM SendNeverDangles == Spec => []SendAlive
<1>1. IInv => SendAlive
  BY DEF IInv
<1> QED
  BY <1>1, Inductive, PTL
=============================================================================
