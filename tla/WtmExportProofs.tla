--------------------------- MODULE WtmExportProofs ---------------------------
(* Proofs about WtmExport, for every value of its constants.               *)
EXTENDS WtmExport, TLAPS

(***************************************************************************)
(* The inductive invariant.  Each part is about one piece of the state and *)
(* is stated pointwise, without Wires and Known.                           *)
(***************************************************************************)

Stored(e) == \E p \in Props : \E w \in WA : wire[p][w] = e

\* who holds the lock, and what waList holds
LockInv ==
  /\ lock # None => waPc[lock] \in {"exporting", "removing"}
  /\ \A w \in WA : waPc[w] \in {"exporting", "removing"} => lock = w
  /\ \A w \in WA : w \in waList <=> waPc[w] \notin {"new", "gone"}
  /\ lock = None => todo = {}
  /\ closing # None => lock # None /\ waPc[lock] = "removing"
  /\ \A p \in todo : key[p] # None

\* endpoints are fresh when they are created, and carry a service from then on
FreshInv ==
  /\ \A p \in Props : \A w \in WA : wire[p][w] # None => wire[p][w] < nextEp
  /\ \A e \in freed : e < nextEp
  /\ \A w \in WA : \A e \in open[w] : e < nextEp
  /\ \A l \in Listener : \A h \in heard[l] : h[1] < nextEp
  /\ closing # None => closing < nextEp
  /\ \A e \in Endpoint : e < nextEp => reqId[e] \in Service

\* the map, the endpoint being closed and the destroyed ones are disjoint
StoreInv ==
  /\ \A p \in Props : key[p] = None => \A w \in WA : wire[p][w] = None
  /\ \A p \in Props : \A w \in WA :
       wire[p][w] # None => wire[p][w] \notin freed /\ wire[p][w] # closing
  /\ \A p, q \in Props : \A v, w \in WA :
       wire[p][v] # None /\ wire[p][v] = wire[q][w] => p = q /\ v = w
  /\ closing \notin freed

\* what the listeners know
HeardInv ==
  /\ \A l \in Listener : lPc[l] = "settled" =>
       \A p \in Props : \A w \in WA :
         wire[p][w] # None => \E h \in heard[l] : h[1] = wire[p][w]
  /\ \A l \in Listener : \A h \in heard[l] :
       h[1] # closing /\ (h[1] \in freed => h[1] \in withdrawn)

\* a request waits only for admins that have not been asked or cannot help
WaitInv ==
  \A s \in waiting : \A w \in WA :
    \/ waPc[w] = "tracked"
    \/ waPc[w] = "exporting" /\ s \notin retry
    => CannotOpen(w, PropsOf[s])

\* the endpoints of a running admin
OpenInv ==
  \A w \in WA : waPc[w] \in {"new", "listed", "exporting", "tracked"} =>
    \A e \in open[w] : e \in overwritten \/ \E p \in Props : wire[p][w] = e

IInv == StateTypeOK /\ LockInv /\ FreshInv /\ StoreInv /\ HeardInv /\ WaitInv /\ OpenInv

-----------------------------------------------------------------------------

(* The inductive invariant holds initially.                                *)
LEMMA InitIInv == Init => IInv
BY ExportAssumption DEF Init, IInv, StateTypeOK, LockInv, FreshInv, StoreInv, HeardInv,
   WaitInv, OpenInv, Endpoint

(* What OpenEndpoint does, in a form without EXCEPT.                       *)
OpenEffect(w, s) ==
  /\ nextEp \in Endpoint
  /\ nextEp' = nextEp + 1
  /\ open' \in [WA -> SUBSET Endpoint]
  /\ \A v \in WA : open'[v] = IF v = w THEN open[v] \cup {nextEp} ELSE open[v]
  /\ reqId' \in [Endpoint -> Service \cup {None}]
  /\ \A e \in Endpoint : reqId'[e] = IF e = nextEp THEN s ELSE reqId[e]
  /\ heard' \in [Listener -> SUBSET (Endpoint \X Service)]
  /\ \A l \in Listener :
       heard'[l] = IF lPc[l] # "absent" THEN heard[l] \cup {<<nextEp, s>>}
                                        ELSE heard[l]
  /\ freed' = freed /\ lPc' = lPc
  /\ nextEp' \in 1..(MaxEndpoint + 1)

(* A step of OpenEndpoint has that effect.                                 *)
LEMMA OpenEndpointFacts ==
  ASSUME StateTypeOK, NEW w \in WA, NEW s \in Service, OpenEndpoint(w, s)
  PROVE  OpenEffect(w, s)
<1>1. nextEp \in Endpoint
  BY ExportAssumption DEF OpenEndpoint, StateTypeOK, Endpoint
<1>2. {nextEp} \X {s} = {<<nextEp, s>>}
  OBVIOUS
<1>3. heard' = [l \in Listener |->
                  IF lPc[l] # "absent" THEN heard[l] \cup {<<nextEp, s>>} ELSE heard[l]]
  BY <1>2 DEF OpenEndpoint, NotifyAdded, Present
<1>4. /\ heard' \in [Listener -> SUBSET (Endpoint \X Service)]
      /\ \A l \in Listener :
           heard'[l] = IF lPc[l] # "absent" THEN heard[l] \cup {<<nextEp, s>>}
                                            ELSE heard[l]
  <2>1. <<nextEp, s>> \in Endpoint \X Service
    BY <1>1
  <2> QED
    BY <2>1, <1>3 DEF StateTypeOK
<1>5. /\ open' \in [WA -> SUBSET Endpoint]
      /\ \A v \in WA : open'[v] = IF v = w THEN open[v] \cup {nextEp} ELSE open[v]
  BY <1>1 DEF OpenEndpoint, StateTypeOK
<1>6. /\ reqId' \in [Endpoint -> Service \cup {None}]
      /\ \A e \in Endpoint : reqId'[e] = IF e = nextEp THEN s ELSE reqId[e]
  BY <1>1 DEF OpenEndpoint, StateTypeOK
<1>7. /\ nextEp' = nextEp + 1
      /\ nextEp' \in 1..(MaxEndpoint + 1)
      /\ freed' = freed /\ lPc' = lPc
  BY ExportAssumption DEF OpenEndpoint, StateTypeOK
<1> QED
  BY <1>1, <1>4, <1>5, <1>6, <1>7 DEF OpenEffect

(* The endpoints stored for a property class, one by one.                  *)
LEMMA WiresOfMember ==
  ASSUME NEW p \in Props, NEW e
  PROVE  e \in WiresOf(p) <=> e # None /\ \E w \in WA : wire[p][w] = e
BY DEF WiresOf

(* The endpoints of the whole map, one by one.                             *)
LEMMA WiresMember ==
  ASSUME NEW e
  PROVE  e \in Wires <=> e # None /\ Stored(e)
BY WiresOfMember DEF Wires, Stored

(* The announcement of the endpoints E on behalf of service s.             *)
LEMMA NotifyAddedFacts ==
  ASSUME StateTypeOK, NEW E \in SUBSET Endpoint, NEW s \in Service, NotifyAdded(E, s)
  PROVE  /\ heard' \in [Listener -> SUBSET (Endpoint \X Service)]
         /\ \A l \in Listener :
              /\ heard[l] \subseteq heard'[l]
              /\ \A h \in heard'[l] : h \in heard[l] \/ h[1] \in E
<1>1. E \X {s} \subseteq Endpoint \X Service
  OBVIOUS
<1>2. \A h \in E \X {s} : h[1] \in E
  OBVIOUS
<1> QED
  BY <1>1, <1>2 DEF NotifyAdded, StateTypeOK

(* The withdrawal of an endpoint: nobody knows it any more, and what else  *)
(* was known stays known.                                                  *)
LEMMA NotifyRemovedFacts ==
  ASSUME StateTypeOK, NEW e, NotifyRemoved(e)
  PROVE  /\ heard' \in [Listener -> SUBSET (Endpoint \X Service)]
         /\ \A l \in Listener : \A h : h \in heard'[l] <=> h \in heard[l] /\ h[1] # e
BY DEF NotifyRemoved, StateTypeOK

(* Opening an endpoint and storing it in the slot of p and w, while other  *)
(* slots are kept or cleared, keeps the parts about endpoints.             *)
LEMMA OpenKeepsInv ==
  ASSUME IInv, NEW w \in WA, NEW p \in Props, NEW s \in Service, OpenEndpoint(w, s),
         UNCHANGED <<closing, withdrawn>>,
         wire'[p][w] = nextEp,
         \A q \in Props : \A v \in WA :
           (q = p /\ v = w) \/ wire'[q][v] = wire[q][v] \/ wire'[q][v] = None,
         \A q \in Props : key'[q] = None => q # p /\ key[q] = None
  PROVE  FreshInv' /\ StoreInv' /\ HeardInv'
<1>y. OpenEffect(w, s)
  BY OpenEndpointFacts DEF IInv
<1>o. /\ nextEp \in Endpoint
      /\ nextEp' = nextEp + 1
      /\ \A v \in WA : open'[v] = IF v = w THEN open[v] \cup {nextEp} ELSE open[v]
      /\ \A e \in Endpoint : reqId'[e] = IF e = nextEp THEN s ELSE reqId[e]
      /\ \A l \in Listener :
           heard'[l] = IF lPc[l] # "absent" THEN heard[l] \cup {<<nextEp, s>>}
                                            ELSE heard[l]
      /\ freed' = freed /\ lPc' = lPc
  BY <1>y DEF OpenEffect
<1> USE ExportAssumption DEF IInv
<1>t. /\ \A e \in Endpoint : e \in Nat /\ e # None
      /\ freed \subseteq Endpoint /\ closing \in Endpoint \cup {None}
      /\ \A v \in WA : open[v] \subseteq Endpoint
      /\ \A l \in Listener : \A h \in heard[l] : h[1] \in Endpoint
      /\ \A q \in Props : \A v \in WA : wire[q][v] \in Endpoint \cup {None}
  BY DEF StateTypeOK, Endpoint
<1>n. /\ nextEp # None /\ nextEp \notin freed /\ nextEp # closing
      /\ \A q \in Props : \A v \in WA : wire[q][v] # nextEp
  BY <1>o, <1>t DEF FreshInv
<1>h. /\ \A l \in Listener : \A h \in heard'[l] : h \in heard[l] \/ h[1] = nextEp
      /\ \A l \in Listener : \A h \in heard[l] : h \in heard'[l]
  <2>1. ASSUME NEW l \in Listener, NEW h \in heard'[l]
        PROVE  h \in heard[l] \/ h = <<nextEp, s>>
    <3>1. heard'[l] = heard[l] \/ heard'[l] = heard[l] \cup {<<nextEp, s>>}
      BY <1>o
    <3> QED
      BY <2>1, <3>1
  <2>2. <<nextEp, s>>[1] = nextEp
    OBVIOUS
  <2>3. ASSUME NEW l \in Listener, NEW h \in heard[l]
        PROVE  h \in heard'[l]
    BY <2>3, <1>o
  <2> QED
    BY <2>1, <2>2, <2>3
<1>1. FreshInv'
  <2>1. \A e \in Endpoint : e < nextEp => e < nextEp'
    BY <1>o, <1>t
  <2>2. nextEp < nextEp'
    BY <1>o, <1>t
  <2>3. \A q \in Props : \A v \in WA : wire'[q][v] # None => wire'[q][v] < nextEp'
    BY <2>1, <2>2, <1>t DEF FreshInv
  <2>4. /\ \A e \in freed' : e < nextEp'
        /\ closing' # None => closing' < nextEp'
    BY <1>o, <1>t, <2>1 DEF FreshInv
  <2>5. ASSUME NEW v \in WA, NEW e \in open'[v]
        PROVE  e < nextEp'
    <3>1. CASE e = nextEp
      BY <3>1, <2>2
    <3>2. CASE e \in open[v]
      BY <3>2, <1>t, <2>1 DEF FreshInv
    <3>3. open'[v] = open[v] \/ open'[v] = open[v] \cup {nextEp}
      BY <1>o
    <3> QED
      BY <2>5, <3>1, <3>2, <3>3
  <2>6. ASSUME NEW l \in Listener, NEW h \in heard'[l]
        PROVE  h[1] < nextEp'
    <3>1. CASE h[1] = nextEp
      BY <3>1, <2>2
    <3>2. CASE h \in heard[l]
      BY <3>2, <1>t, <2>1 DEF FreshInv
    <3> QED
      BY <2>6, <1>h, <3>1, <3>2
  <2>7. \A e \in Endpoint : e < nextEp' => reqId'[e] \in Service
    BY <1>o, <1>t DEF FreshInv
  <2> QED
    BY <2>3, <2>4, <2>5, <2>6, <2>7 DEF FreshInv
<1>2. StoreInv'
  BY <1>o, <1>n DEF StoreInv
<1>3. HeardInv'
  <2>1. ASSUME NEW l \in Listener, lPc'[l] = "settled", NEW q \in Props, NEW v \in WA,
               wire'[q][v] # None
        PROVE  \E h \in heard'[l] : h[1] = wire'[q][v]
    <3>1. CASE q = p /\ v = w
      <4>1. <<nextEp, s>> \in heard'[l]
        BY <1>o, <2>1
      <4> QED
        BY <3>1, <4>1
    <3>2. CASE ~(q = p /\ v = w)
      <4>1. lPc[l] = "settled" /\ wire'[q][v] = wire[q][v] /\ wire[q][v] # None
        BY <3>2, <2>1, <1>o
      <4>2. PICK h \in heard[l] : h[1] = wire[q][v]
        BY <4>1 DEF HeardInv
      <4> QED
        BY <4>1, <4>2, <1>h
    <3> QED
      BY <3>1, <3>2
  <2>2. ASSUME NEW l \in Listener, NEW h \in heard'[l]
        PROVE  h[1] # closing' /\ (h[1] \in freed' => h[1] \in withdrawn')
    BY <2>2, <1>h, <1>n, <1>o DEF HeardInv
  <2> QED
    BY <2>1, <2>2 DEF HeardInv
<1> QED
  BY <1>1, <1>2, <1>3

(* Announcing the endpoints of an entry again: they are in the map, so     *)
(* alive, and nobody learns of another one.                                *)
LEMMA ReuseWireStep ==
  ASSUME IInv, NEW s \in Service, lock = None, ReuseWire(s), waVars' = waVars, requested' = requested \cup {s}
  PROVE  IInv'
<1> USE ExportAssumption DEF IInv, waVars, mapVars
<1> DEFINE p == PropsOf[s]
<1>p. p \in Props
  OBVIOUS
<1>w. \A e : e \in WiresOf(p) <=> e # None /\ \E w \in WA : wire[p][w] = e
  BY <1>p, WiresOfMember
<1>e. WiresOf(p) \in SUBSET Endpoint
  BY <1>p, <1>w DEF StateTypeOK
<1>n. NotifyAdded(WiresOf(p), s)
  BY DEF ReuseWire
<1>h. /\ heard' \in [Listener -> SUBSET (Endpoint \X Service)]
      /\ \A l \in Listener :
           /\ heard[l] \subseteq heard'[l]
           /\ \A h \in heard'[l] : h \in heard[l] \/ h[1] \in WiresOf(p)
  BY <1>e, <1>n, NotifyAddedFacts
<1>r. /\ reqId' \in [Endpoint -> Service \cup {None}]
      /\ \A e \in Endpoint : reqId'[e] = s \/ reqId'[e] = reqId[e]
  BY DEF ReuseWire, StateTypeOK
<1>u. /\ UNCHANGED <<waList, waPc, lock, todo, retry, closing, key, wire, waiting>>
      /\ UNCHANGED <<nextEp, open, freed, lPc, withdrawn, overwritten>>
  BY DEF ReuseWire
<1>1. StateTypeOK'
  BY <1>h, <1>r, <1>u DEF ReuseWire, StateTypeOK
<1>2. LockInv'
  BY <1>u DEF LockInv
<1>3. FreshInv'
  BY <1>p, <1>w, <1>h, <1>r, <1>u DEF FreshInv
<1>4. StoreInv'
  BY <1>u DEF StoreInv
<1>5. HeardInv'
  <2>1. \A l \in Listener : \A h \in heard'[l] :
          h[1] # closing' /\ (h[1] \in freed' => h[1] \in withdrawn')
    BY <1>p, <1>w, <1>h, <1>u DEF HeardInv, StoreInv
  <2>2. \A l \in Listener : lPc'[l] = "settled" =>
          \A q \in Props : \A w \in WA :
            wire'[q][w] # None => \E h \in heard'[l] : h[1] = wire'[q][w]
    BY <1>h, <1>u DEF HeardInv
  <2> QED
    BY <2>1, <2>2 DEF HeardInv
<1>6. WaitInv'
  BY <1>u DEF WaitInv, CannotOpen
<1>7. OpenInv'
  BY <1>u DEF OpenInv
<1> QED
  BY <1>1, <1>2, <1>3, <1>4, <1>5, <1>6, <1>7

(* A request that waits: no admin is listed, so none is tracked.           *)
LEMMA WaitForWAStep ==
  ASSUME IInv, NEW s \in Service, lock = None, WaitForWA(s), waVars' = waVars, requested' = requested \cup {s}
  PROVE  IInv'
<1> USE ExportAssumption DEF IInv, WaitForWA, waVars, mapVars, epVars, lVars, history
<1>1. StateTypeOK'
  BY DEF StateTypeOK
<1>2. LockInv'
  BY DEF LockInv, StateTypeOK, Entries
<1>3. FreshInv'
  BY DEF FreshInv, StateTypeOK, Endpoint, LockInv
<1>4. StoreInv'
  BY DEF StoreInv, StateTypeOK, FreshInv, LockInv, Endpoint
<1>5. HeardInv'
  BY DEF HeardInv, StateTypeOK, StoreInv, FreshInv, Endpoint, LockInv
<1>6. WaitInv'
  BY DEF WaitInv, StateTypeOK, LockInv, CannotOpen
<1>7. OpenInv'
  BY DEF OpenInv, StateTypeOK, LockInv, StoreInv
<1> QED
  BY <1>1, <1>2, <1>3, <1>4, <1>5, <1>6, <1>7

(* A new entry: its property class had no endpoint, and the one opened is  *)
(* fresh.                                                                  *)
LEMMA NewWireStep ==
  ASSUME IInv, NEW s \in Service, lock = None, NewWire(s), waVars' = waVars, requested' = requested \cup {s}
  PROVE  IInv'
<1> USE ExportAssumption DEF IInv
<1> DEFINE p == PropsOf[s]
<1>p. p \in Props /\ key[p] = None
  BY DEF NewWire, Entries
<1>u. /\ UNCHANGED <<waList, waPc, lock, todo, retry, closing>>
      /\ UNCHANGED <<waiting, withdrawn, overwritten>>
      /\ key' = [key EXCEPT ![p] = s]
      /\ served' = served \cup {s}
  BY DEF NewWire, waVars
<1>k. /\ key' \in [Props -> Service \cup {None}]
      /\ \A q \in Props : key'[q] = None => q # p /\ key[q] = None
  BY <1>u, <1>p DEF StateTypeOK
<1>2. LockInv'
  BY <1>u, <1>k DEF LockInv
<1>6. WaitInv'
  BY <1>u DEF WaitInv, CannotOpen
<1>a. ASSUME NEW w \in WA, w \in waList, OpenEndpoint(w, s),
             wire' = [wire EXCEPT ![p] = [v \in WA |-> IF v = w THEN nextEp ELSE None]]
      PROVE  IInv'
  <2>o. /\ nextEp \in Endpoint
        /\ open' \in [WA -> SUBSET Endpoint]
        /\ \A v \in WA : open'[v] = IF v = w THEN open[v] \cup {nextEp} ELSE open[v]
        /\ reqId' \in [Endpoint -> Service \cup {None}]
        /\ heard' \in [Listener -> SUBSET (Endpoint \X Service)]
        /\ freed' = freed /\ lPc' = lPc
        /\ nextEp' \in 1..(MaxEndpoint + 1)
    BY <1>a, OpenEndpointFacts DEF OpenEffect
  <2>w. /\ wire' \in [Props -> [WA -> Endpoint \cup {None}]]
        /\ \A q \in Props : \A v \in WA :
             wire'[q][v] = IF q = p THEN IF v = w THEN nextEp ELSE None ELSE wire[q][v]
    BY <1>a, <1>p, <2>o DEF StateTypeOK
  <2>1. StateTypeOK'
    <3>1. served' \subseteq Service /\ requested' \subseteq Service
      BY <1>u DEF StateTypeOK
    <3> QED
      BY <1>u, <1>k, <2>o, <2>w, <3>1 DEF StateTypeOK
  <2>3. FreshInv' /\ StoreInv' /\ HeardInv'
    <3>1. wire'[p][w] = nextEp
      BY <1>p, <2>w
    <3>2. \A q \in Props : \A v \in WA :
            (q = p /\ v = w) \/ wire'[q][v] = wire[q][v] \/ wire'[q][v] = None
      BY <2>w
    <3> QED
      BY <1>a, <1>p, <1>u, <1>k, <3>1, <3>2, OpenKeepsInv
  <2>7. OpenInv'
    <3> SUFFICES ASSUME NEW v \in WA,
                        waPc'[v] \in {"new", "listed", "exporting", "tracked"},
                        NEW e \in open'[v]
                 PROVE  e \in overwritten' \/ \E q \in Props : wire'[q][v] = e
      BY DEF OpenInv
    <3>1. CASE v = w /\ e = nextEp
      BY <3>1, <1>p, <2>w
    <3>2. CASE e \in open[v]
      <4>1. e \in overwritten \/ \E q \in Props : wire[q][v] = e
        BY <1>u, <3>2 DEF OpenInv
      <4>2. e # None /\ \A x \in WA : wire[p][x] = None
        BY <3>2, <1>p DEF StateTypeOK, StoreInv
      <4> QED
        BY <4>1, <4>2, <1>u, <2>w
    <3> QED
      BY <3>1, <3>2, <2>o
  <2> QED
    BY <1>2, <1>6, <2>1, <2>3, <2>7
<1>b. CASE /\ wire' = [wire EXCEPT ![p] = [v \in WA |-> None]]
           /\ UNCHANGED <<epVars, lVars>>
  <2> USE DEF epVars, lVars
  <2>w. wire' = wire
    <3>1. wire[p] = [v \in WA |-> None]
      BY <1>p DEF StateTypeOK, StoreInv
    <3> QED
      BY <1>b, <3>1 DEF StateTypeOK
  <2>1. StateTypeOK'
    BY <1>b, <1>u, <1>k, <2>w DEF StateTypeOK
  <2>3. FreshInv'
    BY <1>b, <1>u, <2>w DEF FreshInv
  <2>4. StoreInv'
    BY <1>b, <1>u, <1>k, <2>w DEF StoreInv
  <2>5. HeardInv'
    BY <1>b, <1>u, <2>w DEF HeardInv
  <2>7. OpenInv'
    BY <1>b, <1>u, <2>w DEF OpenInv
  <2> QED
    BY <1>2, <1>6, <2>1, <2>3, <2>4, <2>5, <2>7
<1> QED
  BY <1>a, <1>b DEF NewWire, StateTypeOK

(* Withdrawing an entry destroys endpoints that no other entry holds;      *)
(* listeners may keep them, which is what withdrawn records.               *)
LEMMA RemoveExportedStep ==
  ASSUME IInv, NEW p \in Props, RemoveExportedWiringEndpoint(p)
  PROVE  IInv'
<1> USE ExportAssumption DEF IInv
<1>e. \A e : e \in WiresOf(p) <=> e # None /\ \E w \in WA : wire[p][w] = e
  BY WiresOfMember
<1>s. WiresOf(p) \subseteq Endpoint
  BY <1>e DEF StateTypeOK
<1>u. /\ UNCHANGED <<waList, waPc, lock, todo, retry, closing>>
      /\ UNCHANGED <<waiting, nextEp, reqId, lPc, heard, requested, overwritten>>
      /\ lock = None
      /\ freed' = freed \cup WiresOf(p)
      /\ withdrawn' = withdrawn \cup WiresOf(p)
      /\ served' \subseteq served
  BY DEF RemoveExportedWiringEndpoint, waVars, lVars
<1>k. /\ key' \in [Props -> Service \cup {None}]
      /\ \A q \in Props : key'[q] = IF q = p THEN None ELSE key[q]
  BY DEF RemoveExportedWiringEndpoint, StateTypeOK
<1>w. /\ wire' \in [Props -> [WA -> Endpoint \cup {None}]]
      /\ \A q \in Props : \A v \in WA :
           wire'[q][v] = IF q = p THEN None ELSE wire[q][v]
  BY DEF RemoveExportedWiringEndpoint, StateTypeOK
<1>o. /\ open' \in [WA -> SUBSET Endpoint]
      /\ \A v \in WA : open'[v] = open[v] \ WiresOf(p)
  BY DEF RemoveExportedWiringEndpoint, StateTypeOK
<1>1. StateTypeOK'
  BY <1>s, <1>u, <1>k, <1>w, <1>o DEF StateTypeOK
<1>2. LockInv'
  BY <1>u, <1>k DEF LockInv
<1>3. FreshInv'
  <2>1. \A q \in Props : \A v \in WA : wire'[q][v] # None => wire'[q][v] < nextEp'
    <3>1. \A q \in Props : \A v \in WA :
            wire'[q][v] # None => wire'[q][v] = wire[q][v] /\ nextEp' = nextEp
      BY <1>w, <1>u
    <3> QED
      BY <3>1 DEF FreshInv
  <2>2. \A e \in WiresOf(p) : e < nextEp
    BY <1>e DEF FreshInv
  <2>3. \A e \in freed' : e < nextEp'
    BY <2>2, <1>u DEF FreshInv
  <2>4. \A v \in WA : \A e \in open'[v] : e < nextEp'
    BY <1>o, <1>u DEF FreshInv
  <2>5. /\ \A l \in Listener : \A h \in heard'[l] : h[1] < nextEp'
        /\ closing' # None => closing' < nextEp'
        /\ \A e \in Endpoint : e < nextEp' => reqId'[e] \in Service
    BY <1>u DEF FreshInv
  <2> QED
    BY <2>1, <2>3, <2>4, <2>5 DEF FreshInv
<1>4. StoreInv'
  <2>1. closing = None /\ closing' = None
    BY <1>u DEF LockInv
  <2>2. None \notin WiresOf(p)
    BY <1>e
  <2>3. \A q \in Props : \A v \in WA : wire'[q][v] # None =>
          wire'[q][v] = wire[q][v] /\ wire'[q][v] \notin WiresOf(p)
    BY <1>e, <1>w DEF StoreInv
  <2>4. ASSUME NEW q \in Props, key'[q] = None, NEW v \in WA
        PROVE  wire'[q][v] = None
    <3>1. CASE q = p
      BY <3>1, <1>w
    <3>2. CASE q # p
      <4>1. key[q] = None
        BY <3>2, <2>4, <1>k
      <4>2. wire[q][v] = None
        BY <4>1 DEF StoreInv
      <4> QED
        BY <3>2, <4>2, <1>w
    <3> QED
      BY <3>1, <3>2
  <2>5. \A q \in Props : \A v \in WA :
          wire'[q][v] # None => wire'[q][v] \notin freed' /\ wire'[q][v] # closing'
    BY <2>1, <2>3, <1>u DEF StoreInv
  <2>6. \A q, r \in Props : \A v, w \in WA :
          wire'[q][v] # None /\ wire'[q][v] = wire'[r][w] => q = r /\ v = w
    BY <2>3, <1>w DEF StoreInv
  <2>7. closing' \notin freed'
    BY <2>1, <2>2, <1>u DEF StoreInv
  <2> QED
    BY <2>4, <2>5, <2>6, <2>7 DEF StoreInv
<1>5. HeardInv'
  BY <1>u, <1>w DEF HeardInv
<1>6. WaitInv'
  BY <1>u DEF WaitInv, CannotOpen
<1>7. OpenInv'
  BY <1>e, <1>u, <1>w, <1>o DEF OpenInv, StateTypeOK
<1> QED
  BY <1>1, <1>2, <1>3, <1>4, <1>5, <1>6, <1>7

(* A new admin is listed before it looks at any request.                   *)
LEMMA WaAddedListStep ==
  ASSUME IInv, NEW w \in WA, WaAddedList(w)
  PROVE  IInv'
<1> USE ExportAssumption DEF IInv, WaAddedList, waVars, mapVars, epVars, lVars, history
<1>1. StateTypeOK'
  BY DEF StateTypeOK
<1>2. LockInv'
  BY DEF LockInv, StateTypeOK, Entries
<1>3. FreshInv'
  BY DEF FreshInv, StateTypeOK, Endpoint, LockInv
<1>4. StoreInv'
  BY DEF StoreInv, StateTypeOK, FreshInv, LockInv, Endpoint
<1>5. HeardInv'
  BY DEF HeardInv, StateTypeOK, StoreInv, FreshInv, Endpoint, LockInv
<1>6. WaitInv'
  BY DEF WaitInv, StateTypeOK, LockInv, CannotOpen
<1>7. OpenInv'
  BY DEF OpenInv, StateTypeOK, LockInv, StoreInv
<1> QED
  BY <1>1, <1>2, <1>3, <1>4, <1>5, <1>6, <1>7

(* waAdded takes the export lock with every waiting request still to try.  *)
LEMMA WaAddedLockStep ==
  ASSUME IInv, NEW w \in WA, WaAddedLock(w)
  PROVE  IInv'
<1> USE ExportAssumption DEF IInv, WaAddedLock, waVars, mapVars, epVars, lVars, history
<1>1. StateTypeOK'
  BY DEF StateTypeOK, Entries
<1>2. LockInv'
  BY DEF LockInv, StateTypeOK, Entries
<1>3. FreshInv'
  BY DEF FreshInv, StateTypeOK, Endpoint, LockInv
<1>4. StoreInv'
  BY DEF StoreInv, StateTypeOK, FreshInv, LockInv, Endpoint
<1>5. HeardInv'
  BY DEF HeardInv, StateTypeOK, StoreInv, FreshInv, Endpoint, LockInv
<1>6. WaitInv'
  BY DEF WaitInv, StateTypeOK, LockInv, CannotOpen
<1>7. OpenInv'
  BY DEF OpenInv, StateTypeOK, LockInv, StoreInv
<1> QED
  BY <1>1, <1>2, <1>3, <1>4, <1>5, <1>6, <1>7

(* waAdded exports an entry: the slot it may replace is recorded in        *)
(* overwritten.                                                            *)
LEMMA WaAddedExportEntryStep ==
  ASSUME IInv, NEW w \in WA, NEW p \in Props, WaAddedExportEntry(w, p)
  PROVE  IInv'
<1> USE ExportAssumption DEF IInv
<1>k. key[p] \in Service
  BY DEF WaAddedExportEntry, LockInv, StateTypeOK
<1>u. /\ UNCHANGED <<waList, waPc, lock, retry, closing, key, waiting,
                     requested, served, withdrawn>>
      /\ waPc[w] = "exporting"
      /\ todo' = todo \ {p}
  BY DEF WaAddedExportEntry
<1>2. LockInv'
  BY <1>u DEF LockInv
<1>6. WaitInv'
  BY <1>u DEF WaitInv, CannotOpen
<1>a. CASE /\ OpenEndpoint(w, key[p])
           /\ wire' = [wire EXCEPT ![p][w] = nextEp]
           /\ overwritten' = overwritten \cup ({wire[p][w]} \ {None})
  <2>o. /\ nextEp \in Endpoint
        /\ open' \in [WA -> SUBSET Endpoint]
        /\ \A v \in WA : open'[v] = IF v = w THEN open[v] \cup {nextEp} ELSE open[v]
        /\ reqId' \in [Endpoint -> Service \cup {None}]
        /\ heard' \in [Listener -> SUBSET (Endpoint \X Service)]
        /\ freed' = freed /\ lPc' = lPc
        /\ nextEp' \in 1..(MaxEndpoint + 1)
    BY <1>a, <1>k, OpenEndpointFacts DEF OpenEffect
  <2>w. /\ wire' \in [Props -> [WA -> Endpoint \cup {None}]]
        /\ \A q \in Props : \A v \in WA :
             wire'[q][v] = IF q = p /\ v = w THEN nextEp ELSE wire[q][v]
    BY <1>a, <2>o DEF StateTypeOK
  <2>1. StateTypeOK'
    <3>1. wire[p][w] \in Endpoint \cup {None}
      BY DEF StateTypeOK
    <3>2. overwritten' \subseteq Endpoint
      BY <1>a, <3>1 DEF StateTypeOK
    <3> QED
      BY <1>u, <2>o, <2>w, <3>2 DEF StateTypeOK
  <2>3. FreshInv' /\ StoreInv' /\ HeardInv'
    BY <1>a, <1>k, <1>u, <2>w, OpenKeepsInv
  <2>7. OpenInv'
    <3> SUFFICES ASSUME NEW v \in WA,
                        waPc'[v] \in {"new", "listed", "exporting", "tracked"},
                        NEW e \in open'[v]
                 PROVE  e \in overwritten' \/ \E q \in Props : wire'[q][v] = e
      BY DEF OpenInv
    <3>1. CASE v = w /\ e = nextEp
      BY <3>1, <2>w
    <3>2. CASE e \in open[v]
      <4>1. e \in overwritten \/ \E q \in Props : wire[q][v] = e
        BY <1>u, <3>2 DEF OpenInv
      <4>2. e # None
        BY <3>2 DEF StateTypeOK
      <4> QED
        BY <4>1, <4>2, <1>a, <2>w
    <3> QED
      BY <3>1, <3>2, <2>o
  <2> QED
    BY <1>2, <1>6, <2>1, <2>3, <2>7
<1>b. CASE UNCHANGED <<wire, epVars, lVars, overwritten>>
  <2> USE DEF epVars, lVars
  <2>1. StateTypeOK'
    BY <1>b, <1>u DEF StateTypeOK
  <2>3. FreshInv'
    BY <1>b, <1>u DEF FreshInv
  <2>4. StoreInv'
    BY <1>b, <1>u DEF StoreInv
  <2>5. HeardInv'
    BY <1>b, <1>u DEF HeardInv
  <2>7. OpenInv'
    BY <1>b, <1>u DEF OpenInv
  <2> QED
    BY <1>2, <1>6, <2>1, <2>3, <2>4, <2>5, <2>7
<1> QED
  BY <1>a, <1>b DEF WaAddedExportEntry

(* waAdded tries a waiting request: a success puts every other one back    *)
(* among those to try.                                                     *)
LEMMA WaAddedExportWaitingStep ==
  ASSUME IInv, NEW w \in WA, NEW s \in Service, WaAddedExportWaiting(w, s)
  PROVE  IInv'
<1> USE ExportAssumption DEF IInv
<1> DEFINE p == PropsOf[s]
<1>p. p \in Props
  OBVIOUS
<1>u. /\ UNCHANGED <<waList, waPc, lock, todo, closing, requested, withdrawn>>
      /\ waPc[w] = "exporting" /\ todo = {}
  BY DEF WaAddedExportWaiting
<1>2. LockInv'
  BY <1>u DEF LockInv
<1>a. CASE /\ OpenEndpoint(w, s)
           /\ waiting' = waiting \ {s}
           /\ retry' = waiting \ {s}
           /\ key' = [key EXCEPT ![p] = IF @ = None THEN s ELSE @]
           /\ wire' = [wire EXCEPT ![p] = [v \in WA |-> IF v = w THEN nextEp ELSE None]]
           /\ served' = served \cup {s}
           /\ overwritten' = overwritten \cup WiresOf(p)
  <2>o. /\ nextEp \in Endpoint
        /\ open' \in [WA -> SUBSET Endpoint]
        /\ \A v \in WA : open'[v] = IF v = w THEN open[v] \cup {nextEp} ELSE open[v]
        /\ reqId' \in [Endpoint -> Service \cup {None}]
        /\ heard' \in [Listener -> SUBSET (Endpoint \X Service)]
        /\ freed' = freed /\ lPc' = lPc
        /\ nextEp' \in 1..(MaxEndpoint + 1)
    BY <1>a, OpenEndpointFacts DEF OpenEffect
  <2>w. /\ wire' \in [Props -> [WA -> Endpoint \cup {None}]]
        /\ \A q \in Props : \A v \in WA :
             wire'[q][v] = IF q = p THEN IF v = w THEN nextEp ELSE None ELSE wire[q][v]
    BY <1>a, <1>p, <2>o DEF StateTypeOK
  <2>k. /\ key' \in [Props -> Service \cup {None}]
        /\ \A q \in Props : key'[q] = None => q # p /\ key[q] = None
    BY <1>a, <1>p DEF StateTypeOK
  <2>e. \A e : e \in WiresOf(p) <=> e # None /\ \E v \in WA : wire[p][v] = e
    BY <1>p, WiresOfMember
  <2>1. StateTypeOK'
    <3>1. WiresOf(p) \subseteq Endpoint
      BY <1>p, <2>e DEF StateTypeOK
    <3>2. overwritten' \subseteq Endpoint
      BY <1>a, <3>1 DEF StateTypeOK
    <3>3. served' \subseteq Service /\ waiting' \subseteq Service /\ retry' \subseteq Service
      BY <1>a DEF StateTypeOK
    <3> QED
      BY <1>u, <2>o, <2>w, <2>k, <3>2, <3>3 DEF StateTypeOK
  <2>3. FreshInv' /\ StoreInv' /\ HeardInv'
    <3>1. wire'[p][w] = nextEp
      BY <1>p, <2>w
    <3>2. \A q \in Props : \A v \in WA :
            (q = p /\ v = w) \/ wire'[q][v] = wire[q][v] \/ wire'[q][v] = None
      BY <2>w
    <3> QED
      BY <1>a, <1>p, <1>u, <2>k, <3>1, <3>2, OpenKeepsInv
  <2>6. WaitInv'
    BY <1>a, <1>u DEF WaitInv, LockInv, CannotOpen
  <2>7. OpenInv'
    <3> SUFFICES ASSUME NEW v \in WA,
                        waPc'[v] \in {"new", "listed", "exporting", "tracked"},
                        NEW e \in open'[v]
                 PROVE  e \in overwritten' \/ \E q \in Props : wire'[q][v] = e
      BY DEF OpenInv
    <3>1. CASE v = w /\ e = nextEp
      BY <3>1, <1>p, <2>w
    <3>2. CASE e \in open[v]
      <4>1. e \in overwritten \/ \E q \in Props : wire[q][v] = e
        BY <1>u, <3>2 DEF OpenInv
      <4>2. e # None
        BY <3>2 DEF StateTypeOK
      <4> QED
        BY <4>1, <4>2, <1>a, <2>w, <2>e
    <3> QED
      BY <3>1, <3>2, <2>o
  <2> QED
    BY <1>2, <2>1, <2>3, <2>6, <2>7
<1>b. CASE /\ CannotOpen(w, p)
           /\ retry' = retry \ {s}
           /\ UNCHANGED <<mapVars, epVars, lVars, served, overwritten>>
  <2> USE DEF mapVars, epVars, lVars
  <2>1. StateTypeOK'
    BY <1>b, <1>u DEF StateTypeOK
  <2>3. FreshInv'
    BY <1>b, <1>u DEF FreshInv
  <2>4. StoreInv'
    BY <1>b, <1>u DEF StoreInv
  <2>5. HeardInv'
    BY <1>b, <1>u DEF HeardInv
  <2>6. WaitInv'
    BY <1>b, <1>u DEF WaitInv, LockInv, CannotOpen
  <2>7. OpenInv'
    BY <1>b, <1>u DEF OpenInv
  <2> QED
    BY <1>2, <2>1, <2>3, <2>4, <2>5, <2>6, <2>7
<1> QED
  BY <1>a, <1>b DEF WaAddedExportWaiting

(* waAdded is done with a request only when the admin cannot carry it.     *)
LEMMA WaAddedUnlockStep ==
  ASSUME IInv, NEW w \in WA, WaAddedUnlock(w)
  PROVE  IInv'
<1> USE ExportAssumption DEF IInv, WaAddedUnlock, waVars, mapVars, epVars, lVars, history
<1>1. StateTypeOK'
  BY DEF StateTypeOK
<1>2. LockInv'
  BY DEF LockInv, StateTypeOK, Entries
<1>3. FreshInv'
  BY DEF FreshInv, StateTypeOK, Endpoint, LockInv
<1>4. StoreInv'
  BY DEF StoreInv, StateTypeOK, FreshInv, LockInv, Endpoint
<1>5. HeardInv'
  BY DEF HeardInv, StateTypeOK, StoreInv, FreshInv, Endpoint, LockInv
<1>6. WaitInv'
  BY DEF WaitInv, StateTypeOK, LockInv, CannotOpen
<1>7. OpenInv'
  BY DEF OpenInv, StateTypeOK, LockInv, StoreInv
<1> QED
  BY <1>1, <1>2, <1>3, <1>4, <1>5, <1>6, <1>7

(* A stopping admin has closed its endpoints; they stay in the map.        *)
LEMMA WaStopStep ==
  ASSUME IInv, NEW w \in WA, WaStop(w)
  PROVE  IInv'
<1> USE ExportAssumption DEF IInv, WaStop, waVars, mapVars, epVars, lVars, history
<1>1. StateTypeOK'
  BY DEF StateTypeOK
<1>2. LockInv'
  BY DEF LockInv, StateTypeOK, Entries
<1>3. FreshInv'
  BY DEF FreshInv, StateTypeOK, Endpoint, LockInv
<1>4. StoreInv'
  BY DEF StoreInv, StateTypeOK, FreshInv, LockInv, Endpoint
<1>5. HeardInv'
  BY DEF HeardInv, StateTypeOK, StoreInv, FreshInv, Endpoint, LockInv
<1>6. WaitInv'
  BY DEF WaitInv, StateTypeOK, LockInv, CannotOpen
<1>7. OpenInv'
  BY DEF OpenInv, StateTypeOK, LockInv, StoreInv
<1> QED
  BY <1>1, <1>2, <1>3, <1>4, <1>5, <1>6, <1>7

(* waRemoved takes the export lock, to visit the entries with an endpoint  *)
(* of the admin.                                                           *)
LEMMA WaRemovedLockStep ==
  ASSUME IInv, NEW w \in WA, WaRemovedLock(w)
  PROVE  IInv'
<1> USE ExportAssumption DEF IInv, WaRemovedLock, waVars, mapVars, epVars, lVars, history
<1>1. StateTypeOK'
  BY DEF StateTypeOK, Entries
<1>2. LockInv'
  BY DEF LockInv, StateTypeOK, Entries
<1>3. FreshInv'
  BY DEF FreshInv, StateTypeOK, Endpoint, LockInv
<1>4. StoreInv'
  BY DEF StoreInv, StateTypeOK, FreshInv, LockInv, Endpoint
<1>5. HeardInv'
  BY DEF HeardInv, StateTypeOK, StoreInv, FreshInv, Endpoint, LockInv
<1>6. WaitInv'
  BY DEF WaitInv, StateTypeOK, LockInv, CannotOpen
<1>7. OpenInv'
  BY DEF OpenInv, StateTypeOK, LockInv, StoreInv
<1> QED
  BY <1>1, <1>2, <1>3, <1>4, <1>5, <1>6, <1>7

(* The endpoint leaves the map and every listener forgets it.              *)
LEMMA WaRemovedNotifyStep ==
  ASSUME IInv, NEW w \in WA, NEW p \in Props, WaRemovedNotify(w, p)
  PROVE  IInv'
<1> USE ExportAssumption DEF IInv
<1>u. /\ UNCHANGED <<waList, waPc, lock, retry, key, waiting, lPc>>
      /\ UNCHANGED <<nextEp, reqId, open, freed>>
      /\ UNCHANGED <<requested, served, withdrawn, overwritten>>
      /\ waPc[w] = "removing"
      /\ todo' = todo \ {p}
      /\ closing = None /\ closing' = wire[p][w]
  BY DEF WaRemovedNotify, epVars, history
<1>w. /\ wire' \in [Props -> [WA -> Endpoint \cup {None}]]
      /\ \A q \in Props : \A v \in WA :
           wire'[q][v] = IF q = p /\ v = w THEN None ELSE wire[q][v]
  BY DEF WaRemovedNotify, StateTypeOK
<1>h. /\ heard' \in [Listener -> SUBSET (Endpoint \X Service)]
      /\ \A l \in Listener : \A h :
           h \in heard'[l] <=> h \in heard[l] /\ h[1] # wire[p][w]
  BY NotifyRemovedFacts DEF WaRemovedNotify
<1>t. wire[p][w] \in Endpoint \cup {None}
  BY DEF StateTypeOK
<1>1. StateTypeOK'
  BY <1>u, <1>w, <1>h, <1>t DEF StateTypeOK
<1>2. LockInv'
  BY <1>u DEF LockInv
<1>3. FreshInv'
  BY <1>u, <1>w, <1>h DEF FreshInv
<1>4. StoreInv'
  BY <1>u, <1>w, <1>t DEF StoreInv, StateTypeOK
<1>5. HeardInv'
  <2>1. ASSUME NEW l \in Listener, lPc'[l] = "settled", NEW q \in Props, NEW v \in WA,
               wire'[q][v] # None
        PROVE  \E h \in heard'[l] : h[1] = wire'[q][v]
    <3>1. ~(q = p /\ v = w) /\ wire'[q][v] = wire[q][v]
      BY <2>1, <1>w
    <3>2. wire[q][v] # wire[p][w]
      BY <2>1, <3>1 DEF StoreInv
    <3>3. PICK h \in heard[l] : h[1] = wire[q][v]
      BY <2>1, <1>u, <3>1 DEF HeardInv
    <3> QED
      BY <3>1, <3>2, <3>3, <1>h
  <2>2. ASSUME NEW l \in Listener, NEW h \in heard'[l]
        PROVE  h[1] # closing' /\ (h[1] \in freed' => h[1] \in withdrawn')
    BY <2>2, <1>h, <1>u DEF HeardInv
  <2> QED
    BY <2>1, <2>2 DEF HeardInv
<1>6. WaitInv'
  BY <1>u DEF WaitInv, CannotOpen
<1>7. OpenInv'
  BY <1>u, <1>w DEF OpenInv
<1> QED
  BY <1>1, <1>2, <1>3, <1>4, <1>5, <1>6, <1>7

(* The endpoint destroyed is one that neither the map nor a listener has.  *)
LEMMA WaRemovedDestroyStep ==
  ASSUME IInv, NEW w \in WA, WaRemovedDestroy(w)
  PROVE  IInv'
<1> USE ExportAssumption DEF IInv, WaRemovedDestroy, waVars, mapVars, epVars, lVars, history
<1>1. StateTypeOK'
  BY DEF StateTypeOK
<1>2. LockInv'
  BY DEF LockInv, StateTypeOK, Entries
<1>3. FreshInv'
  BY DEF FreshInv, StateTypeOK, Endpoint, LockInv
<1>4. StoreInv'
  <2>1. /\ UNCHANGED <<wire, key>>
        /\ freed' = freed \cup {closing} /\ closing' = None /\ closing # None
    BY DEF mapVars
  <2>2. None \notin freed
    BY DEF StateTypeOK, Endpoint
  <2> QED
    BY <2>1, <2>2 DEF StoreInv
<1>5. HeardInv'
  BY DEF HeardInv, StateTypeOK, StoreInv, FreshInv, Endpoint, LockInv
<1>6. WaitInv'
  BY DEF WaitInv, StateTypeOK, LockInv, CannotOpen
<1>7. OpenInv'
  BY DEF OpenInv, StateTypeOK, LockInv, StoreInv
<1> QED
  BY <1>1, <1>2, <1>3, <1>4, <1>5, <1>6, <1>7

(* waRemoved gives the export lock back.                                   *)
LEMMA WaRemovedUnlockStep ==
  ASSUME IInv, NEW w \in WA, WaRemovedUnlock(w)
  PROVE  IInv'
<1> USE ExportAssumption DEF IInv, WaRemovedUnlock, waVars, mapVars, epVars, lVars, history
<1>1. StateTypeOK'
  BY DEF StateTypeOK
<1>2. LockInv'
  BY DEF LockInv, StateTypeOK, Entries
<1>3. FreshInv'
  BY DEF FreshInv, StateTypeOK, Endpoint, LockInv
<1>4. StoreInv'
  BY DEF StoreInv, StateTypeOK, FreshInv, LockInv, Endpoint
<1>5. HeardInv'
  BY DEF HeardInv, StateTypeOK, StoreInv, FreshInv, Endpoint, LockInv
<1>6. WaitInv'
  BY DEF WaitInv, StateTypeOK, LockInv, CannotOpen
<1>7. OpenInv'
  BY DEF OpenInv, StateTypeOK, LockInv, StoreInv
<1> QED
  BY <1>1, <1>2, <1>3, <1>4, <1>5, <1>6, <1>7

(* The admin leaves waList last.                                           *)
LEMMA WaRemovedListStep ==
  ASSUME IInv, NEW w \in WA, WaRemovedList(w)
  PROVE  IInv'
<1> USE ExportAssumption DEF IInv, WaRemovedList, waVars, mapVars, epVars, lVars, history
<1>1. StateTypeOK'
  BY DEF StateTypeOK
<1>2. LockInv'
  BY DEF LockInv, StateTypeOK, Entries
<1>3. FreshInv'
  BY DEF FreshInv, StateTypeOK, Endpoint, LockInv
<1>4. StoreInv'
  BY DEF StoreInv, StateTypeOK, FreshInv, LockInv, Endpoint
<1>5. HeardInv'
  BY DEF HeardInv, StateTypeOK, StoreInv, FreshInv, Endpoint, LockInv
<1>6. WaitInv'
  BY DEF WaitInv, StateTypeOK, LockInv, CannotOpen
<1>7. OpenInv'
  BY DEF OpenInv, StateTypeOK, LockInv, StoreInv
<1> QED
  BY <1>1, <1>2, <1>3, <1>4, <1>5, <1>6, <1>7

(* A listener is in listenerList before anything is delivered to it.       *)
LEMMA ListenerAddedListStep ==
  ASSUME IInv, NEW l \in Listener, ListenerAddedList(l)
  PROVE  IInv'
<1> USE ExportAssumption DEF IInv, ListenerAddedList, waVars, mapVars, epVars, lVars, history
<1>1. StateTypeOK'
  BY DEF StateTypeOK
<1>2. LockInv'
  BY DEF LockInv, StateTypeOK, Entries
<1>3. FreshInv'
  BY DEF FreshInv, StateTypeOK, Endpoint, LockInv
<1>4. StoreInv'
  BY DEF StoreInv, StateTypeOK, FreshInv, LockInv, Endpoint
<1>5. HeardInv'
  BY DEF HeardInv, StateTypeOK, StoreInv, FreshInv, Endpoint, LockInv
<1>6. WaitInv'
  BY DEF WaitInv, StateTypeOK, LockInv, CannotOpen
<1>7. OpenInv'
  BY DEF OpenInv, StateTypeOK, LockInv, StoreInv
<1> QED
  BY <1>1, <1>2, <1>3, <1>4, <1>5, <1>6, <1>7

(* The delivery makes the knowledge of the listener complete.              *)
LEMMA ListenerAddedDeliverStep ==
  ASSUME IInv, NEW l \in Listener, ListenerAddedDeliver(l)
  PROVE  IInv'
<1> USE ExportAssumption DEF IInv
<1> DEFINE N == {<<e, reqId[e]>> : e \in Wires}
<1>e. \A e : e \in Wires <=> e # None /\ \E p \in Props : \E w \in WA : wire[p][w] = e
  BY WiresMember DEF Stored
<1>u. /\ UNCHANGED <<waList, waPc, lock, todo, retry, closing, key, wire, waiting>>
      /\ UNCHANGED <<nextEp, reqId, open, freed>>
      /\ UNCHANGED <<requested, served, withdrawn, overwritten>>
      /\ lPc' \in [Listener -> {"absent", "listed", "settled"}]
      /\ \A k \in Listener : k # l => lPc'[k] = lPc[k]
      /\ lock = None
  BY DEF ListenerAddedDeliver, waVars, mapVars, epVars, history, StateTypeOK
<1>n. N \subseteq Endpoint \X Service
  <2>1. ASSUME NEW e \in Wires PROVE e \in Endpoint /\ reqId[e] \in Service
    BY <2>1, <1>e DEF StateTypeOK, FreshInv
  <2> QED
    BY <2>1
<1>h. /\ heard' \in [Listener -> SUBSET (Endpoint \X Service)]
      /\ \A k \in Listener : heard'[k] = IF k = l THEN heard[k] \cup N ELSE heard[k]
  BY <1>n DEF ListenerAddedDeliver, StateTypeOK
<1>m. \A h \in N : h[1] \in Wires
  OBVIOUS
<1>1. StateTypeOK'
  BY <1>u, <1>h DEF StateTypeOK
<1>2. LockInv'
  BY <1>u DEF LockInv
<1>3. FreshInv'
  BY <1>u, <1>h, <1>m, <1>e DEF FreshInv
<1>4. StoreInv'
  BY <1>u DEF StoreInv
<1>5. HeardInv'
  <2>1. ASSUME NEW k \in Listener, lPc'[k] = "settled", NEW q \in Props, NEW v \in WA,
               wire'[q][v] # None
        PROVE  \E h \in heard'[k] : h[1] = wire'[q][v]
    <3>1. CASE k = l
      <4>1. wire[q][v] \in Wires
        BY <2>1, <1>u, <1>e
      <4>2. <<wire[q][v], reqId[wire[q][v]]>> \in N
        BY <4>1
      <4>3. <<wire[q][v], reqId[wire[q][v]]>> \in heard'[k]
        BY <4>2, <3>1, <1>h
      <4> QED
        BY <4>3, <1>u
    <3>2. CASE k # l
      BY <3>2, <2>1, <1>u, <1>h DEF HeardInv
    <3> QED
      BY <3>1, <3>2
  <2>2. ASSUME NEW k \in Listener, NEW h \in heard'[k]
        PROVE  h[1] # closing' /\ (h[1] \in freed' => h[1] \in withdrawn')
    <3>1. CASE h \in heard[k]
      BY <3>1, <1>u DEF HeardInv
    <3>2. CASE h \in N
      BY <3>2, <1>m, <1>e, <1>u DEF StoreInv
    <3> QED
      BY <2>2, <3>1, <3>2, <1>h
  <2> QED
    BY <2>1, <2>2 DEF HeardInv
<1>6. WaitInv'
  BY <1>u DEF WaitInv, CannotOpen
<1>7. OpenInv'
  BY <1>u DEF OpenInv
<1> QED
  BY <1>1, <1>2, <1>3, <1>4, <1>5, <1>6, <1>7

(* A listener that leaves knows nothing.                                   *)
LEMMA ListenerRemovedStep ==
  ASSUME IInv, NEW l \in Listener, ListenerRemoved(l)
  PROVE  IInv'
<1> USE ExportAssumption DEF IInv, ListenerRemoved, waVars, mapVars, epVars, lVars, history
<1>1. StateTypeOK'
  BY DEF StateTypeOK
<1>2. LockInv'
  BY DEF LockInv, StateTypeOK, Entries
<1>3. FreshInv'
  BY DEF FreshInv, StateTypeOK, Endpoint, LockInv
<1>4. StoreInv'
  BY DEF StoreInv, StateTypeOK, FreshInv, LockInv, Endpoint
<1>5. HeardInv'
  BY DEF HeardInv, StateTypeOK, StoreInv, FreshInv, Endpoint, LockInv
<1>6. WaitInv'
  BY DEF WaitInv, StateTypeOK, LockInv, CannotOpen
<1>7. OpenInv'
  BY DEF OpenInv, StateTypeOK, LockInv, StoreInv
<1> QED
  BY <1>1, <1>2, <1>3, <1>4, <1>5, <1>6, <1>7

-----------------------------------------------------------------------------

(* Every step keeps the inductive invariant.                               *)
LEMMA NextIInv == IInv /\ [Next]_vars => IInv'
<1> SUFFICES ASSUME IInv, [Next]_vars PROVE IInv'
  OBVIOUS
<1>1. ASSUME NEW s \in Service, ExportWiringEndpoint(s) PROVE IInv'
  <2>1. lock = None /\ waVars' = waVars /\ requested' = requested \cup {s}
    BY <1>1 DEF ExportWiringEndpoint
  <2>2. ReuseWire(s) \/ WaitForWA(s) \/ NewWire(s)
    BY <1>1 DEF ExportWiringEndpoint
  <2> QED
    BY <2>1, <2>2, ReuseWireStep, WaitForWAStep, NewWireStep
<1>2. ASSUME NEW p \in Props, RemoveExportedWiringEndpoint(p) PROVE IInv'
  BY <1>2, RemoveExportedStep
<1>3. ASSUME NEW w \in WA, WaAddedList(w) \/ WaStop(w) PROVE IInv'
  BY <1>3, WaAddedListStep, WaStopStep
<1>4. ASSUME NEW w \in WA, WaCallback(w) PROVE IInv'
  BY <1>4, WaAddedLockStep, WaAddedExportEntryStep, WaAddedExportWaitingStep,
     WaAddedUnlockStep, WaRemovedLockStep, WaRemovedNotifyStep, WaRemovedDestroyStep,
     WaRemovedUnlockStep, WaRemovedListStep DEF WaCallback
<1>5. ASSUME NEW l \in Listener,
             ListenerAddedList(l) \/ ListenerAddedDeliver(l) \/ ListenerRemoved(l)
      PROVE  IInv'
  BY <1>5, ListenerAddedListStep, ListenerAddedDeliverStep, ListenerRemovedStep
<1>6. CASE UNCHANGED vars
  BY <1>6 DEF vars, waVars, mapVars, epVars, lVars, history, IInv, StateTypeOK, LockInv,
     FreshInv, StoreInv, HeardInv, WaitInv, CannotOpen, OpenInv
<1> QED
  <2>1. CASE Others
    BY <1>1, <1>3, <1>5, <2>1 DEF Others
  <2> QED
    BY <1>2, <1>4, <1>6, <2>1 DEF Next

(* The inductive invariant holds in every reachable state.                 *)
THEOREM Inductive == Spec => []IInv
BY InitIInv, NextIInv, PTL DEF Spec

(* The only fault is the call of an admin that is freed.                   *)
LEMMA FaultKnown == Spec => [](fault \in {"none", "freed admin"})
<1> DEFINE Kinds == fault \in {"none", "freed admin"}
<1>1. Init => Kinds
  BY DEF Init
<1>2. Kinds /\ [Next]_vars => Kinds'
  BY DEF Next, Others, WaCallback, RemoveExportedWiringEndpoint, vars
<1> HIDE DEF Kinds
<1>3. Spec => []Kinds
  BY <1>1, <1>2, PTL DEF Spec
<1> QED
  BY <1>3 DEF Kinds

(* Every variable keeps its type.                                          *)
THEOREM TypeCorrect == Spec => []TypeOK
<1>1. IInv /\ fault \in {"none", "freed admin"} => TypeOK
  BY DEF IInv, TypeOK
<1> QED
  BY <1>1, Inductive, FaultKnown, PTL

(* The map of exported endpoints never holds a destroyed endpoint, nor one *)
(* endpoint twice (exportWiringEndpoint, waAdded, waRemoved).              *)
THEOREM WiresStayAlive == Spec => []StoredWiresAlive
<1>1. IInv => StoredWiresAlive
  BY WiresMember DEF IInv, StoreInv, StoredWiresAlive, Stored
<1> QED
  BY <1>1, Inductive, PTL

(* A listener whose registration is handled knows every stored endpoint.   *)
THEOREM ListenersComplete == Spec => []SettledListenersComplete
<1>1. IInv => SettledListenersComplete
  BY WiresMember DEF IInv, HeardInv, SettledListenersComplete, Stored, Known
<1> QED
  BY <1>1, Inductive, PTL

(* A listener holds a destroyed endpoint only after the WTM's own          *)
(* removeExportedWiringEndpoint.                                           *)
THEOREM NoDangling == Spec => []NoDanglingKnowledge
<1>1. IInv => NoDanglingKnowledge
  BY DEF IInv, HeardInv, NoDanglingKnowledge, Known
<1> QED
  BY <1>1, Inductive, PTL

(* The race between a request that finds no admin and an admin that        *)
(* arrives never loses the request.                                        *)
THEOREM ExportNeverLost == Spec => []NoLostExport
<1>1. IInv => NoLostExport
  BY DEF IInv, WaitInv, NoLostExport
<1> QED
  BY <1>1, Inductive, PTL

(* Endpoints of a running admin are in the map or were overwritten in it.  *)
THEOREM OpenStored == Spec => []OpenWiresStored
<1>1. IInv => OpenWiresStored
  BY DEF IInv, OpenInv, OpenWiresStored
<1> QED
  BY <1>1, Inductive, PTL

(* The map of exported endpoints and the admins agree, whatever callbacks  *)
(* and requests interleave.                                                *)
THEOREM WiresAgree == Spec => []WiresExact
BY WiresStayAlive, OpenStored, PTL DEF WiresExact

(* Settled listeners know every stored endpoint, and no listener holds a   *)
(* destroyed one that the WTM did not withdraw itself.                     *)
THEOREM ListenersAgree == Spec => []ListenersExact
BY ListenersComplete, NoDangling, PTL DEF ListenersExact
=============================================================================
