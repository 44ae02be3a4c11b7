------------------------- MODULE NodeDiscoveryProofs -------------------------
(* Proofs about the three modules of node discovery, whose names are       *)
(* disjoint: NodeDiscovery, for any wires and listeners and any number of  *)
(* descriptions, over any number of restarts of the bundle; EtcdWatcher,   *)
(* for a history of any length; and Announcement with EndpointText, for    *)
(* names and values of any length.                                         *)
EXTENDS NodeDiscovery, EtcdWatcher, Announcement,
        SequenceTheorems, WellFoundedInduction, TLAPS

\* what is held for a wire is alive, and held for no other
HeldInv ==
  /\ \A w \in Wire : descr[w] # None => descr[w] \notin freed
  /\ \A v, w \in Wire : descr[v] # None /\ descr[v] = descr[w] => v = w

\* A listener that has been given the descriptions knows what is held; one
\* that is absent, or any after the stop has informed them, knows nothing it
\* should not but what it missed.
ToldInv ==
  \A l \in Listener :
    /\ phase \in {"running", "joined"} /\ lPc[l] # "absent" =>
         \A d \in Descr \ late[l] : d \in told[l] <=> d \in Held
    /\ phase \notin {"running", "joined"} \/ lPc[l] = "absent" => told[l] \subseteq late[l]
    /\ phase \in {"closed", "stopped"} => lPc[l] = "absent"
    /\ told[l] \cap freed \subseteq late[l]

IInv == TypeOK /\ HeldInv /\ ToldInv

-----------------------------------------------------------------------------

LEMMA CreatedFacts ==
  ASSUME TypeOK
  PROVE  /\ nextD \in Nat /\ nextD \notin Created
         /\ Created \subseteq Descr
         /\ nextD <= MaxDescr => nextD \in Descr
         /\ None \notin Created
<1>1. nextD \in 1..(MaxDescr + 1)
  BY DEF TypeOK
<1> QED
  BY <1>1, DiscoveryAssumption DEF Created, Descr

LEMMA HeldCreated ==
  ASSUME TypeOK
  PROVE  Held \subseteq Created
BY DEF TypeOK, Held

\* What is announced next, and how the descriptions held change with it.
LEMMA AddNodeHeld ==
  ASSUME TypeOK, NEW w \in Wire, AddNode(w)
  PROVE  /\ nextD' = nextD + 1 /\ nextD \in Descr /\ nextD # None /\ nextD \notin Created
         /\ Created' = Created \cup {nextD}
         /\ descr' = [descr EXCEPT ![w] = nextD]
         /\ Held' = Held \cup {nextD}
<1>1. /\ nextD' = nextD + 1 /\ nextD <= MaxDescr
      /\ descr[w] = None
      /\ descr' = [descr EXCEPT ![w] = nextD]
  BY DEF AddNode
<1>2. nextD \in Descr /\ nextD \notin Created /\ nextD # None
  BY <1>1, CreatedFacts, DiscoveryAssumption
<1>3. Created' = Created \cup {nextD}
  <2>1. nextD \in 1..(MaxDescr + 1)
    BY DEF TypeOK
  <2> QED
    BY <1>1, <2>1, DiscoveryAssumption DEF Created
<1>4. Held' = Held \cup {nextD}
  BY <1>1, <1>2 DEF Held, TypeOK
<1> QED
  BY <1>1, <1>2, <1>3, <1>4

LEMMA RemoveNodeHeld ==
  ASSUME TypeOK, HeldInv, NEW w \in Wire, RemoveNode(w)
  PROVE  Held' = Held \ {descr[w]}
BY DEF RemoveNode, Held, HeldInv, TypeOK

LEMMA TypeStep == ASSUME TypeOK, [Next]_vars PROVE TypeOK'
<1>1. ASSUME NEW w \in Wire, AddNode(w) PROVE TypeOK'
  <2>1. nextD' \in 1..(MaxDescr + 1)
    <3>1. nextD \in 1..(MaxDescr + 1) /\ nextD <= MaxDescr /\ nextD' = nextD + 1
      BY <1>1 DEF AddNode, TypeOK
    <3> QED
      BY <3>1, DiscoveryAssumption
  <2>2. Created' = Created \cup {nextD} /\ nextD \in Created'
    BY <1>1, AddNodeHeld
  <2>3. /\ told' \in [Listener -> SUBSET Created']
        /\ late' \in [Listener -> SUBSET Created']
    BY <1>1, <2>2 DEF AddNode, InformAdded, Missed, In, TypeOK
  <2>4. descr' \in [Wire -> Created' \cup {None}]
    BY <1>1, <2>2 DEF AddNode, TypeOK
  <2> QED
    BY <1>1, <2>1, <2>2, <2>3, <2>4 DEF AddNode, TypeOK
<1>2. ASSUME NEW w \in Wire, RemoveNode(w) PROVE TypeOK'
  <2>1. UNCHANGED Created /\ descr[w] \in Created
    BY <1>2 DEF RemoveNode, Created, TypeOK
  <2>2. /\ told' \in [Listener -> SUBSET Created]
        /\ late' \in [Listener -> SUBSET Created]
    BY <1>2, <2>1 DEF RemoveNode, InformRemoved, Missed, In, TypeOK
  <2> QED
    BY <1>2, <2>1, <2>2 DEF RemoveNode, TypeOK
<1>3. ASSUME NEW l \in Listener,
             ListenerAddedDeliver(l) \/ ListenerAddedPut(l) \/ ListenerRemoved(l)
      PROVE  TypeOK'
  <2>1. UNCHANGED Created
    BY <1>3 DEF ListenerAddedDeliver, ListenerAddedPut, ListenerRemoved, Created
  <2>2. CASE ListenerAddedDeliver(l)
    BY <2>1, <2>2, HeldCreated DEF ListenerAddedDeliver, TypeOK
  <2>3. CASE ListenerAddedPut(l) \/ ListenerRemoved(l)
    BY <2>1, <2>3 DEF ListenerAddedPut, ListenerRemoved, TypeOK
  <2> QED
    BY <1>3, <2>2, <2>3
<1>4. CASE StopInform
  <2>1. UNCHANGED Created
    BY <1>4 DEF StopInform, Created
  <2>2. /\ told' \in [Listener -> SUBSET Created]
        /\ late' \in [Listener -> SUBSET Created]
    BY <1>4, HeldCreated DEF StopInform, InformRemoved, Missed, In, TypeOK
  <2> QED
    BY <1>4, <2>1, <2>2 DEF StopInform, TypeOK
<1>5. CASE Start \/ StopJoin \/ StopClose \/ UNCHANGED vars
  <2>1. UNCHANGED Created
    BY <1>5 DEF Start, StopJoin, StopClose, Created, vars
  <2> QED
    BY <1>5, <2>1 DEF Start, StopJoin, StopClose, vars, TypeOK
<1>6. CASE Destroy
  <2>1. UNCHANGED Created
    BY <1>6 DEF Destroy, Created
  <2> QED
    BY <1>6, <2>1, HeldCreated DEF Destroy, TypeOK
<1> QED
  BY <1>1, <1>2, <1>3, <1>4, <1>5, <1>6 DEF Next

LEMMA HeldStep == ASSUME TypeOK, HeldInv, [Next]_vars PROVE HeldInv'
<1>1. ASSUME NEW w \in Wire, AddNode(w) PROVE HeldInv'
  <2>1. \A v \in Wire : descr[v] # nextD
    BY <1>1, AddNodeHeld DEF TypeOK
  <2>2. nextD \notin freed
    BY <1>1, AddNodeHeld DEF TypeOK
  <2> QED
    BY <1>1, <2>1, <2>2, AddNodeHeld DEF AddNode, HeldInv, TypeOK
<1>2. ASSUME NEW w \in Wire, RemoveNode(w) PROVE HeldInv'
  BY <1>2 DEF RemoveNode, HeldInv, TypeOK
<1>3. CASE Destroy
  BY <1>3 DEF Destroy, HeldInv
<1>4. CASE \/ \E l \in Listener :
                ListenerAddedDeliver(l) \/ ListenerAddedPut(l) \/ ListenerRemoved(l)
           \/ Start \/ StopJoin \/ StopInform \/ StopClose \/ UNCHANGED vars
  <2>1. UNCHANGED <<descr, freed>>
    BY <1>4 DEF ListenerAddedDeliver, ListenerAddedPut, ListenerRemoved, Start,
                StopJoin, StopInform, StopClose, vars
  <2> QED
    BY <2>1 DEF HeldInv
<1> QED
  BY <1>1, <1>2, <1>3, <1>4 DEF Next

LEMMA ToldStep == ASSUME TypeOK, HeldInv, ToldInv, [Next]_vars PROVE ToldInv'
<1>1. ASSUME NEW w \in Wire, AddNode(w) PROVE ToldInv'
  <2>1. nextD \notin freed
    BY <1>1, AddNodeHeld DEF TypeOK
  <2> QED
    BY <1>1, <2>1, AddNodeHeld DEF AddNode, InformAdded, Missed, In, ToldInv, TypeOK
<1>2. ASSUME NEW w \in Wire, RemoveNode(w) PROVE ToldInv'
  <2>1. /\ phase = "running" /\ UNCHANGED <<phase, freed, lPc>>
        /\ Held' = Held \ {descr[w]}
    BY <1>2, RemoveNodeHeld DEF RemoveNode
  <2>2. ASSUME NEW l \in Listener, lPc[l] = "tracked"
        PROVE  told'[l] = told[l] \ {descr[w]} /\ late'[l] = late[l]
    BY <1>2, <2>2 DEF RemoveNode, InformRemoved, Missed, In, TypeOK
  <2>3. ASSUME NEW l \in Listener, lPc[l] = "delivered"
        PROVE  told'[l] = told[l] /\ late'[l] = late[l] \cup {descr[w]}
    BY <1>2, <2>3 DEF RemoveNode, InformRemoved, Missed, In, TypeOK
  <2>4. ASSUME NEW l \in Listener, lPc[l] = "absent"
        PROVE  told'[l] = told[l] /\ late'[l] = late[l]
    BY <1>2, <2>4 DEF RemoveNode, InformRemoved, Missed, In, TypeOK
  <2>5. \A l \in Listener : lPc[l] \in {"absent", "delivered", "tracked"}
    BY DEF TypeOK
  <2> QED
    BY <2>1, <2>2, <2>3, <2>4, <2>5 DEF ToldInv
<1>3. ASSUME NEW l \in Listener, ListenerAddedDeliver(l) PROVE ToldInv'
  <2>1. Held \cap freed = {} /\ UNCHANGED Held
    BY <1>3 DEF ListenerAddedDeliver, HeldInv, Held
  <2> QED
    BY <1>3, <2>1 DEF ListenerAddedDeliver, ToldInv, TypeOK
<1>4. ASSUME NEW l \in Listener, ListenerAddedPut(l) \/ ListenerRemoved(l) PROVE ToldInv'
  <2>1. UNCHANGED Held
    BY <1>4 DEF ListenerAddedPut, ListenerRemoved, Held
  <2> QED
    BY <1>4, <2>1 DEF ListenerAddedPut, ListenerRemoved, ToldInv, TypeOK
<1>5. CASE StopInform
  <2>1. UNCHANGED Held /\ \A l \in Listener : told[l] \subseteq Descr
    BY <1>5, CreatedFacts DEF StopInform, Held, TypeOK
  <2> QED
    BY <1>5, <2>1 DEF StopInform, InformRemoved, Missed, In, ToldInv, TypeOK
<1>6. CASE Start \/ StopJoin \/ StopClose
  <2>1. UNCHANGED Held
    BY <1>6 DEF Start, StopJoin, StopClose, Held
  <2> QED
    BY <1>6, <2>1 DEF Start, StopJoin, StopClose, ToldInv, TypeOK
<1>7. CASE Destroy
  BY <1>7 DEF Destroy, ToldInv
<1>8. CASE UNCHANGED vars
  BY <1>8 DEF vars, ToldInv, Held
<1> QED
  BY <1>1, <1>2, <1>3, <1>4, <1>5, <1>6, <1>7, <1>8 DEF Next

LEMMA InitInv == ASSUME Init PROVE IInv
<1>1. nextD \in 1..(MaxDescr + 1)
  BY DiscoveryAssumption DEF Init
<1> QED
  BY <1>1 DEF Init, IInv, TypeOK, HeldInv, ToldInv

LEMMA Inductive == Spec => []IInv
<1>1. Init => IInv
  BY InitInv
<1>2. IInv /\ [Next]_vars => IInv'
  BY TypeStep, HeldStep, ToldStep DEF IInv
<1> QED
  BY <1>1, <1>2, PTL DEF Spec

(* The variables keep their types: in particular every description that is *)
(* held, was destroyed or is known to a listener has been created.         *)
THEOREM TypeCorrect == Spec => []TypeOK
<1>1. IInv => TypeOK
  BY DEF IInv
<1> QED
  BY <1>1, Inductive, PTL

(* discoveredNodes holds no description that has been destroyed, and none  *)
(* twice, over any number of restarts.                                     *)
THEOREM NothingHeldIsFreed == Spec => []HeldAlive
<1>1. IInv => HeldAlive
  BY DEF IInv, HeldInv, HeldAlive, Held
<1> QED
  BY <1>1, Inductive, PTL

(* Tracked listeners know exactly what is held, and nobody keeps a         *)
(* destroyed description, but for what came or went between the two steps  *)
(* of a registration or was handed out after the stop had informed them.   *)
THEOREM ListenersAgree == Spec => []ListenersExact
<1>1. IInv => ListenersExact
  BY DEF IInv, ToldInv, ListenersExact, In
<1> QED
  BY <1>1, Inductive, PTL

(* What is discovered is alive and in no two places, and the listeners     *)
(* know exactly that, but for the two races of registration and stop.      *)
THEOREM DescriptionsAreExact == Spec => []DescriptionsExact
BY NothingHeldIsFreed, ListenersAgree, PTL DEF DescriptionsExact

-----------------------------------------------------------------------------
(* The etcd watcher on the same node, for any wires and an event history   *)
(* of any length.  It shares no state with the handlers above.             *)

\* the events of the history, and the places of the thread
Event == [act : {"set", "expire", "delete"}, keys : SUBSET Key]
Places == {"list", "get", "synced", "loop", "wait", "decide", "refresh", "off", "fault"}

\* positions and modified indices are those of events in the history
IndexInv ==
  /\ \A k \in Key : modIndex[k] <= Len(log)
  /\ highest <= Len(log)
  /\ pc = "wait" => from >= 1 /\ (highest = -1 \/ from = highest + 1)

\* the last event of a key says whether it is in the store
LastInv ==
  \A k \in Key, j \in DOMAIN log :
    k \in log[j].keys /\ (\A i \in DOMAIN log : k \in log[i].keys => i <= j) =>
      (modIndex[k] > 0 <=> log[j].act = "set")

\* A key that is not as it was discovered has an event at i or later, which the
\* loop is still to see, or went with its directory.
Agrees(k)   == k \in discovered <=> modIndex[k] > 0
Later(k, i) == \E j \in DOMAIN log : j >= i /\ k \in log[j].keys
Deleted(k)  == \E j \in DOMAIN log : log[j].act = "delete" /\ k \in log[j].keys
Behind(i)   == \A k \in Key \ missed : Agrees(k) \/ Later(k, i) \/ Deleted(k)

\* no key is behind the position the loop watches from, or will watch from next
PlaceInv ==
  /\ pc = "wait" => Behind(from)
  /\ pc \in {"decide", "loop"} /\ highest # -1 => Behind(highest + 1)

WatcherInv == WatchTypeOK /\ IndexInv /\ LastInv /\ PlaceInv

-----------------------------------------------------------------------------

LEMMA Numbers ==
  ASSUME WatchTypeOK
  PROVE  /\ MaxIndex \in Nat /\ Len(log) \in Nat /\ DOMAIN log = 1..Len(log)
         /\ highest \in Int /\ from \in Nat /\ Key = Own \cup Remote
         /\ \A k \in Key : modIndex[k] \in Nat
         /\ \A j \in DOMAIN log : log[j] \in Event
<1>1. log \in Seq(Event)
  BY DEF WatchTypeOK, Event
<1>2. /\ Len(log) \in Nat /\ DOMAIN log = 1..Len(log)
      /\ \A j \in 1..Len(log) : log[j] \in Event
  BY <1>1, ElementOfSeq, LenProperties
<1>3. /\ modIndex \in [Key -> 0..MaxIndex] /\ highest \in -1..MaxIndex
      /\ from \in 0..(Len(log) + 1)
  BY DEF WatchTypeOK
<1> QED
  BY <1>2, <1>3, EtcdAssumption DEF WatchTypeOK, Key

\* an event is added to the history: it is the last one of its keys
Adds(act, K) ==
  /\ Len(log) + 1 <= MaxIndex
  /\ log' = Append(log, [act |-> act, keys |-> K])
  /\ modIndex' \in [Key -> Nat]
  /\ \A k \in K : /\ modIndex'[k] <= Len(log) + 1
                  /\ modIndex'[k] > 0 <=> act = "set"
  /\ \A k \in Key \ K : modIndex'[k] = modIndex[k]

Grows == \E act \in {"set", "expire", "delete"}, K \in SUBSET Key : Adds(act, K)

LEMMA SetGrows ==
  ASSUME WatchTypeOK, NEW k \in Key, Set(k)
  PROVE  UNCHANGED etcdVars \/ Grows
<1>1. CASE /\ log' = Append(log, [act |-> "set", keys |-> {k}])
           /\ modIndex' = [modIndex EXCEPT ![k] = Len(log) + 1]
           /\ Room(2) \/ Room(1)
  <2>1. Len(log) + 1 <= MaxIndex /\ modIndex \in [Key -> Nat] /\ Len(log) \in Nat
    BY <1>1, Numbers DEF Room, WatchTypeOK
  <2>2. Adds("set", {k})
    BY <1>1, <2>1 DEF Adds
  <2> QED
    BY <2>2 DEF Grows
<1> QED
  BY <1>1 DEF Set

LEMMA ExpireGrows ==
  ASSUME WatchTypeOK, NEW k \in Key, Expire(k)
  PROVE  Grows
<1>1. /\ log' = Append(log, [act |-> "expire", keys |-> {k}])
      /\ modIndex' = [modIndex EXCEPT ![k] = 0] /\ Room(2)
  BY DEF Expire
<1>2. Len(log) + 1 <= MaxIndex /\ modIndex \in [Key -> Nat] /\ Len(log) \in Nat
  BY <1>1, Numbers DEF Room, WatchTypeOK
<1>3. Adds("expire", {k})
  BY <1>1, <1>2 DEF Adds
<1> QED
  BY <1>3 DEF Grows

LEMMA DeleteGrows ==
  ASSUME WatchTypeOK, NEW K \in SUBSET Key, Delete(K),
         Len(log) + 1 <= MaxIndex
  PROVE  Grows
<1>1. /\ log' = Append(log, [act |-> "delete", keys |-> K])
      /\ modIndex' = [k \in Key |-> IF k \in K THEN 0 ELSE modIndex[k]]
  BY DEF Delete
<1>2. modIndex \in [Key -> Nat] /\ Len(log) \in Nat
  BY Numbers DEF WatchTypeOK
<1>3. modIndex' \in [Key -> Nat]
  BY <1>1, <1>2
<1>4. Adds("delete", K)
  BY <1>1, <1>2, <1>3 DEF Adds
<1> QED
  BY <1>4 DEF Grows

\* What a new event does: the modified indices and the history keep their
\* types, and nothing the loop has still to see gets lost.
LEMMA GrowsKeeps ==
  ASSUME WatchTypeOK, IndexInv, LastInv, UNCHANGED etcdVars \/ Grows
  PROVE  /\ log' \in Seq(Event) /\ Len(log') <= MaxIndex /\ Len(log') \in Nat
         /\ Len(log) <= Len(log')
         /\ modIndex' \in [Key -> 0..MaxIndex]
         /\ \A k \in Key : modIndex'[k] <= Len(log')
         /\ LastInv'
         /\ \A i \in Nat :
              i <= Len(log) + 1 /\ UNCHANGED <<discovered, missed>> /\ Behind(i) =>
              \A k \in Key \ missed : Agrees(k)' \/ Later(k, i)' \/ Deleted(k)'
<1>1. /\ log \in Seq(Event) /\ Len(log) <= MaxIndex
      /\ modIndex \in [Key -> 0..MaxIndex]
  BY DEF WatchTypeOK, Event
<1>2. CASE UNCHANGED etcdVars
  <2>1. log' = log /\ modIndex' = modIndex
    BY <1>2 DEF etcdVars
  <2> QED
    BY <1>1, <2>1, Numbers DEF IndexInv, LastInv, Behind, Agrees, Later, Deleted
<1>3. CASE Grows
  <2>1. PICK act \in {"set", "expire", "delete"}, K \in SUBSET Key : Adds(act, K)
    BY <1>3 DEF Grows
  <2> DEFINE e == [act |-> act, keys |-> K]
             L == Len(log)
  <2>2. e \in Event /\ e.act = act /\ e.keys = K
    BY DEF Event
  <2> HIDE DEF e
  <2>3. /\ L \in Nat /\ MaxIndex \in Nat /\ DOMAIN log = 1..L
        /\ L + 1 <= MaxIndex /\ log' = Append(log, e)
    BY <2>1, Numbers DEF Adds, e
  <2>4. /\ log' \in Seq(Event) /\ Len(log') = L + 1 /\ DOMAIN log' = 1..(L + 1)
        /\ \A j \in 1..L : log'[j] = log[j]
        /\ log'[L + 1] = e
    BY <1>1, <2>2, <2>3, AppendProperties
  <2>5. /\ modIndex' \in [Key -> Nat]
        /\ \A k \in Key :
             k \in K => modIndex'[k] <= L + 1 /\ (modIndex'[k] > 0 <=> act = "set")
        /\ \A k \in Key : k \notin K => modIndex'[k] = modIndex[k]
    BY <2>1 DEF Adds
  <2>6. \A k \in Key : modIndex'[k] \in Nat /\ modIndex'[k] <= L + 1
    BY <2>3, <2>5, Numbers DEF IndexInv
  <2>7. modIndex' \in [Key -> 0..MaxIndex]
    BY <2>3, <2>5, <2>6
  <2>8. \A j \in 1..(L + 1) : j \in 1..L \/ j = L + 1
    BY <2>3
  <2>9. L + 1 \in DOMAIN log' /\ \A j \in 1..L : j \in DOMAIN log'
    BY <2>3, <2>4
  <2>10. ASSUME NEW k \in Key, NEW j \in DOMAIN log', k \in log'[j].keys,
                \A i \in DOMAIN log' : k \in log'[i].keys => i <= j
         PROVE  modIndex'[k] > 0 <=> log'[j].act = "set"
    <3>1. CASE k \in K
      <4>1. L + 1 <= j
        BY <2>2, <2>4, <2>9, <2>10, <3>1
      <4>2. j = L + 1
        BY <2>3, <2>4, <4>1
      <4> QED
        BY <2>2, <2>4, <2>5, <3>1, <4>2
    <3>2. CASE k \notin K
      <4>1. j \in 1..L
        BY <2>2, <2>4, <2>8, <2>10, <3>2
      <4>2. k \in log[j].keys /\ log'[j] = log[j] /\ j \in DOMAIN log
        BY <2>3, <2>4, <2>10, <4>1
      <4>3. \A i \in DOMAIN log : k \in log[i].keys => i <= j
        BY <2>3, <2>4, <2>9, <2>10
      <4> QED
        BY <2>5, <3>2, <4>2, <4>3 DEF LastInv
    <3> QED
      BY <3>1, <3>2
  <2>11. ASSUME NEW i \in Nat, i <= L + 1, UNCHANGED <<discovered, missed>>, Behind(i),
                NEW k \in Key \ missed
         PROVE  Agrees(k)' \/ Later(k, i)' \/ Deleted(k)'
    <3>1. CASE k \in K
      <4>1. L + 1 >= i /\ k \in log'[L + 1].keys
        BY <2>2, <2>3, <2>4, <2>11, <3>1
      <4> QED
        BY <2>9, <4>1 DEF Later
    <3>2. CASE k \notin K
      <4>1. Agrees(k) => Agrees(k)'
        BY <2>5, <2>11, <3>2 DEF Agrees
      <4>2. Later(k, i) => Later(k, i)'
        BY <2>3, <2>4, <2>9 DEF Later
      <4>3. Deleted(k) => Deleted(k)'
        BY <2>3, <2>4, <2>9 DEF Deleted
      <4> QED
        BY <2>11, <4>1, <4>2, <4>3 DEF Behind
    <3> QED
      BY <3>1, <3>2
  <2>12. LastInv'
    BY <2>10 DEF LastInv
  <2> HIDE DEF L
  <2>13. Len(log') <= MaxIndex /\ Len(log') \in Nat /\ L <= Len(log')
    BY <2>3, <2>4
  <2> QED
    BY <2>4, <2>6, <2>7, <2>11, <2>12, <2>13 DEF L
<1> QED
  BY <1>2, <1>3

-----------------------------------------------------------------------------
(* What a step does to the store, and what it does to the thread.          *)

LEMMA StoreStep ==
  ASSUME WatchTypeOK, [WatchNext]_watchVars
  PROVE  UNCHANGED etcdVars \/ Grows
<1>1. ASSUME NEW k \in Key, RefreshSet(k) \/ RemoteSet(k)
      PROVE  UNCHANGED etcdVars \/ Grows
  BY <1>1, SetGrows DEF RefreshSet, RemoteSet
<1>2. ASSUME NEW k \in Key, PublishSet(k)
      PROVE  UNCHANGED etcdVars \/ Grows
  BY <1>2, SetGrows DEF PublishSet
<1>3. ASSUME RemoteStop PROVE Grows
  <2>1. Delete(Remote) /\ Len(log) + 1 <= MaxIndex
    BY <1>3, Numbers DEF RemoteStop, Room
  <2>2. Remote \in SUBSET Key
    BY DEF Key
  <2> QED
    BY <2>1, <2>2, DeleteGrows
<1>4. ASSUME StopWatcher PROVE Grows
  <2>1. Delete(Own) /\ Len(log) + 1 <= MaxIndex
    BY <1>4, Numbers DEF StopWatcher, Room
  <2>2. Own \in SUBSET Key
    BY DEF Key
  <2> QED
    BY <2>1, <2>2, DeleteGrows
<1>5. CASE \/ UNCHANGED watchVars
           \/ List \/ ListFailed \/ SyncEnd \/ WatchIssue
           \/ WatchEvent \/ WatchFailed \/ WatchAgain
           \/ Refresh \/ Resync \/ Stop
           \/ \E k \in Key : \/ Get(k) \/ GetFailed(k)
                                  \/ RefreshSkip(k) \/ RefreshFreed(k)
           \/ \E k \in Own : \/ WiringEndpointAdded(k)
                             \/ WiringEndpointRemoved(k)
  <2>1. UNCHANGED etcdVars
    BY <1>5
      DEF watchVars, etcdVars, List, ListFailed,
          SyncEnd, WatchIssue, WatchEvent, WatchFailed,
          WatchAgain, Refresh, Resync, Stop, Get,
          GetFailed, RefreshFreed, RefreshSkip, WiringEndpointAdded,
          WiringEndpointRemoved
  <2> QED
    BY <2>1
<1>6. \A k : (k \in Own => k \in Key) /\ (k \in Remote => k \in Key)
  BY DEF Key
<1> QED
  BY <1>1, <1>2, <1>3, <1>4, <1>5, <1>6, ExpireGrows
    DEF WatchNext, Watcher

\* where the thread is and what it has in its hands
LEMMA RunStep ==
  ASSUME WatchTypeOK, IndexInv, [WatchNext]_watchVars
  PROVE  /\ pc' \in Places
         /\ todo' \subseteq Key /\ discovered' \subseteq Key
         /\ missed' \subseteq Key
         /\ highest' \in Int /\ highest' >= -1 /\ highest' <= Len(log)
         /\ from' \in Nat /\ from' <= Len(log) + 1
         /\ pc' = "wait" => from' >= 1 /\ (highest' = -1 \/ from' = highest' + 1)
<1> USE DEF runVars, Places
<1>1. /\ pc \in Places
      /\ todo \subseteq Key /\ discovered \subseteq Key
      /\ missed \subseteq Key
      /\ highest \in Int /\ highest >= -1 /\ highest <= Len(log)
      /\ from \in Nat /\ from <= Len(log) + 1 /\ Len(log) \in Nat
      /\ pc = "wait" => from >= 1 /\ (highest = -1 \/ from = highest + 1)
      /\ ownList \subseteq Own /\ Own \subseteq Key
      /\ \A k \in Key : modIndex[k] \in Nat /\ modIndex[k] <= Len(log)
      /\ \A j \in 1..Len(log) : log[j].keys \subseteq Key
  BY Numbers DEF WatchTypeOK, IndexInv, Key, Event
<1>2. CASE \/ UNCHANGED watchVars \/ Stop \/ RemoteStop
           \/ \E k \in Key : Expire(k)
           \/ \E k \in Remote : RemoteSet(k)
           \/ \E k \in Own : \/ WiringEndpointAdded(k) \/ PublishSet(k)
                             \/ WiringEndpointRemoved(k)
  <2>1. UNCHANGED <<runVars, missed>>
    BY <1>2
      DEF watchVars, Stop, RemoteStop, Expire,
          RemoteSet, WiringEndpointAdded, PublishSet,
          WiringEndpointRemoved
  <2> QED
    BY <1>1, <2>1
<1>3. CASE \/ List \/ ListFailed \/ SyncEnd
           \/ Refresh \/ Resync \/ StopWatcher
           \/ WatchAgain \/ WatchFailed
           \/ \E k \in Key : RefreshFreed(k)
  <2>1. /\ pc' \in {"fault", "get", "synced", "refresh", "list", "off", "loop", "decide"}
        /\ todo' \in {Live, {}, ownList, todo}
        /\ highest' \in {-1, highest} /\ UNCHANGED <<from, discovered, missed>>
    BY <1>3
      DEF List, ListFailed, SyncEnd, Refresh,
          Resync, StopWatcher, WatchAgain, WatchFailed, RefreshFreed
  <2>2. todo' \subseteq Key
    BY <1>1, <2>1 DEF Live
  <2>3. highest' \in Int /\ highest' >= -1 /\ highest' <= Len(log)
    BY <1>1, <2>1
  <2>4. pc' # "wait" /\ pc' \in Places
    BY <2>1
  <2> QED
    BY <1>1, <2>1, <2>2, <2>3, <2>4
<1>4. ASSUME NEW k \in Key,
             \/ Get(k) \/ GetFailed(k)
             \/ RefreshSet(k) \/ RefreshSkip(k)
      PROVE  /\ pc' = pc /\ pc # "wait"
             /\ todo' \subseteq Key /\ discovered' \subseteq Key
             /\ highest' \in Int /\ highest' >= -1 /\ highest' <= Len(log)
             /\ UNCHANGED <<from, missed>>
  <2>1. /\ pc' = pc /\ pc \in {"get", "refresh"} /\ todo' = todo \ {k}
        /\ discovered' \in {discovered, discovered \cup {k}}
        /\ highest' \in {modIndex[k], 0, highest} /\ UNCHANGED <<from, missed>>
    BY <1>4 DEF Get, GetFailed, RefreshSet, RefreshSkip
  <2> QED
    BY <1>1, <2>1
<1>5. CASE WatchIssue
  <2> DEFINE i == IF highest = -1 THEN Len(log) + 1 ELSE highest + 1
  <2>1. /\ pc' = "wait" /\ from' = i /\ UNCHANGED <<todo, highest, discovered>>
        /\ missed' = Passed(i) \/ missed' = missed
    BY <1>5 DEF WatchIssue
  <2>2. Passed(i) \subseteq Key
    BY DEF Passed
  <2>3. i \in Nat /\ i >= 1 /\ i <= Len(log) + 1
    BY <1>1
  <2> QED
    BY <1>1, <2>1, <2>2, <2>3
<1>6. CASE WatchEvent
  <2>1. /\ pc' = "decide" /\ highest' = from /\ from <= Len(log) /\ pc = "wait"
        /\ UNCHANGED <<todo, from, missed>>
    BY <1>6 DEF WatchEvent
  <2>2. from \in 1..Len(log)
    BY <1>1, <2>1
  <2>3. discovered' \subseteq discovered \cup log[from].keys
    <3>1. log[from].act \in {"set", "expire", "delete"}
      BY <2>2, Numbers DEF Event
    <3> QED
      BY <1>6, <3>1 DEF WatchEvent
  <2>4. discovered' \subseteq Key
    BY <1>1, <2>2, <2>3
  <2> QED
    BY <1>1, <2>1, <2>2, <2>4
<1> QED
  BY <1>1, <1>2, <1>3, <1>4, <1>5, <1>6 DEF WatchNext, Watcher

LEMMA WatcherTypeStep ==
  ASSUME WatchTypeOK, IndexInv, LastInv, [WatchNext]_watchVars
  PROVE  WatchTypeOK' /\ IndexInv' /\ LastInv'
<1>1. /\ log' \in Seq(Event) /\ Len(log') <= MaxIndex /\ Len(log') \in Nat
      /\ Len(log) <= Len(log') /\ Len(log) \in Nat
      /\ modIndex' \in [Key -> 0..MaxIndex]
      /\ \A k \in Key : modIndex'[k] <= Len(log')
      /\ LastInv'
  BY StoreStep, GrowsKeeps, Numbers
<1>2. /\ pc' \in Places
      /\ todo' \subseteq Key /\ discovered' \subseteq Key
      /\ missed' \subseteq Key
      /\ highest' \in Int /\ highest' >= -1 /\ highest' <= Len(log)
      /\ from' \in Nat /\ from' <= Len(log) + 1
      /\ pc' = "wait" => from' >= 1 /\ (highest' = -1 \/ from' = highest' + 1)
  BY RunStep
<1>3. gone' \in BOOLEAN /\ running' \in BOOLEAN
  <2>1. gone' \in {gone, TRUE} /\ running' \in {running, FALSE}
    BY DEF WatchNext, Watcher, watchVars, List, ListFailed,
           SyncEnd, WatchIssue, WatchEvent, WatchFailed,
           WatchAgain, Refresh, Resync, Stop,
           StopWatcher, RemoteStop, Get, GetFailed,
           RefreshSet, RefreshFreed, RefreshSkip, Expire, RemoteSet,
           WiringEndpointAdded, PublishSet,
           WiringEndpointRemoved
  <2> QED
    BY <2>1 DEF WatchTypeOK
<1>4. ownList' \subseteq Own /\ publish' \subseteq ownList'
  <2>1. \/ UNCHANGED ownVars
        \/ \E k \in Own : \/ WiringEndpointAdded(k) \/ PublishSet(k)
                          \/ WiringEndpointRemoved(k)
    BY DEF WatchNext, Watcher, watchVars, List, ListFailed,
           SyncEnd, WatchIssue, WatchEvent, WatchFailed,
           WatchAgain, Refresh, Resync, Stop,
           StopWatcher, RemoteStop, Get, GetFailed,
           RefreshSet, RefreshFreed, RefreshSkip, Expire, RemoteSet
  <2>2. ownList \subseteq Own /\ publish \subseteq ownList
    BY DEF WatchTypeOK
  <2> QED
    BY <2>1, <2>2
      DEF ownVars, WiringEndpointAdded, PublishSet,
          WiringEndpointRemoved
<1>5. /\ highest' \in -1..MaxIndex /\ highest' <= Len(log')
      /\ from' \in 0..(Len(log') + 1)
  BY <1>1, <1>2, Numbers
<1>6. WatchTypeOK'
  BY <1>1, <1>2, <1>3, <1>4, <1>5 DEF WatchTypeOK, Event, Places
<1>7. IndexInv'
  BY <1>1, <1>2, <1>5 DEF IndexInv
<1> QED
  BY <1>1, <1>6, <1>7

-----------------------------------------------------------------------------

\* While the thread does not move, the position stays good, whatever others do.
LEMMA OthersBehind ==
  ASSUME WatcherInv, UNCHANGED etcdVars \/ Grows,
         UNCHANGED <<pc, highest, from, discovered, missed>>
  PROVE  PlaceInv'
<1>1. ASSUME NEW i \in Nat, i <= Len(log) + 1, Behind(i)
      PROVE  \A k \in Key \ missed : Agrees(k)' \/ Later(k, i)' \/ Deleted(k)'
  BY <1>1, GrowsKeeps DEF WatcherInv
<1>2. CASE pc = "wait"
  <2>1. from \in Nat /\ from <= Len(log) + 1 /\ Behind(from)
    BY <1>2, Numbers DEF WatcherInv, WatchTypeOK, PlaceInv
  <2>2. \A k \in Key \ missed : Agrees(k)' \/ Later(k, from)' \/ Deleted(k)'
    BY <1>1, <2>1
  <2> QED
    BY <1>2, <2>2 DEF PlaceInv, Behind, Later
<1>3. CASE pc \in {"decide", "loop"} /\ highest # -1
  <2>1. highest + 1 \in Nat /\ highest + 1 <= Len(log) + 1 /\ Behind(highest + 1)
    BY <1>3, Numbers
      DEF WatcherInv, WatchTypeOK, IndexInv, PlaceInv
  <2>2. \A k \in Key \ missed : Agrees(k)' \/ Later(k, highest + 1)' \/ Deleted(k)'
    BY <1>1, <2>1
  <2> QED
    BY <1>3, <2>2 DEF PlaceInv, Behind, Later
<1> QED
  BY <1>2, <1>3 DEF PlaceInv

LEMMA IssueBehind ==
  ASSUME WatcherInv, WatchIssue
  PROVE  PlaceInv'
<1> DEFINE i == IF highest = -1 THEN Len(log) + 1 ELSE highest + 1
<1>1. /\ pc \in {"synced", "loop"} /\ pc' = "wait" /\ from' = i
      /\ missed' = IF pc = "synced" \/ highest = -1 THEN Passed(i) ELSE missed
      /\ UNCHANGED <<etcdVars, discovered>>
  BY DEF WatchIssue
<1>2. i \in Nat /\ i >= 1
  BY Numbers DEF WatcherInv, WatchTypeOK
<1> HIDE DEF i
<1>3. ASSUME NEW k \in Key \ missed' PROVE Agrees(k) \/ Later(k, i) \/ Deleted(k)
  <2>1. CASE pc = "synced" \/ highest = -1
    <3>1. k \notin Passed(i)
      BY <1>1, <1>3, <2>1
    <3>2. CASE (k \in discovered) = (k \in Live)
      BY <3>2 DEF Agrees, Live
    <3>3. CASE \E j \in i..Len(log) : k \in log[j].keys
      <4>1. PICK j \in i..Len(log) : k \in log[j].keys
        BY <3>3
      <4>2. j \in DOMAIN log /\ j >= i
        BY <1>2, <4>1, Numbers DEF WatcherInv
      <4> QED
        BY <4>1, <4>2 DEF Later
    <3> QED
      BY <3>1, <3>2, <3>3 DEF Passed
  <2>2. CASE ~(pc = "synced" \/ highest = -1)
    <3>1. Behind(i) /\ missed' = missed
      BY <1>1, <2>2 DEF WatcherInv, PlaceInv, i
    <3> QED
      BY <1>3, <3>1 DEF Behind
  <2> QED
    BY <2>1, <2>2
<1> QED
  BY <1>1, <1>3 DEF PlaceInv, Behind, Agrees, Later, Deleted, etcdVars

LEMMA EventBehind ==
  ASSUME WatcherInv, WatchEvent
  PROVE  PlaceInv'
<1> DEFINE e == log[from]
<1>1. /\ pc = "wait" /\ pc' = "decide" /\ highest' = from /\ from <= Len(log)
      /\ UNCHANGED <<etcdVars, missed>>
  BY DEF WatchEvent
<1>2. /\ from \in Nat /\ from >= 1 /\ from \in DOMAIN log /\ e \in Event
      /\ DOMAIN log = 1..Len(log) /\ Behind(from)
  BY <1>1, Numbers DEF WatcherInv, WatchTypeOK, IndexInv, PlaceInv
<1>3. /\ e.act = "set" => discovered' = discovered \cup e.keys
      /\ e.act = "expire" => discovered' = discovered \ e.keys
      /\ e.act = "delete" => discovered' = discovered
      /\ e.act \in {"set", "expire", "delete"}
  BY <1>2 DEF WatchEvent, Event
<1> HIDE DEF e
<1>4. ASSUME NEW k \in Key \ missed, ~Later(k, from + 1), ~Deleted(k)
      PROVE  k \in discovered' <=> modIndex[k] > 0
  <2>1. \A j \in DOMAIN log : k \in log[j].keys => j <= from
    BY <1>2, <1>4 DEF Later
  <2>2. CASE k \in e.keys
    <3>1. modIndex[k] > 0 <=> e.act = "set"
      BY <1>2, <2>1, <2>2 DEF WatcherInv, LastInv, e
    <3>2. e.act # "delete"
      BY <1>2, <1>4, <2>2 DEF Deleted, e
    <3> QED
      BY <1>3, <2>2, <3>1, <3>2
  <2>3. CASE k \notin e.keys
    <3>1. ~Later(k, from)
      <4>1. ASSUME NEW j \in DOMAIN log, j >= from, k \in log[j].keys PROVE FALSE
        <5>1. j = from
          BY <1>2, <2>1, <4>1
        <5> QED
          BY <2>3, <4>1, <5>1 DEF e
      <4> QED
        BY <4>1 DEF Later
    <3>2. Agrees(k)
      BY <1>2, <1>4, <3>1 DEF Behind
    <3> QED
      BY <1>3, <2>3, <3>2 DEF Agrees
  <2> QED
    BY <2>2, <2>3
<1> QED
  BY <1>1, <1>4 DEF PlaceInv, Behind, Agrees, Later, Deleted, etcdVars

LEMMA PlaceStep ==
  ASSUME WatcherInv, [WatchNext]_watchVars
  PROVE  PlaceInv'
<1> USE DEF runVars, ownVars
<1>1. UNCHANGED etcdVars \/ Grows
  BY StoreStep DEF WatcherInv
<1>2. CASE \/ UNCHANGED watchVars \/ Stop \/ RemoteStop
           \/ \E k \in Key : \/ Expire(k)
                                  \/ RefreshSkip(k) \/ RefreshSet(k)
           \/ \E k \in Remote : RemoteSet(k)
           \/ \E k \in Own : \/ WiringEndpointAdded(k) \/ PublishSet(k)
                             \/ WiringEndpointRemoved(k)
  <2>1. UNCHANGED <<pc, highest, from, discovered, missed>>
    BY <1>2
      DEF watchVars, Stop, RemoteStop, Expire,
          RefreshSkip, RefreshSet, RemoteSet,
          WiringEndpointAdded, PublishSet,
          WiringEndpointRemoved
  <2> QED
    BY <1>1, <2>1, OthersBehind
<1>3. CASE \/ List \/ ListFailed \/ SyncEnd
           \/ Refresh \/ Resync \/ StopWatcher
           \/ \E k \in Key : Get(k) \/ GetFailed(k) \/ RefreshFreed(k)
  <2>1. pc' \notin {"wait", "decide", "loop"}
    BY <1>3
      DEF List, ListFailed, SyncEnd, Refresh,
          Resync, StopWatcher, Get, GetFailed, RefreshFreed
  <2> QED
    BY <2>1 DEF PlaceInv
<1>4. CASE WatchFailed \/ WatchAgain
  <2>1. /\ pc \in {"wait", "decide"} /\ pc' \in {"decide", "loop"}
        /\ UNCHANGED <<etcdVars, highest, from, discovered, missed>>
        /\ pc = "wait" /\ highest # -1 => from = highest + 1
    BY <1>4 DEF WatchFailed, WatchAgain, WatcherInv, IndexInv
  <2>2. highest # -1 => Behind(highest + 1)
    BY <2>1 DEF WatcherInv, PlaceInv
  <2> QED
    BY <2>1, <2>2 DEF PlaceInv, Behind, Agrees, Later, Deleted, etcdVars
<1> QED
  BY <1>2, <1>3, <1>4, IssueBehind, EventBehind DEF WatchNext, Watcher

LEMMA WatcherInit == ASSUME WatchInit PROVE WatcherInv
<1>1. log \in Seq(Event) /\ Len(log) = 0 /\ DOMAIN log = {}
  BY DEF WatchInit
<1>2. /\ modIndex \in [Key -> 0..MaxIndex]
      /\ highest \in -1..MaxIndex /\ from \in 0..(Len(log) + 1)
  BY <1>1, EtcdAssumption DEF WatchInit
<1>3. WatchTypeOK
  <2>1. Len(log) <= MaxIndex
    BY <1>1, EtcdAssumption
  <2>2. gone \in BOOLEAN /\ running \in BOOLEAN
    BY DEF WatchInit
  <2> QED
    BY <1>1, <1>2, <2>1, <2>2 DEF WatchInit, WatchTypeOK, Event
<1> QED
  BY <1>1, <1>3 DEF WatchInit, WatcherInv, IndexInv, LastInv, PlaceInv

LEMMA WatcherInductive == WatchSpec => []WatcherInv
<1>1. WatchInit => WatcherInv
  BY WatcherInit
<1>2. WatcherInv /\ [WatchNext]_watchVars => WatcherInv'
  BY WatcherTypeStep, PlaceStep DEF WatcherInv
<1> QED
  BY <1>1, <1>2, PTL DEF WatchSpec

(* The event history, the modified indices, the position of the watch and  *)
(* what is discovered keep their types, for a history of any length.       *)
THEOREM WatcherTypeCorrect == WatchSpec => []WatchTypeOK
<1>1. WatcherInv => WatchTypeOK
  BY DEF WatcherInv, WatchTypeOK
<1> QED
  BY <1>1, WatcherInductive, PTL

(* The loop of etcdWatcher_run loses, repeats and reorders no event,       *)
(* wherever a sync has put the watch: when no event is left, what is       *)
(* discovered is what is in etcd, but for the keys that the sync passed    *)
(* over and those that went with their directory.                          *)
THEOREM NothingPassedOver == WatchSpec => []CaughtUpExact
<1>1. ASSUME WatcherInv, pc = "wait", from = Len(log) + 1, NEW k \in Key \ missed
      PROVE  \/ (k \in discovered) = (k \in Live)
             \/ \E i \in DOMAIN log : log[i].act = "delete" /\ k \in log[i].keys
  <2>1. Agrees(k) \/ Later(k, from) \/ Deleted(k)
    BY <1>1 DEF WatcherInv, PlaceInv, Behind
  <2>2. ~Later(k, from)
    BY <1>1, Numbers DEF WatcherInv, Later
  <2> QED
    BY <2>1, <2>2 DEF Agrees, Deleted, Live
<1>2. WatcherInv => CaughtUpExact
  BY <1>1 DEF CaughtUpExact
<1> QED
  BY <1>2, WatcherInductive, PTL

-----------------------------------------------------------------------------
(* The announcement of an endpoint, for names and values of any length:    *)
(* first the loops over a text.                                            *)

LEMMA NatLeast ==
  ASSUME NEW T \in SUBSET Nat, T # {}
  PROVE  \E x \in T : \A y \in T : x <= y
<1> DEFINE R == {p \in Nat \X Nat : p[1] < p[2]}
<1>1. OpToRel(<, Nat) = R
  BY Zenon DEF OpToRel
<1>2. IsWellFoundedOn(R, Nat)
  BY <1>1, NatLessThanWellFounded, Zenon
<1>3. PICK x \in T : \A y \in T : <<y, x>> \notin R
  BY <1>2, WFMin, Zenon
<1>4. \A y \in T : ~(y < x)
  BY <1>3
<1> QED
  BY <1>4

\* what holds at 0 and passes from each number to the next holds at N
Passes(T, N) == 0 \in T /\ \A n \in 0..N : n \in T /\ n < N => n + 1 \in T

LEMMA Upto ==
  ASSUME NEW N \in Nat, NEW T, Passes(T, N)
  PROVE  N \in T
<1> DEFINE Out == {n \in 0..N : n \notin T}
<1>1. SUFFICES ASSUME Out # {} PROVE FALSE
  OBVIOUS
<1>2. Out \in SUBSET Nat
  OBVIOUS
<1>3. PICK x \in Out : \A y \in Out : x <= y
  <2> HIDE DEF Out
  <2> QED
    BY <1>1, <1>2, NatLeast
<1>4. x # 0 /\ x - 1 \in 0..N /\ x - 1 \notin Out /\ x - 1 < N /\ (x - 1) + 1 = x
  BY <1>3 DEF Passes
<1>5. x - 1 \in T => x \in T
  BY <1>4 DEF Passes
<1> QED
  BY <1>3, <1>4, <1>5

-----------------------------------------------------------------------------
(* Texts.  What the loops over a text make is the end of a path: f[i] is   *)
(* what they have made when they have seen i letters.                      *)

Path(step, start, s, f) ==
  f[0] = start /\ \A i \in 1..Len(s) : f[i] = step[f[i - 1]][s[i]]

Looped(step, start, s, f, D) ==
  f = [i \in D |-> IF i = 0 THEN start ELSE step[f[i - 1]][s[i]]]

LEMMA LoopedExists ==
  ASSUME NEW step, NEW start, NEW s, NEW N \in Nat
  PROVE  \E f : Looped(step, start, s, f, 0..N)
<1> DEFINE T == {n \in 0..N : \E f : Looped(step, start, s, f, 0..n)}
<1>1. 0 \in T
  <2> DEFINE f == [i \in 0..0 |-> start]
  <2>1. f = [i \in 0..0 |-> IF i = 0 THEN start ELSE step[f[i - 1]][s[i]]]
    OBVIOUS
  <2>2. Looped(step, start, s, f, 0..0)
    BY <2>1 DEF Looped
  <2> QED
    BY <2>2
<1>2. ASSUME NEW n \in 0..N, n \in T, n < N PROVE n + 1 \in T
  <2>1. PICK f : Looped(step, start, s, f, 0..n)
    BY <1>2
  <2> DEFINE D == 0..(n + 1)
             turn(h, i) == IF i = 0 THEN start ELSE step[h[i - 1]][s[i]]
             g == [i \in D |-> IF i \in 0..n THEN f[i] ELSE turn(f, i)]
  <2>2. \A i \in 0..n : f[i] = turn(f, i)
    BY <2>1 DEF Looped
  <2>3. ASSUME NEW i \in D PROVE g[i] = turn(g, i)
    <3>1. g[i] = turn(f, i)
      BY <2>2
    <3>2. i # 0 => i - 1 \in 0..n /\ i - 1 \in D
      OBVIOUS
    <3>3. i # 0 => g[i - 1] = f[i - 1]
      BY <3>2
    <3> HIDE DEF g, D
    <3> QED
      BY <3>1, <3>3
  <2>4. g = [i \in D |-> turn(g, i)]
    <3>1. g = [i \in D |-> g[i]]
      OBVIOUS
    <3> HIDE DEF g, D
    <3> QED
      BY <2>3, <3>1
  <2>5. Looped(step, start, s, g, 0..(n + 1))
    BY <2>4 DEF Looped
  <2> HIDE DEF g
  <2> QED
    BY <1>2, <2>5
<1>3. N \in T
  <2>1. Passes(T, N)
    BY <1>1, <1>2 DEF Passes
  <2> HIDE DEF T
  <2> QED
    BY <2>1, Upto
<1> QED
  BY <1>3

LEMMA AfterPath ==
  ASSUME NEW step, NEW start, NEW L, NEW s \in Seq(L)
  PROVE  \E f : Path(step, start, s, f) /\ After(step, start, s) = f[Len(s)]
<1> DEFINE at[i \in 0..Len(s)] == IF i = 0 THEN start ELSE step[at[i - 1]][s[i]]
<1>1. After(step, start, s) = at[Len(s)]
  BY DEF After
<1>2. at = CHOOSE f : f = [i \in 0..Len(s) |-> IF i = 0 THEN start ELSE step[f[i - 1]][s[i]]]
  BY DEF at
<1> HIDE DEF at
<1>3. at = CHOOSE f : Looped(step, start, s, f, 0..Len(s))
  BY <1>2 DEF Looped
<1>4. Len(s) \in Nat
  BY LenProperties
<1>5. Looped(step, start, s, at, 0..Len(s))
  BY <1>3, <1>4, LoopedExists
<1>6. Path(step, start, s, at)
  BY <1>4, <1>5 DEF Looped, Path
<1> QED
  BY <1>1, <1>6

LEMMA AfterIs ==
  ASSUME NEW step, NEW start, NEW L, NEW s \in Seq(L), NEW f, Path(step, start, s, f)
  PROVE  After(step, start, s) = f[Len(s)]
<1>1. PICK g : Path(step, start, s, g) /\ After(step, start, s) = g[Len(s)]
  BY AfterPath
<1> DEFINE T == {n \in 0..Len(s) : f[n] = g[n]}
<1>2. Len(s) \in Nat
  BY LenProperties
<1>3. 0 \in T
  BY <1>1, <1>2 DEF Path
<1>4. ASSUME NEW n \in 0..Len(s), n \in T, n < Len(s) PROVE n + 1 \in T
  <2>1. n + 1 \in 1..Len(s) /\ (n + 1) - 1 = n
    BY <1>2, <1>4
  <2>2. f[n + 1] = step[f[n]][s[n + 1]] /\ g[n + 1] = step[g[n]][s[n + 1]]
    BY <1>1, <2>1 DEF Path
  <2> QED
    BY <1>2, <1>4, <2>2
<1>5. Passes(T, Len(s))
  BY <1>3, <1>4 DEF Passes
<1>6. Len(s) \in T
  <2> HIDE DEF T
  <2> QED
    BY <1>2, <1>5, Upto
<1> QED
  BY <1>1, <1>6

\* what the steps do not leave is not left
LEMMA AfterWithin ==
  ASSUME NEW step, NEW start, NEW L, NEW s \in Seq(L), NEW P, start \in P,
         \A p \in P, i \in 1..Len(s) : step[p][s[i]] \in P
  PROVE  After(step, start, s) \in P
<1>1. PICK g : Path(step, start, s, g) /\ After(step, start, s) = g[Len(s)]
  BY AfterPath
<1> DEFINE T == {n \in 0..Len(s) : g[n] \in P}
<1>2. Len(s) \in Nat
  BY LenProperties
<1>3. 0 \in T
  BY <1>1, <1>2 DEF Path
<1>4. ASSUME NEW n \in 0..Len(s), n \in T, n < Len(s) PROVE n + 1 \in T
  <2>1. n + 1 \in 1..Len(s) /\ (n + 1) - 1 = n
    BY <1>2, <1>4
  <2>2. g[n + 1] = step[g[n]][s[n + 1]]
    BY <1>1, <2>1 DEF Path
  <2> QED
    BY <1>2, <1>4, <2>1, <2>2
<1>5. Passes(T, Len(s))
  BY <1>3, <1>4 DEF Passes
<1>6. Len(s) \in T
  <2> HIDE DEF T
  <2> QED
    BY <1>2, <1>5, Upto
<1> QED
  BY <1>1, <1>6

LEMMA AfterEmpty ==
  ASSUME NEW step, NEW start
  PROVE  After(step, start, <<>>) = start
<1> DEFINE f == [i \in {0} |-> start]
<1>1. <<>> \in Seq({}) /\ Len(<<>>) = 0
  BY EmptySeq
<1>2. f[0] = start
  OBVIOUS
<1> HIDE DEF f
<1>3. Path(step, start, <<>>, f)
  BY <1>1, <1>2 DEF Path
<1> QED
  BY <1>1, <1>2, <1>3, AfterIs

LEMMA AfterOne ==
  ASSUME NEW step, NEW start, NEW c
  PROVE  After(step, start, <<c>>) = step[start][c]
<1> DEFINE f == [i \in {0, 1} |-> IF i = 0 THEN start ELSE step[start][c]]
<1>1. <<c>> \in Seq({c}) /\ Len(<<c>>) = 1 /\ <<c>>[1] = c
  OBVIOUS
<1>2. f[0] = start /\ f[1] = step[f[0]][c]
  OBVIOUS
<1> HIDE DEF f
<1>3. Path(step, start, <<c>>, f)
  BY <1>1, <1>2 DEF Path
<1> QED
  BY <1>1, <1>2, <1>3, AfterIs

LEMMA AfterConcat ==
  ASSUME NEW step, NEW start, NEW L, NEW s \in Seq(L), NEW t \in Seq(L)
  PROVE  After(step, start, s \o t) = After(step, After(step, start, s), t)
<1> DEFINE m == Len(s)
           u == s \o t
<1>1. PICK f : Path(step, start, s, f) /\ After(step, start, s) = f[m]
  BY AfterPath
<1>2. PICK g : Path(step, f[m], t, g) /\ After(step, f[m], t) = g[Len(t)]
  BY AfterPath
<1>3. /\ m \in Nat /\ Len(t) \in Nat
      /\ u \in Seq(L) /\ Len(u) = m + Len(t)
      /\ \A i \in 1..Len(u) : u[i] = IF i <= m THEN s[i] ELSE t[i - m]
  BY LenProperties, ConcatProperties
<1> DEFINE h == [i \in 0..Len(u) |-> IF i <= m THEN f[i] ELSE g[i - m]]
<1> HIDE DEF u
<1>4. \A i \in 0..Len(u) : i >= m => h[i] = g[i - m]
  BY <1>2, <1>3 DEF Path
<1>5. \A i \in 0..Len(u) : i <= m => h[i] = f[i]
  BY <1>3
<1> HIDE DEF h
<1>6. ASSUME NEW i \in 1..Len(u) PROVE h[i] = step[h[i - 1]][u[i]]
  <2>1. i - 1 \in 0..Len(u) /\ i \in 0..Len(u)
    BY <1>3
  <2>2. CASE i <= m
    <3>1. i \in 1..m /\ i - 1 <= m
      BY <1>3, <2>2
    <3>2. f[i] = step[f[i - 1]][s[i]]
      BY <1>1, <3>1 DEF Path
    <3>3. h[i] = f[i] /\ h[i - 1] = f[i - 1] /\ u[i] = s[i]
      BY <1>3, <1>5, <2>1, <2>2, <3>1
    <3> QED
      BY <3>2, <3>3
  <2>3. CASE ~(i <= m)
    <3>1. i - m \in 1..Len(t) /\ i >= m /\ i - 1 >= m /\ (i - 1) - m = (i - m) - 1
      BY <1>3, <2>3
    <3>2. h[i] = g[i - m] /\ h[i - 1] = g[(i - m) - 1] /\ u[i] = t[i - m]
      BY <1>3, <1>4, <2>1, <2>3, <3>1
    <3>3. g[i - m] = step[g[(i - m) - 1]][t[i - m]]
      BY <1>2, <3>1 DEF Path
    <3> QED
      BY <3>2, <3>3
  <2> QED
    BY <2>2, <2>3
<1>7. h[0] = start /\ h[Len(u)] = g[Len(t)]
  <2>1. 0 \in 0..Len(u) /\ 0 <= m /\ Len(u) \in 0..Len(u) /\ Len(u) >= m /\ Len(u) - m = Len(t)
    BY <1>3
  <2> QED
    BY <1>1, <1>4, <1>5, <2>1 DEF Path
<1>8. Path(step, start, u, h)
  BY <1>6, <1>7 DEF Path
<1>9. After(step, start, u) = h[Len(u)]
  BY <1>3, <1>8, AfterIs
<1> QED
  BY <1>1, <1>2, <1>7, <1>9 DEF u

Marked(c) == IF c \in Special THEN <<"\\", c>> ELSE <<c>>

LEMMA Tuples ==
  ASSUME NEW S, NEW a \in S, NEW b \in S
  PROVE  /\ <<a>> \in Seq(S) /\ Len(<<a>>) = 1 /\ <<a>>[1] = a
         /\ <<a, b>> \in Seq(S) /\ <<a>> \o <<b>> = <<a, b>>
<1>1. <<a>> \in Seq(S) /\ Len(<<a>>) = 1 /\ <<a>>[1] = a
  OBVIOUS
<1>2. <<b>> \in Seq(S) /\ Len(<<b>>) = 1 /\ <<b>>[1] = b
  OBVIOUS
<1>3. <<a, b>> \in Seq(S) /\ Len(<<a, b>>) = 2 /\ <<a, b>>[1] = a /\ <<a, b>>[2] = b
  OBVIOUS
<1>4. /\ <<a>> \o <<b>> \in Seq(S) /\ Len(<<a>> \o <<b>>) = 2
      /\ (<<a>> \o <<b>>)[1] = a /\ (<<a>> \o <<b>>)[2] = b
  <2>1. /\ <<a>> \o <<b>> \in Seq(S)
        /\ Len(<<a>> \o <<b>>) = Len(<<a>>) + Len(<<b>>)
        /\ \A i \in 1..Len(<<a>>) + Len(<<b>>) :
             (<<a>> \o <<b>>)[i] = IF i <= Len(<<a>>) THEN <<a>>[i] ELSE <<b>>[i - Len(<<a>>)]
    BY <1>1, <1>2, ConcatProperties
  <2> QED
    BY <1>1, <1>2, <2>1
<1>5. \A i \in 1..2 : (<<a>> \o <<b>>)[i] = <<a, b>>[i]
  BY <1>3, <1>4
<1>6. <<a>> \o <<b>> = <<a, b>>
  BY <1>3, <1>4, <1>5, SeqEqual
<1> QED
  BY <1>1, <1>3, <1>6

LEMMA Letters ==
  /\ \A c \in Char : c \in Letter /\ <<c>> \in Text
  /\ \A c \in Letter : <<c>> \in Text /\ Marked(c) \in Text
  /\ <<>> \in Text /\ WireIdKey \in Text /\ <<WireId>> \in Text
<1>1. Char \subseteq Letter /\ "wire id" \in Letter /\ WireId \in Letter /\ "\\" \in Letter
  BY DEF Letter, Char
<1>2. <<>> \in Text /\ \A a, b \in Letter : <<a>> \in Text /\ <<a, b>> \in Text
  BY Tuples, EmptySeq DEF Text
<1> QED
  BY <1>1, <1>2 DEF Marked, WireIdKey

LEMMA TextConcat ==
  ASSUME NEW s \in Text, NEW t \in Text
  PROVE  s \o t \in Text
BY ConcatProperties DEF Text

LEMMA MarkLetterIs ==
  ASSUME NEW s \in Text, NEW c \in Letter
  PROVE  MarkLetter[s][c] = s \o Marked(c) /\ MarkLetter[s][c] \in Text
<1>1. MarkLetter[s][c] = s \o Marked(c)
  BY DEF MarkLetter, Marked
<1> QED
  BY <1>1, Letters, TextConcat

\* the marked text has no letter that the text does not have, but the mark
LEMMA MarkWithin ==
  ASSUME NEW C, C \subseteq Letter, "\\" \in C, NEW s \in Seq(C)
  PROVE  Mark(s) \in Seq(C)
<1>1. <<>> \in Seq(C)
  BY EmptySeq
<1>2. ASSUME NEW p \in Seq(C), NEW i \in 1..Len(s) PROVE MarkLetter[p][s[i]] \in Seq(C)
  <2>1. s[i] \in C
    BY ElementOfSeq
  <2>2. p \in Text /\ s[i] \in Letter
    BY <2>1, SeqMonotonic DEF Text
  <2>3. Marked(s[i]) \in Seq(C)
    BY <2>1 DEF Marked
  <2> QED
    BY <2>2, <2>3, MarkLetterIs, ConcatProperties
<1> QED
  BY <1>1, <1>2, AfterWithin DEF Mark

LEMMA MarkText == ASSUME NEW s \in Text PROVE Mark(s) \in Text
<1>1. "\\" \in Letter
  BY DEF Letter, Char
<1> QED
  BY <1>1, MarkWithin DEF Text

\* Reading what was written of s: the path goes from one letter of s to the
\* next, over the mark and the letter together.
MarkedPath(step, start, s, f) ==
  f[0] = start /\ \A i \in 1..Len(s) : f[i] = After(step, f[i - 1], Marked(s[i]))

LEMMA AfterMark ==
  ASSUME NEW step, NEW start, NEW s \in Text
  PROVE  \E f : MarkedPath(step, start, s, f) /\ After(step, start, Mark(s)) = f[Len(s)]
<1>1. PICK m : Path(MarkLetter, <<>>, s, m) /\ Mark(s) = m[Len(s)]
  BY AfterPath DEF Mark, Text
<1>2. Len(s) \in Nat /\ \A i \in 1..Len(s) : s[i] \in Letter
  BY ElementOfSeq, LenProperties DEF Text
<1> DEFINE T == {n \in 0..Len(s) : \A i \in 0..n : m[i] \in Text}
<1>3. 0 \in T
  BY <1>1, <1>2, Letters DEF Path
<1>4. ASSUME NEW n \in 0..Len(s), n \in T, n < Len(s) PROVE n + 1 \in T
  <2>1. n + 1 \in 1..Len(s) /\ (n + 1) - 1 = n
    BY <1>2, <1>4
  <2>2. m[n + 1] = MarkLetter[m[n]][s[n + 1]] /\ m[n] \in Text
    BY <1>1, <1>4, <2>1 DEF Path
  <2>3. m[n + 1] \in Text
    BY <1>2, <2>1, <2>2, MarkLetterIs
  <2>4. \A i \in 0..(n + 1) : i \in 0..n \/ i = n + 1
    OBVIOUS
  <2> QED
    BY <1>2, <1>4, <2>3, <2>4
<1>5. Passes(T, Len(s))
  BY <1>3, <1>4 DEF Passes
<1>6. Len(s) \in T
  <2> HIDE DEF T
  <2> QED
    BY <1>2, <1>5, Upto
<1>7. \A i \in 0..Len(s) : m[i] \in Text
  BY <1>6
<1> HIDE DEF T
<1> DEFINE f == [i \in 0..Len(s) |-> After(step, start, m[i])]
<1>8. f[0] = start
  BY <1>1, <1>2, AfterEmpty DEF Path
<1>9. ASSUME NEW i \in 1..Len(s) PROVE f[i] = After(step, f[i - 1], Marked(s[i]))
  <2>1. i - 1 \in 0..Len(s) /\ i \in 0..Len(s)
    BY <1>2
  <2>2. m[i] = m[i - 1] \o Marked(s[i]) /\ m[i - 1] \in Text
    BY <1>1, <1>2, <1>7, <2>1, MarkLetterIs DEF Path
  <2>3. Marked(s[i]) \in Text
    BY <1>2, Letters
  <2>4. After(step, start, m[i]) = After(step, After(step, start, m[i - 1]), Marked(s[i]))
    BY <2>2, <2>3, AfterConcat DEF Text
  <2> QED
    BY <2>1, <2>4
<1>10. f[Len(s)] = After(step, start, Mark(s))
  BY <1>1, <1>2
<1> HIDE DEF f
<1>11. MarkedPath(step, start, s, f)
  BY <1>8, <1>9 DEF MarkedPath
<1> QED
  BY <1>10, <1>11

-----------------------------------------------------------------------------
(* The reader, letter by letter, over a text that the writer has marked.   *)

LEMMA ReadType ==
  ASSUME NEW r \in LineState, NEW c \in Letter
  PROVE  ReadLetter[r][c] = ReadChar(r, c) /\ ReadChar(r, c) \in LineState
<1>1. ReadLetter[r][c] = ReadChar(r, c)
  BY DEF ReadLetter
<1>2. ASSUME NEW q \in LineState, NEW s \in Text PROVE Put(q, s) \in LineState
  BY TextConcat DEF Put, LineState
<1> DEFINE q == IF r.out = "none" THEN [r EXCEPT !.out = "name"] ELSE r
           p == [q EXCEPT !.marked = FALSE]
<1>3. q \in LineState /\ p \in LineState
  BY DEF LineState
<1>4. \A x \in LineState : [x EXCEPT !.marked = TRUE] \in LineState
                           /\ [x EXCEPT !.comment = TRUE] \in LineState
                           /\ [x EXCEPT !.out = "value"] \in LineState
  BY DEF LineState
<1>5. <<c>> \in Text /\ <<" ", " ">> \in Text
  <2>1. " " \in Letter
    BY DEF Letter, Char
  <2> QED
    BY <2>1, Tuples DEF Text
<1> HIDE DEF q, p
<1>6. /\ Put(q, <<c>>) \in LineState /\ Put(p, <<c>>) \in LineState
      /\ Put(p, <<" ", " ">>) \in LineState
  BY <1>2, <1>3, <1>5
<1>7. /\ [Put(q, <<c>>) EXCEPT !.marked = TRUE] \in LineState
      /\ [q EXCEPT !.marked = TRUE] \in LineState
      /\ [q EXCEPT !.comment = TRUE] \in LineState
      /\ [q EXCEPT !.out = "value"] \in LineState
  BY <1>3, <1>4, <1>6
<1>8. ReadChar(r, c) \in LineState
  <2>1. ReadChar(r, c) \in {r, Put(q, <<c>>), Put(p, <<c>>), Put(p, <<" ", " ">>),
                            [Put(q, <<c>>) EXCEPT !.marked = TRUE],
                            [q EXCEPT !.marked = TRUE], [q EXCEPT !.comment = TRUE],
                            [q EXCEPT !.out = "value"]}
    BY DEF ReadChar, p, q
  <2> QED
    BY <1>3, <1>6, <1>7, <2>1
<1> QED
  BY <1>1, <1>8

LEMMA AfterTwo ==
  ASSUME NEW step, NEW start, NEW a, NEW b
  PROVE  After(step, start, <<a, b>>) = step[step[start][a]][b]
<1>1. PICK S : a \in S /\ b \in S
  <2>1. a \in {a, b} /\ b \in {a, b}
    OBVIOUS
  <2> QED
    BY <2>1
<1>2. /\ <<a>> \in Seq(S) /\ <<b>> \in Seq(S)
      /\ <<a>> \o <<b>> = <<a, b>>
  BY <1>1, Tuples
<1>3. PICK s \in Seq(S), t \in Seq(S) : s = <<a>> /\ t = <<b>>
  BY <1>2
<1>4. After(step, start, s \o t) = After(step, After(step, start, s), t)
  BY AfterConcat
<1>5. \A x : After(step, x, s) = step[x][a] /\ After(step, x, t) = step[x][b]
  BY <1>3, AfterOne
<1>6. After(step, start, s \o t) = step[step[start][a]][b]
  BY <1>4, <1>5
<1> QED
  BY <1>2, <1>3, <1>6

\* the mark and the letter that it marks
LEMMA ReadMarked ==
  ASSUME NEW r \in LineState, NEW c \in Letter
  PROVE  After(ReadLetter, r, Marked(c)) =
           IF c \in Special THEN ReadChar(ReadChar(r, "\\"), c) ELSE ReadChar(r, c)
<1>1. "\\" \in Letter
  BY DEF Letter, Char
<1>2. After(ReadLetter, r, <<c>>) = ReadChar(r, c)
  BY AfterOne, ReadType
<1>3. /\ ReadLetter[r]["\\"] = ReadChar(r, "\\")
      /\ ReadLetter[ReadChar(r, "\\")][c] = ReadChar(ReadChar(r, "\\"), c)
  BY <1>1, ReadType
<1>4. \A b : After(ReadLetter, r, <<b, c>>) = ReadLetter[ReadLetter[r][b]][c]
  BY AfterTwo
<1>5. After(ReadLetter, r, <<"\\", c>>) = ReadLetter[ReadLetter[r]["\\"]][c]
  BY <1>4, Zenon
<1> QED
  BY <1>2, <1>3, <1>5 DEF Marked

\* A backslash is put out when the letter behind it is seen: what is put out of
\* the letters p.
Open(p) == p # <<>> /\ p[Len(p)] = "\\"
Kept(p) == IF Open(p) THEN SubSeq(p, 1, Len(p) - 1) ELSE p

LEMMA OneMore ==
  ASSUME NEW p \in Text, NEW c \in Letter
  PROVE  /\ p \o <<c>> \in Text /\ p \o <<c>> # <<>>
         /\ Open(p \o <<c>>) <=> c = "\\"
         /\ Kept(p \o <<c>>) = IF c = "\\" THEN p ELSE p \o <<c>>
<1> DEFINE q == Append(p, c)
<1>1. q = p \o <<c>>
  BY AppendIsConcat DEF Text
<1>2. /\ q \in Text /\ q # <<>> /\ Len(q) = Len(p) + 1 /\ Len(p) \in Nat
      /\ q[Len(p) + 1] = c /\ \A i \in 1..Len(p) : q[i] = p[i]
  BY AppendProperties, LenProperties DEF Text
<1> HIDE DEF q
<1>3. Open(q) <=> c = "\\"
  BY <1>2 DEF Open
<1>4. SubSeq(q, 1, Len(q) - 1) = p
  <2>1. \A i \in 1..(Len(q) - 1) : q[i] \in Letter
    BY <1>2, ElementOfSeq DEF Text
  <2>2. Len(q) - 1 = Len(p)
    BY <1>2
  <2>3. /\ SubSeq(q, 1, Len(p)) \in Text
        /\ Len(SubSeq(q, 1, Len(p))) = Len(p)
        /\ \A i \in 1..Len(p) : SubSeq(q, 1, Len(p))[i] = q[i]
    BY <1>2, <2>1, <2>2, SubSeqProperties DEF Text
  <2> QED
    BY <1>2, <2>2, <2>3, SeqEqual DEF Text
<1> QED
  BY <1>1, <1>2, <1>3, <1>4 DEF Kept

LEMMA KeptText ==
  ASSUME NEW p \in Text
  PROVE  /\ Kept(p) \in Text
         /\ Open(p) => p = Kept(p) \o <<"\\">>
<1>1. CASE p = <<>>
  BY <1>1 DEF Kept, Open
<1>2. CASE p # <<>>
  <2>1. PICK s \in Text, c \in Letter : p = Append(s, c)
    BY <1>2, SequenceEmptyOrAppend DEF Text
  <2>2. p = s \o <<c>>
    BY <2>1, AppendIsConcat DEF Text
  <2>3. (Open(p) <=> c = "\\") /\ Kept(p) = IF c = "\\" THEN s ELSE p
    BY <2>2, OneMore
  <2> QED
    BY <2>2, <2>3
<1> QED
  BY <1>1, <1>2

-----------------------------------------------------------------------------

\* q is the reader r that has put out s
Puts(q, r, s) ==
  /\ q \in LineState /\ q.out = r.out /\ q.comment = r.comment
  /\ r.out = "value" => q.name = r.name /\ q.value = r.value \o s
  /\ r.out = "name" => q.name = r.name \o s /\ q.value = r.value

LEMMA PutFields ==
  ASSUME NEW r \in LineState, NEW s \in Text
  PROVE  Puts(Put(r, s), r, s) /\ Put(r, s).marked = r.marked
<1>1. r.value \o s \in Text /\ r.name \o s \in Text
  BY TextConcat DEF LineState
<1>2. CASE r.out = "value"
  BY <1>1, <1>2 DEF Put, Puts, LineState
<1>3. CASE r.out # "value"
  BY <1>1, <1>3 DEF Put, Puts, LineState
<1> QED
  BY <1>2, <1>3

\* the branches of the reader behind the blanks of a line
LEMMA ReadBranch ==
  ASSUME NEW r \in LineState, NEW c \in Letter, r.out # "none", ~r.comment
  PROVE  /\ (\/ c \in {"=", ":", "#"} /\ r.marked
             \/ c \notin {" ", "=", ":", "#", "\\"}
             \/ c = ":" /\ ~r.marked /\ r.out = "value") =>
              Puts(ReadChar(r, c), r, <<c>>) /\ ~ReadChar(r, c).marked
         /\ c = "\\" =>
              Puts(ReadChar(r, c), r, IF r.marked THEN <<c>> ELSE <<>>) /\ ReadChar(r, c).marked
         /\ c = "=" /\ ~r.marked /\ r.out = "name" =>
              /\ ReadChar(r, c) \in LineState /\ ReadChar(r, c).out = "value"
              /\ ~ReadChar(r, c).marked /\ ~ReadChar(r, c).comment
              /\ ReadChar(r, c).name = r.name /\ ReadChar(r, c).value = r.value
<1>1. r.marked \in BOOLEAN /\ <<c>> \in Text /\ <<>> \in Text
  BY Letters DEF LineState
<1> DEFINE plain == [r EXCEPT !.marked = FALSE]
<1>2. /\ plain \in LineState /\ plain.out = r.out /\ ~plain.marked /\ plain.comment = r.comment
      /\ plain.name = r.name /\ plain.value = r.value
  BY DEF LineState
<1>3. Puts(Put(plain, <<c>>), r, <<c>>) /\ ~Put(plain, <<c>>).marked
  <2> HIDE DEF plain
  <2>1. Puts(Put(plain, <<c>>), plain, <<c>>) /\ Put(plain, <<c>>).marked = plain.marked
    BY <1>1, <1>2, PutFields
  <2> QED
    BY <1>2, <2>1 DEF Puts
<1>4. CASE c \in {"=", ":", "#"} /\ r.marked
  <2>1. ReadChar(r, c) = Put(plain, <<c>>)
    BY <1>4 DEF ReadChar
  <2> HIDE DEF plain
  <2> QED
    BY <1>3, <1>4, <2>1
<1>5. CASE c \notin {" ", "=", ":", "#", "\\"}
  <2>1. ReadChar(r, c) = Put(plain, <<c>>)
    BY <1>5 DEF ReadChar
  <2> HIDE DEF plain
  <2> QED
    BY <1>3, <1>5, <2>1
<1> HIDE DEF plain
<1>6. CASE c = ":" /\ ~r.marked /\ r.out = "value"
  <2>1. ReadChar(r, c) = Put(r, <<c>>)
    BY <1>6 DEF ReadChar
  <2> QED
    BY <1>1, <1>6, <2>1, PutFields
<1>7. CASE c = "\\" /\ r.marked
  <2> DEFINE q == Put(r, <<c>>)
  <2>1. ReadChar(r, c) = [q EXCEPT !.marked = TRUE]
    BY <1>7 DEF ReadChar
  <2>2. Puts(q, r, <<c>>)
    BY <1>1, PutFields
  <2> HIDE DEF q
  <2>3. Puts([q EXCEPT !.marked = TRUE], r, <<c>>) /\ [q EXCEPT !.marked = TRUE].marked
    BY <2>2 DEF Puts, LineState
  <2> QED
    BY <1>7, <2>1, <2>3
<1>8. CASE c = "\\" /\ ~r.marked
  <2>1. ReadChar(r, c) = [r EXCEPT !.marked = TRUE]
    BY <1>8 DEF ReadChar
  <2>2. r.name \o <<>> = r.name /\ r.value \o <<>> = r.value
    BY ConcatEmptySeq DEF LineState, Text
  <2>3. Puts([r EXCEPT !.marked = TRUE], r, <<>>) /\ [r EXCEPT !.marked = TRUE].marked
    BY <2>2 DEF Puts, LineState
  <2> QED
    BY <1>8, <2>1, <2>3
<1>9. CASE c = "=" /\ ~r.marked /\ r.out = "name"
  <2>1. ReadChar(r, c) = [r EXCEPT !.out = "value"]
    BY <1>9 DEF ReadChar
  <2>2. /\ [r EXCEPT !.out = "value"] \in LineState
        /\ [r EXCEPT !.out = "value"].out = "value"
        /\ [r EXCEPT !.out = "value"].marked = r.marked
        /\ [r EXCEPT !.out = "value"].comment = r.comment
        /\ [r EXCEPT !.out = "value"].name = r.name
        /\ [r EXCEPT !.out = "value"].value = r.value
    BY DEF LineState
  <2> QED
    BY <1>9, <2>1, <2>2
<1> QED
  BY <1>4, <1>5, <1>6, <1>7, <1>8, <1>9

\* r has read the letters p of the part of a line that out names
InPart(r, out, p) ==
  /\ r \in LineState /\ r.out = out /\ r.marked = Open(p) /\ ~r.comment
  /\ (IF out = "value" THEN r.value ELSE r.name) = Kept(p)

\* The next letter: a backslash must be followed by one that the writer marks
\* or by another backslash.
LEMMA NextLetter ==
  ASSUME NEW r, NEW out \in {"name", "value"}, NEW p \in Text, InPart(r, out, p),
         NEW c \in Letter, c # " ", c = ":" => out = "value",
         Open(p) => c \in Special \cup {"\\"}
  PROVE  LET q == After(ReadLetter, r, Marked(c))
         IN  /\ InPart(q, out, p \o <<c>>)
             /\ IF out = "value" THEN q.name = r.name ELSE q.value = r.value
<1> DEFINE q == After(ReadLetter, r, Marked(c))
           w(x) == IF out = "value" THEN x.value ELSE x.name
           o(x) == IF out = "value" THEN x.name ELSE x.value
           b == ReadChar(r, "\\")
<1>1. /\ r \in LineState /\ r.out = out /\ r.marked = Open(p) /\ ~r.comment /\ w(r) = Kept(p)
      /\ "\\" \in Letter
  BY DEF InPart, Letter, Char
<1>2. q = IF c \in Special THEN ReadChar(b, c) ELSE ReadChar(r, c)
  BY <1>1, ReadMarked
<1>3. ASSUME NEW x, NEW y, NEW s, Puts(x, y, s), y.out = out, ~y.comment
      PROVE  /\ x \in LineState /\ x.out = out /\ ~x.comment
             /\ w(x) = w(y) \o s /\ o(x) = o(y)
  BY <1>3 DEF Puts
<1>4. IF r.marked THEN w(r) \o <<"\\">> = p ELSE w(r) = p /\ w(r) \o <<>> = p
  <2>1. p \o <<>> = p
    BY ConcatEmptySeq DEF Text
  <2> QED
    BY <1>1, <2>1, KeptText DEF Kept
<1>5. /\ b \in LineState /\ b.out = out /\ ~b.comment /\ b.marked /\ w(b) = p /\ o(b) = o(r)
  <2>1. Puts(b, r, IF r.marked THEN <<"\\">> ELSE <<>>) /\ b.marked
    BY <1>1, ReadBranch
  <2> HIDE DEF w, o, b
  <2> QED
    BY <1>1, <1>3, <1>4, <2>1
<1>6. /\ Open(p \o <<c>>) <=> c = "\\"
      /\ Kept(p \o <<c>>) = IF c = "\\" THEN p ELSE p \o <<c>>
  BY OneMore
<1> HIDE DEF q, w, o, b
<1>7. /\ q \in LineState /\ q.out = out /\ ~q.comment /\ (q.marked <=> c = "\\")
      /\ w(q) = IF c = "\\" THEN p ELSE p \o <<c>>
      /\ o(q) = o(r)
  <2>1. CASE c \in Special
    <3>1. c \in {"=", ":", "#"} /\ c # "\\"
      BY <2>1 DEF Special
    <3>2. Puts(q, b, <<c>>) /\ ~q.marked
      BY <1>2, <1>5, <2>1, <3>1, ReadBranch
    <3> QED
      BY <1>3, <1>5, <3>1, <3>2
  <2>2. CASE c = "\\"
    <3>1. q = b
      BY <1>2, <2>2 DEF Special, b
    <3> QED
      BY <1>5, <2>2, <3>1
  <2>3. CASE c \notin Special /\ c # "\\"
    <3>1. q = ReadChar(r, c) /\ ~r.marked /\ c \notin {"=", "#", "\\"}
      BY <1>1, <1>2, <2>3 DEF Special
    <3>2. Puts(q, r, <<c>>) /\ ~q.marked
      BY <1>1, <3>1, ReadBranch
    <3> QED
      BY <1>1, <1>3, <1>4, <2>3, <3>1, <3>2
  <2> QED
    BY <2>1, <2>2, <2>3
<1>8. q.marked = Open(p \o <<c>>)
  BY <1>6, <1>7 DEF LineState, Open
<1> QED
  BY <1>6, <1>7, <1>8 DEF InPart, w, o, q

\* the blanks of a line are over at the first letter of its name
LEMMA FirstLetter ==
  ASSUME NEW c \in Letter, c # " "
  PROVE  \E r : /\ InPart(r, "name", <<>>) /\ r.value = <<>>
                /\ After(ReadLetter, NewLine, Marked(c)) = After(ReadLetter, r, Marked(c))
<1> DEFINE r == [NewLine EXCEPT !.out = "name"]
<1>1. /\ NewLine \in LineState /\ NewLine.out = "none" /\ ~NewLine.marked /\ ~NewLine.comment
      /\ NewLine.name = <<>> /\ NewLine.value = <<>>
  BY Letters DEF NewLine, LineState
<1>2. /\ r \in LineState /\ r.out = "name" /\ r.marked = FALSE /\ ~r.comment
      /\ r.name = <<>> /\ r.value = <<>>
  BY <1>1 DEF LineState
<1>3. ASSUME NEW d \in Letter, d # " " PROVE ReadChar(NewLine, d) = ReadChar(r, d)
  <2> HIDE DEF NewLine
  <2> QED
    BY <1>1, <1>2, <1>3 DEF ReadChar
<1> HIDE DEF r
<1>4. "\\" \in Letter
  BY DEF Letter, Char
<1>5. After(ReadLetter, NewLine, Marked(c)) = After(ReadLetter, r, Marked(c))
  BY <1>1, <1>2, <1>3, <1>4, ReadMarked
<1>6. InPart(r, "name", <<>>)
  <2>1. Open(<<>>) = FALSE /\ Kept(<<>>) = <<>>
    BY DEF Open, Kept
  <2> QED
    BY <1>2, <2>1 DEF InPart
<1> QED
  BY <1>2, <1>5, <1>6

LEMMA PrefixLetter ==
  ASSUME NEW s \in Text, NEW n \in 0..Len(s)
  PROVE  /\ SubSeq(s, 1, n) \in Text
         /\ Open(SubSeq(s, 1, n)) <=> n > 0 /\ s[n] = "\\"
         /\ n < Len(s) => SubSeq(s, 1, n + 1) = SubSeq(s, 1, n) \o <<s[n + 1]>>
<1>1. Len(s) \in Nat /\ \A i \in 1..Len(s) : s[i] \in Letter
  BY LenProperties, ElementOfSeq DEF Text
<1>2. /\ SubSeq(s, 1, n) \in Text /\ Len(SubSeq(s, 1, n)) = n
      /\ \A i \in 1..n : SubSeq(s, 1, n)[i] = s[i]
  BY <1>1, SubSeqProperties DEF Text
<1>3. SubSeq(s, 1, n) = <<>> <=> n = 0
  BY <1>2, EmptySeq DEF Text
<1>4. Open(SubSeq(s, 1, n)) <=> n > 0 /\ s[n] = "\\"
  <2>1. n > 0 => n \in 1..n
    BY <1>1
  <2> QED
    BY <1>1, <1>2, <1>3, <2>1 DEF Open
<1>5. n < Len(s) => SubSeq(s, 1, n + 1) = SubSeq(s, 1, n) \o <<s[n + 1]>>
  <2>1. n < Len(s) => 1 \in 1..Len(s) /\ n + 1 \in 1..Len(s) /\ (n + 1) - 1 = n
    BY <1>1
  <2> QED
    BY <2>1, SubSeqRecursiveSecond DEF Text
<1> QED
  BY <1>2, <1>4, <1>5

\* what the writer can write as the part of a line that out names
Readable(s, out) ==
  Closed(s) /\ \A i \in 1..Len(s) : s[i] # " " /\ (s[i] = ":" => out = "value")

Whole(r, out) == IF out = "value" THEN r.value ELSE r.name
Other(r, out) == IF out = "value" THEN r.name ELSE r.value

LEMMA ClosedEnd ==
  ASSUME NEW s \in Text, Closed(s)
  PROVE  ~Open(s)
<1>1. SUFFICES ASSUME s # <<>>, s[Len(s)] = "\\" PROVE FALSE
  BY DEF Open
<1>2. Len(s) \in Nat \ {0} /\ Len(s) \in DOMAIN s
  BY <1>1, LenProperties, EmptySeq DEF Text
<1>3. Len(s) < Len(s)
  BY <1>1, <1>2 DEF Closed
<1> QED
  BY <1>2, <1>3

NoBlank(s) == \A i \in 1..Len(s) : s[i] # " "

\* a line as the writer writes it, without the end
LineOf(n, v) == Mark(n) \o <<"=">> \o Mark(v)

LEMMA LineOfText ==
  ASSUME NEW n \in Text, NEW v \in Text
  PROVE  /\ LineOf(n, v) \in Text /\ LineOf(n, v) # <<>>
         /\ Mark(n) \o <<"=">> \in Text /\ Mark(n) \in Text /\ Mark(v) \in Text
<1>1. "=" \in Letter
  BY DEF Letter, Char, Special
<1>2. Mark(n) \in Text /\ Mark(v) \in Text
  BY MarkText
<1>3. Mark(n) \o <<"=">> \in Text /\ Mark(n) \o <<"=">> # <<>>
  BY <1>1, <1>2, OneMore
<1> QED
  BY <1>2, <1>3, TextConcat, ConcatEqualIffEmpty DEF LineOf, Text

LEMMA AfterText ==
  ASSUME NEW step, NEW start, NEW s \in Text, NEW t \in Text
  PROVE  After(step, start, s \o t) = After(step, After(step, start, s), t)
BY AfterConcat DEF Text

LEMMA TextAssociative ==
  ASSUME NEW s \in Text, NEW t \in Text, NEW u \in Text
  PROVE  (s \o t) \o u = s \o (t \o u)
BY ConcatAssociative DEF Text

LEMMA AppendText ==
  ASSUME NEW s \in Text, NEW c \in Letter
  PROVE  Append(s, c) = s \o <<c>>
BY AppendIsConcat DEF Text

LEMMA AppendTwo ==
  ASSUME NEW S, NEW a \in S, NEW b \in S
  PROVE  Append(Append(<<>>, a), b) = <<a, b>>
<1>1. <<a>> \in Seq(S) /\ <<>> \in Seq(S)
  BY Tuples, EmptySeq
<1>2. Append(<<>>, a) = <<>> \o <<a>>
  BY <1>1, AppendIsConcat
<1>3. <<>> \o <<a>> = <<a>>
  BY <1>1, ConcatEmptySeq
<1>4. Append(<<a>>, b) = <<a>> \o <<b>>
  BY <1>1, AppendIsConcat
<1>5. <<a>> \o <<b>> = <<a, b>>
  BY Tuples
<1> QED
  BY <1>2, <1>3, <1>4, <1>5, Zenon

OneLine(s) == \A i \in 1..Len(s) : s[i] # "\n"

\* the letters of a line gather
LEMMA SplitGather ==
  ASSUME NEW r \in SplitState, NEW s \in Text, OneLine(s)
  PROVE  LET q == After(SplitLetter, r, s)
         IN  q \in SplitState /\ q.line = r.line \o s /\ q.all = r.all
<1>1. PICK f : Path(SplitLetter, r, s, f) /\ After(SplitLetter, r, s) = f[Len(s)]
  BY AfterPath DEF Text
<1>2. Len(s) \in Nat /\ \A i \in 1..Len(s) : s[i] \in Letter
  BY LenProperties, ElementOfSeq DEF Text
<1>3. r.line \in Text /\ r.all \in Seq(Text)
  BY DEF SplitState
<1> DEFINE P(q, n) == q \in SplitState /\ q.line = r.line \o SubSeq(s, 1, n) /\ q.all = r.all
           T == {n \in 0..Len(s) : P(f[n], n)}
<1>4. 0 \in T
  <2>1. SubSeq(s, 1, 0) = <<>> /\ r.line \o <<>> = r.line
    BY <1>3, SubSeqEmpty, ConcatEmptySeq DEF Text
  <2>2. P(f[0], 0)
    BY <1>1, <2>1 DEF Path
  <2> QED
    BY <1>2, <2>2
<1>5. ASSUME NEW n \in 0..Len(s), n \in T, n < Len(s) PROVE n + 1 \in T
  <2>1. n + 1 \in 1..Len(s) /\ (n + 1) - 1 = n /\ n + 1 \in 0..Len(s)
    BY <1>2, <1>5
  <2> DEFINE c == s[n + 1]
             q == f[n]
  <2>2. c \in Letter /\ c # "\n"
    BY <1>2, <2>1 DEF OneLine
  <2>3. f[n + 1] = SplitLetter[q][c]
    BY <1>1, <2>1 DEF Path
  <2>4. P(q, n)
    BY <1>5
  <2>5. SubSeq(s, 1, n) \in Text /\ SubSeq(s, 1, n + 1) = SubSeq(s, 1, n) \o <<c>>
    BY <1>5, PrefixLetter
  <2>6. q.line \in Text /\ q.line \o <<c>> \in Text /\ Append(q.line, c) = q.line \o <<c>>
    <3>1. q.line \in Text
      BY <2>4 DEF SplitState
    <3> HIDE DEF q, c, P
    <3> QED
      BY <2>2, <3>1, OneMore, AppendText
  <2>7. q.line \o <<c>> = r.line \o SubSeq(s, 1, n + 1)
    <3>1. <<c>> \in Text
      BY <2>2, Letters
    <3>2. q.line = r.line \o SubSeq(s, 1, n)
      BY <2>4
    <3> HIDE DEF c, q, P, T
    <3>3. (r.line \o SubSeq(s, 1, n)) \o <<c>> = r.line \o (SubSeq(s, 1, n) \o <<c>>)
      BY <1>3, <2>5, <3>1, TextAssociative
    <3> QED
      BY <2>5, <3>2, <3>3
  <2>8. f[n + 1] = [q EXCEPT !.line = Append(@, c)]
    BY <2>2, <2>3, <2>4 DEF SplitLetter
  <2> HIDE DEF q, c
  <2>9. P(f[n + 1], n + 1)
    BY <2>4, <2>6, <2>7, <2>8 DEF SplitState
  <2> QED
    BY <2>1, <2>9
<1>6. Passes(T, Len(s))
  BY <1>4, <1>5 DEF Passes
<1>7. Len(s) \in T
  <2> HIDE DEF T
  <2> QED
    BY <1>2, <1>6, Upto
<1>8. SubSeq(s, 1, Len(s)) = s
  BY SubSeqFull DEF Text
<1> QED
  BY <1>1, <1>7, <1>8

LEMMA SplitEnd ==
  ASSUME NEW r \in SplitState, r.line = <<>>, NEW s \in Text, OneLine(s), s # <<>>
  PROVE  LET q == After(SplitLetter, r, s \o <<"\n">>)
         IN  q \in SplitState /\ q.line = <<>> /\ q.all = Append(r.all, s)
<1> DEFINE a == After(SplitLetter, r, s)
<1>1. a \in SplitState /\ a.line = s /\ a.all = r.all
  <2>1. <<>> \o s = s
    BY ConcatEmptySeq DEF Text
  <2> QED
    BY <2>1, SplitGather
<1>2. "\n" \in Letter
  BY DEF Letter, Char
<1>3. After(SplitLetter, r, s \o <<"\n">>) = SplitLetter[a]["\n"]
  <2>1. <<"\n">> \in Text
    BY <1>2, Letters
  <2>2. After(SplitLetter, r, s \o <<"\n">>) = After(SplitLetter, a, <<"\n">>)
    BY <2>1, AfterText
  <2> QED
    BY <2>2, AfterOne
<1> HIDE DEF a
<1>4. SplitLetter[a]["\n"] = EndLine(a)
  BY <1>1, <1>2 DEF SplitLetter
<1>5. EndLine(a) = [line |-> <<>>, all |-> Append(r.all, s)]
  BY <1>1 DEF EndLine
<1>6. Append(r.all, s) \in Seq(Text) /\ <<>> \in Text
  BY AppendProperties, Letters DEF SplitState
<1>7. EndLine(a) \in SplitState /\ EndLine(a).line = <<>> /\ EndLine(a).all = Append(r.all, s)
  BY <1>5, <1>6 DEF SplitState
<1> QED
  BY <1>3, <1>4, <1>7

\* Two lines are read as two lines.
LEMMA TwoLines ==
  ASSUME NEW s \in Text, OneLine(s), s # <<>>, NEW t \in Text, OneLine(t), t # <<>>
  PROVE  Lines((s \o <<"\n">>) \o (t \o <<"\n">>)) = <<s, t>>
<1> DEFINE r == [line |-> <<>>, all |-> <<>>]
           a == After(SplitLetter, r, s \o <<"\n">>)
           b == After(SplitLetter, a, t \o <<"\n">>)
<1>1. r \in SplitState /\ r.line = <<>> /\ r.all = <<>>
  <2>1. <<>> \in Text /\ <<>> \in Seq(Text)
    BY Letters, EmptySeq
  <2> QED
    BY <2>1 DEF SplitState
<1>2. Lines((s \o <<"\n">>) \o (t \o <<"\n">>)) =
        EndLine(After(SplitLetter, r, (s \o <<"\n">>) \o (t \o <<"\n">>))).all
  BY DEF Lines
<1> HIDE DEF r
<1>3. a \in SplitState /\ a.line = <<>> /\ a.all = Append(<<>>, s)
  BY <1>1, SplitEnd
<1> HIDE DEF a
<1>4. b \in SplitState /\ b.line = <<>> /\ b.all = Append(Append(<<>>, s), t)
  BY <1>3, SplitEnd
<1>5. After(SplitLetter, r, (s \o <<"\n">>) \o (t \o <<"\n">>)) = b
  <2>1. "\n" \in Letter
    BY DEF Letter, Char
  <2>2. s \o <<"\n">> \in Text /\ t \o <<"\n">> \in Text
    BY <2>1, OneMore
  <2> QED
    BY <2>2, AfterText DEF a
<1> HIDE DEF b
<1>6. EndLine(b) = b
  BY <1>4 DEF EndLine
<1>7. Append(Append(<<>>, s), t) = <<s, t>>
  BY AppendTwo
<1> QED
  BY <1>2, <1>4, <1>5, <1>6, <1>7

\* the form gives the text back as it was set
LEMMA FormWhole ==
  ASSUME NEW s \in Seq(Letter \ {";", "+", "%"}), NEW escaped
  PROVE  FormValues(s, escaped) = {s}
<1> DEFINE cut == IF Contains(s, ";") THEN Front(BeforeFirst(";", s)) ELSE s
           Escapes == {i \in DOMAIN cut : cut[i] = "%"}
           Read(d) == [i \in DOMAIN cut |-> IF i \in Escapes THEN d[i]
                                            ELSE IF cut[i] = "+" THEN " " ELSE cut[i]]
<1>1. /\ Len(s) \in Nat /\ DOMAIN s = 1..Len(s) /\ s = [i \in 1..Len(s) |-> s[i]]
      /\ \A i \in 1..Len(s) : s[i] # ";" /\ s[i] # "+" /\ s[i] # "%"
  <2>1. \A i \in 1..Len(s) : s[i] \in Letter \ {";", "+", "%"}
    BY ElementOfSeq
  <2> QED
    BY <2>1, LenProperties
<1>2. cut = s
  BY <1>1 DEF Contains
<1>3. FormValues(s, escaped) =
        {Read(d) : d \in [Escapes -> escaped]} \cup IF Escapes = {} THEN {} ELSE {<<>>}
  BY DEF FormValues
<1> HIDE DEF cut
<1>4. \A i \in DOMAIN cut : cut[i] # "%" /\ cut[i] # "+"
  BY <1>1, <1>2
<1>5. Escapes = {}
  BY <1>4
<1>6. ASSUME NEW d PROVE Read(d) = s
  <2>1. \A i \in DOMAIN cut : (IF i \in Escapes THEN d[i]
                               ELSE IF cut[i] = "+" THEN " " ELSE cut[i]) = cut[i]
    BY <1>4
  <2>2. Read(d) = [i \in DOMAIN cut |-> cut[i]]
    BY <2>1, Zenon
  <2>3. cut = [i \in DOMAIN cut |-> cut[i]]
    BY <1>1, <1>2
  <2> QED
    BY <1>2, <2>2, <2>3, Zenon
<1> HIDE DEF Escapes, Read
<1>7. FormValues(s, escaped) = {Read(d) : d \in [{} -> escaped]}
  BY <1>3, <1>5
<1>8. [i \in {} |-> i] \in [{} -> escaped]
  OBVIOUS
<1>9. \A t : t \in FormValues(s, escaped) <=> \E d \in [{} -> escaped] : t = Read(d)
  BY <1>7
<1>10. \A t : t \in FormValues(s, escaped) <=> t = s
  BY <1>6, <1>8, <1>9, Zenon
<1> QED
  BY <1>10

\* letters that neither the form nor the lines take for something else
Plain == Letter \ {";", "+", "%", "\n"}

LEMMA Single ==
  ASSUME NEW c
  PROVE  DOMAIN <<c>> = 1..Len(<<c>>) /\ \A i \in 1..Len(<<c>>) : <<c>>[i] = c
<1> DEFINE s == <<c>>
<1>1. s \in Seq({c}) /\ Len(s) = 1 /\ s[1] = c
  BY Tuples
<1>2. DOMAIN s = 1..Len(s)
  BY <1>1, LenProperties
<1> HIDE DEF s
<1>3. \A i \in 1..Len(s) : s[i] = c
  BY <1>1
<1> QED
  BY <1>2, <1>3 DEF s

LEMMA SingleReadable ==
  ASSUME NEW c, c # "\\", c # " ", c # ":", NEW out
  PROVE  Readable(<<c>>, out)
<1>1. Closed(<<c>>)
  BY Single DEF Closed
<1> QED
  BY <1>1, Single DEF Readable

LEMMA WithoutParts ==
  ASSUME NEW S, NEW s \in Seq(S), NEW t \in Seq(S), NEW c, ~Contains(s \o t, c)
  PROVE  (\A i \in 1..Len(s) : s[i] # c) /\ (\A i \in 1..Len(t) : t[i] # c)
<1>1. /\ Len(s) \in Nat /\ Len(t) \in Nat /\ Len(s \o t) = Len(s) + Len(t)
      /\ \A i \in 1..Len(s) + Len(t) : (s \o t)[i] = IF i <= Len(s) THEN s[i] ELSE t[i - Len(s)]
  BY LenProperties, ConcatProperties
<1>2. \A i \in 1..Len(s) + Len(t) : (s \o t)[i] # c
  BY <1>1 DEF Contains
<1>3. ASSUME NEW i \in 1..Len(s) PROVE s[i] # c
  <2>1. i \in 1..Len(s) + Len(t) /\ i <= Len(s)
    BY <1>1
  <2> QED
    BY <1>1, <1>2, <2>1
<1>4. ASSUME NEW i \in 1..Len(t) PROVE t[i] # c
  <2>1. /\ Len(s) + i \in 1..Len(s) + Len(t) /\ ~(Len(s) + i <= Len(s))
        /\ (Len(s) + i) - Len(s) = i
    BY <1>1
  <2>2. (s \o t)[Len(s) + i] = t[i]
    BY <1>1, <2>1
  <2> QED
    BY <1>2, <2>1, <2>2
<1> QED
  BY <1>3, <1>4

LEMMA SeqWithin ==
  ASSUME NEW S, NEW s \in Seq(S), NEW T, \A i \in 1..Len(s) : s[i] \in T
  PROVE  s \in Seq(T)
<1>1. Len(s) \in Nat /\ s \in [1..Len(s) -> S]
  BY LenProperties
<1>2. s \in [1..Len(s) -> T]
  BY <1>1
<1> QED
  BY <1>1, <1>2, SeqDef

-----------------------------------------------------------------------------
(* Weights.  Whatever the letters, the reader never gains one that is not  *)
(* a blank, so what arrives unchanged has lost none on the way.            *)

\* The letters of a text that are not blank: what the reader can lose, but not
\* gain.
Weight(c) == IF c = " " THEN 0 ELSE 1
CountLetter == [k \in Nat |-> [c \in Letter |-> k + Weight(c)]]
Solids(s) == After(CountLetter, 0, s)

LEMMA CountIs ==
  ASSUME NEW k \in Nat, NEW c \in Letter
  PROVE  CountLetter[k][c] = k + Weight(c) /\ Weight(c) \in {0, 1} /\ k + Weight(c) \in Nat
<1>1. Weight(c) \in {0, 1}
  BY DEF Weight
<1>2. CountLetter[k][c] = k + Weight(c)
  BY DEF CountLetter
<1> QED
  BY <1>1, <1>2

LEMMA SolidsFrom ==
  ASSUME NEW k \in Nat, NEW s \in Text
  PROVE  After(CountLetter, k, s) = k + Solids(s) /\ Solids(s) \in Nat
<1>1. PICK f : Path(CountLetter, 0, s, f) /\ Solids(s) = f[Len(s)]
  BY AfterPath DEF Text, Solids
<1>2. Len(s) \in Nat /\ \A i \in 1..Len(s) : s[i] \in Letter
  BY LenProperties, ElementOfSeq DEF Text
<1> DEFINE T == {n \in 0..Len(s) : f[n] \in Nat}
<1>3. 0 \in T
  BY <1>1, <1>2 DEF Path
<1> DEFINE g == [i \in 0..Len(s) |-> k + f[i]]
<1>4. ASSUME NEW n \in 0..Len(s), f[n] \in Nat, n < Len(s)
      PROVE  /\ n + 1 \in 1..Len(s) /\ n + 1 \in 0..Len(s) /\ f[n + 1] \in Nat
             /\ f[n + 1] = f[n] + Weight(s[n + 1])
             /\ g[n + 1] = CountLetter[g[n]][s[n + 1]]
  <2>1. n + 1 \in 1..Len(s) /\ n + 1 \in 0..Len(s) /\ (n + 1) - 1 = n
    BY <1>2, <1>4
  <2>2. f[n + 1] = CountLetter[f[n]][s[n + 1]] /\ s[n + 1] \in Letter
    BY <1>1, <1>2, <2>1 DEF Path
  <2>3. /\ f[n + 1] = f[n] + Weight(s[n + 1]) /\ f[n + 1] \in Nat
        /\ Weight(s[n + 1]) \in {0, 1}
    <3>1. /\ CountLetter[f[n]][s[n + 1]] = f[n] + Weight(s[n + 1])
          /\ Weight(s[n + 1]) \in {0, 1} /\ f[n] + Weight(s[n + 1]) \in Nat
      BY <1>4, <2>2, CountIs, Zenon
    <3> QED
      BY <2>2, <3>1, Zenon
  <2>4. g[n + 1] = k + f[n + 1] /\ g[n] = k + f[n] /\ g[n] \in Nat
    BY <1>4, <2>1
  <2> HIDE DEF g, T
  <2>5. CountLetter[g[n]][s[n + 1]] = g[n] + Weight(s[n + 1])
    BY <2>2, <2>4, CountIs, Zenon
  <2> QED
    BY <1>4, <2>1, <2>3, <2>4, <2>5
<1>5. Passes(T, Len(s))
  BY <1>3, <1>4 DEF Passes
<1>6. \A n \in 0..Len(s) : f[n] \in Nat
  <2> SUFFICES ASSUME NEW n \in 0..Len(s) PROVE n \in T
    OBVIOUS
  <2>1. Passes(T, n)
    <3> HIDE DEF T
    <3> QED
      BY <1>2, <1>5 DEF Passes
  <2> HIDE DEF T
  <2> QED
    BY <2>1, Upto
<1>7. Path(CountLetter, k, s, g)
  <2>1. g[0] = k
    BY <1>1, <1>2 DEF Path
  <2>2. ASSUME NEW i \in 1..Len(s) PROVE g[i] = CountLetter[g[i - 1]][s[i]]
    <3>1. i - 1 \in 0..Len(s) /\ i - 1 < Len(s) /\ (i - 1) + 1 = i
      BY <1>2
    <3> HIDE DEF g, T
    <3> QED
      BY <1>4, <1>6, <3>1
  <2> HIDE DEF g
  <2> QED
    BY <2>1, <2>2 DEF Path
<1>8. g[Len(s)] = k + f[Len(s)] /\ f[Len(s)] \in Nat
  BY <1>2, <1>6
<1> HIDE DEF g
<1> QED
  BY <1>1, <1>7, <1>8, AfterIs DEF Text

LEMMA SolidsConcat ==
  ASSUME NEW s \in Text, NEW t \in Text
  PROVE  /\ Solids(s \o t) = Solids(s) + Solids(t)
         /\ Solids(s) \in Nat /\ Solids(t) \in Nat
<1>1. Solids(s \o t) = After(CountLetter, Solids(s), t)
  BY AfterText DEF Solids
<1> QED
  BY <1>1, SolidsFrom

LEMMA SolidsOne ==
  /\ Solids(<<>>) = 0
  /\ \A c \in Letter : Solids(<<c>>) = Weight(c) /\ Weight(c) \in {0, 1}
  /\ Solids(<<" ", " ">>) = 0
  /\ \A c \in Letter : c # " " => Weight(c) = 1
<1>1. Solids(<<>>) = 0
  BY AfterEmpty DEF Solids
<1>2. ASSUME NEW c \in Letter PROVE Solids(<<c>>) = Weight(c) /\ Weight(c) \in {0, 1}
  <2>1. Solids(<<c>>) = CountLetter[0][c]
    BY AfterOne DEF Solids
  <2>2. Weight(c) \in {0, 1}
    BY DEF Weight
  <2> QED
    BY <2>1, <2>2, CountIs
<1>3. Solids(<<" ", " ">>) = 0
  <2>1. " " \in Letter
    BY DEF Letter, Char
  <2>2. Weight(" ") = 0
    BY DEF Weight
  <2>3. PICK b \in Letter : b = " "
    BY <2>1
  <2>4. <<b>> \o <<b>> = <<b, b>> /\ <<b>> \in Text
    BY Tuples DEF Text
  <2>5. Solids(<<b>> \o <<b>>) = Solids(<<b>>) + Solids(<<b>>)
    BY <2>4, SolidsConcat
  <2>6. Solids(<<b>>) = 0
    BY <1>2, <2>2, <2>3
  <2>7. Solids(<<b, b>>) = 0
    <3>1. Solids(<<b, b>>) = Solids(<<b>>) + Solids(<<b>>)
      BY <2>4, <2>5, Zenon
    <3>2. 0 + 0 = 0
      OBVIOUS
    <3> QED
      BY <2>6, <3>1, <3>2, Zenon
  <2> QED
    BY <2>3, <2>7
<1>4. \A c \in Letter : c # " " => Weight(c) = 1
  BY DEF Weight
<1> QED
  BY <1>1, <1>2, <1>3, <1>4

\* neither end is a blank
Solid(s) == s # <<>> => s[1] # " " /\ s[Len(s)] # " "

LEMMA Mirror ==
  ASSUME NEW N \in Nat, NEW i \in 1..N
  PROVE  i \in Nat /\ N - i \in Nat /\ N - (N - i) = i
OBVIOUS

LEMMA Between ==
  ASSUME NEW N \in Nat, NEW i \in 1..N, NEW j \in 1..N, i <= j
  PROVE  /\ 1 \in 1..(N + 1) /\ i - 1 \in (1 - 1)..N /\ j \in (i - 1)..N
         /\ j \in (1 - 1)..N /\ N \in j..N /\ (i - 1) + 1 = i
         /\ 1 \in 1..(j - i + 1) /\ j - i + 1 \in 1..(j - i + 1) /\ i + 1 - 1 = i
         /\ i + (j - i + 1) - 1 = j
         /\ i \in 1..(N + 1) /\ j + 1 \in 1..(N + 1) /\ (j + 1) - 1 = j
         /\ N + 1 \in 1..(N + 1) /\ (N + 1) - 1 = N
OBVIOUS

LEMMA TrimIs ==
  ASSUME NEW s \in Text
  PROVE  \/ Trim(s) = <<>> /\ \A k \in 1..Len(s) : s[k] = " "
         \/ \E i, j \in 1..Len(s) : /\ Trim(s) = SubSeq(s, i, j) /\ i <= j
                                    /\ s[i] # " " /\ s[j] # " "
                                    /\ \A k \in 1..Len(s) : s[k] # " " => i <= k /\ k <= j
<1>1. Len(s) \in Nat /\ DOMAIN s = 1..Len(s)
  BY LenProperties DEF Text
<1> DEFINE S == {i \in DOMAIN s : s[i] # " "}
           first == CHOOSE i \in S : \A j \in S : i <= j
           last == CHOOSE i \in S : \A j \in S : i >= j
<1>2. Trim(s) = IF S = {} THEN <<>> ELSE SubSeq(s, first, last)
  BY DEF Trim
<1>3. \A i \in S : i \in 1..Len(s) /\ s[i] # " "
  BY <1>1
<1>12. \A k \in 1..Len(s) : s[k] # " " => k \in S
  BY <1>1
<1>4. SUFFICES ASSUME S # {}
               PROVE  first \in S /\ last \in S /\ \A k \in S : first <= k /\ k <= last
  <2> HIDE DEF S
  <2>1. S = {} => \A k \in 1..Len(s) : s[k] = " "
    BY <1>12
  <2> QED
    BY <1>2, <1>3, <1>12, <2>1
<1>5. S \in SUBSET Nat
  <2> HIDE DEF S
  <2> QED
    BY <1>1, <1>3, Mirror
<1> DEFINE D == {d \in Nat : Len(s) - d \in S}
<1>6. D \in SUBSET Nat /\ D # {}
  <2>1. PICK i \in S : TRUE
    BY <1>4
  <2>2. i \in 1..Len(s)
    BY <1>3
  <2>3. Len(s) - i \in Nat /\ Len(s) - (Len(s) - i) = i
    BY <1>1, <2>2, Mirror
  <2> HIDE DEF S
  <2> QED
    BY <2>1, <2>3
<1> HIDE DEF S
<1>7. \E i \in S : \A j \in S : i <= j
  BY <1>4, <1>5, NatLeast
<1>8. first \in S /\ \A j \in S : first <= j
  BY <1>7
<1>9. PICK d \in D : \A e \in D : d <= e
  <2> HIDE DEF D
  <2> QED
    BY <1>6, NatLeast
<1>10. Len(s) - d \in S /\ \A j \in S : Len(s) - d >= j
  <2>1. ASSUME NEW j \in S PROVE Len(s) - d >= j
    <3>1. j \in Nat /\ Len(s) - j \in Nat /\ Len(s) - (Len(s) - j) = j
      BY <1>1, <1>3, Mirror
    <3>2. d <= Len(s) - j /\ d \in Nat
      BY <1>9, <3>1 DEF D
    <3> QED
      BY <1>1, <3>1, <3>2
  <2> QED
    BY <2>1
<1>11. last \in S /\ \A j \in S : last >= j
  BY <1>10
<1>13. \A j \in S : j <= last
  BY <1>5, <1>11
<1> QED
  BY <1>8, <1>11, <1>13

LEMMA TrimEnds ==
  ASSUME NEW s \in Text
  PROVE  /\ Trim(s) \in Text /\ Solid(Trim(s))
         /\ Solids(Trim(s)) <= Solids(s) /\ Solids(s) \in Nat
<1>1. Len(s) \in Nat /\ Solids(s) \in Nat
  BY LenProperties, SolidsFrom DEF Text
<1>2. CASE Trim(s) = <<>>
  <2>1. Trim(s) \in Text /\ Solid(Trim(s))
    BY <1>2, Letters DEF Solid
  <2>2. Solids(Trim(s)) = 0
    BY <1>2, SolidsOne
  <2> QED
    BY <1>1, <2>1, <2>2
<1>3. ASSUME NEW i \in 1..Len(s), NEW j \in 1..Len(s),
             Trim(s) = SubSeq(s, i, j), i <= j, s[i] # " ", s[j] # " "
      PROVE  /\ Trim(s) \in Text /\ Solid(Trim(s)) /\ Solids(Trim(s)) <= Solids(s)
  <2>1. \A m, n \in 1..(Len(s) + 1) : SubSeq(s, m, n - 1) \in Text
    <3> SUFFICES ASSUME NEW m \in 1..(Len(s) + 1), NEW n \in 1..(Len(s) + 1)
                 PROVE  SubSeq(s, m, n - 1) \in Text
      OBVIOUS
    <3>1. \A k \in m..(n - 1) : s[k] \in Letter
      <4>1. \A k \in 1..Len(s) : s[k] \in Letter
        BY ElementOfSeq DEF Text
      <4> QED
        BY <1>1, <4>1
    <3> QED
      BY <1>1, <3>1, SubSeqProperties DEF Text
  <2> DEFINE a == SubSeq(s, 1, i - 1)
             b == SubSeq(s, i, j)
             c == SubSeq(s, j + 1, Len(s))
  <2>2. a \in Text /\ b \in Text /\ c \in Text
    <3>1. i \in 1..(Len(s) + 1) /\ j + 1 \in 1..(Len(s) + 1) /\ (j + 1) - 1 = j
          /\ Len(s) + 1 \in 1..(Len(s) + 1) /\ (Len(s) + 1) - 1 = Len(s) /\ 1 \in 1..(Len(s) + 1)
      BY <1>1, <1>3, Between
    <3> QED
      BY <2>1, <3>1
  <2>3. a \o b = SubSeq(s, 1, j) /\ (a \o b) \o c = s
    <3>1. /\ 1 \in 1..(Len(s) + 1) /\ i - 1 \in (1 - 1)..Len(s) /\ j \in (i - 1)..Len(s)
          /\ j \in (1 - 1)..Len(s) /\ Len(s) \in j..Len(s) /\ (i - 1) + 1 = i
      BY <1>1, <1>3, Between
    <3>2. a \o SubSeq(s, (i - 1) + 1, j) = SubSeq(s, 1, j)
      BY <3>1, ConcatAdjacentSubSeq DEF Text
    <3>3. SubSeq(s, 1, j) \o c = SubSeq(s, 1, Len(s))
      BY <3>1, ConcatAdjacentSubSeq DEF Text
    <3>4. SubSeq(s, 1, Len(s)) = s
      BY SubSeqFull DEF Text
    <3> QED
      BY <3>1, <3>2, <3>3, <3>4
  <2>4. /\ Len(b) = j - i + 1 /\ b[1] = s[i] /\ b[Len(b)] = s[j]
    <3>1. \A k \in i..j : s[k] \in Letter
      <4>1. \A k \in 1..Len(s) : s[k] \in Letter
        BY ElementOfSeq DEF Text
      <4> QED
        BY <1>1, <4>1
    <3>2. Len(b) = (IF i <= j THEN j - i + 1 ELSE 0) /\ \A k \in 1..(j - i + 1) : b[k] = s[i + k - 1]
      BY <3>1, SubSeqProperties DEF Text
    <3>3. 1 \in 1..(j - i + 1) /\ j - i + 1 \in 1..(j - i + 1) /\ i + 1 - 1 = i
          /\ i + (j - i + 1) - 1 = j
      <4>1. i <= j
        BY <1>3
      <4> QED
        BY <1>1, <4>1, Between
    <3> HIDE DEF b
    <3> QED
      BY <1>3, <3>2, <3>3
  <2> HIDE DEF a, b, c
  <2>5. Solids(s) = Solids(a) + Solids(b) + Solids(c)
    <3>1. a \o b \in Text
      BY <2>2, TextConcat
    <3>2. Solids((a \o b) \o c) = Solids(a \o b) + Solids(c) /\ Solids(a \o b) = Solids(a) + Solids(b)
      BY <2>2, <3>1, SolidsConcat
    <3> QED
      BY <2>3, <3>2
  <2>6. Solids(a) \in Nat /\ Solids(b) \in Nat /\ Solids(c) \in Nat
    BY <2>2, SolidsFrom
  <2>7. Solids(b) <= Solids(s)
    BY <2>5, <2>6
  <2>8. Solid(b)
    BY <1>3, <2>4 DEF Solid
  <2>9. Trim(s) = b
    BY <1>3 DEF b
  <2> QED
    BY <2>2, <2>7, <2>8, <2>9
<1> QED
  BY <1>1, <1>2, <1>3, TrimIs

LEMMA TrimSame ==
  ASSUME NEW s \in Text, Solid(s)
  PROVE  Trim(s) = s
<1>1. Len(s) \in Nat /\ DOMAIN s = 1..Len(s) /\ (Len(s) = 0 <=> s = <<>>)
  BY LenProperties, EmptySeq DEF Text
<1> DEFINE S == {i \in DOMAIN s : s[i] # " "}
           first == CHOOSE i \in S : \A j \in S : i <= j
           last == CHOOSE i \in S : \A j \in S : i >= j
<1>2. Trim(s) = IF S = {} THEN <<>> ELSE SubSeq(s, first, last)
  BY DEF Trim
<1>3. \A i \in S : i \in 1..Len(s)
  BY <1>1
<1>4. CASE s = <<>>
  <2>1. S = {}
    BY <1>1, <1>4
  <2> QED
    BY <1>2, <1>4, <2>1
<1>5. CASE s # <<>>
  <2>1. 1 \in DOMAIN s /\ Len(s) \in DOMAIN s
    BY <1>1, <1>5
  <2>2. 1 \in S /\ Len(s) \in S
    BY <1>5, <2>1 DEF Solid
  <2> HIDE DEF S
  <2>3. \A i \in S : (\A j \in S : i <= j) <=> i = 1
    BY <1>3, <2>2
  <2>4. \A i \in S : (\A j \in S : i >= j) <=> i = Len(s)
    BY <1>1, <1>3, <2>2
  <2>5. first = 1
    BY <2>2, <2>3
  <2>6. last = Len(s)
    BY <2>2, <2>4
  <2>7. SubSeq(s, 1, Len(s)) = s
    BY SubSeqFull DEF Text
  <2> QED
    BY <1>2, <2>2, <2>5, <2>6, <2>7
<1> QED
  BY <1>4, <1>5

\* how much the reader has, a backslash that it may still put out and the
\* change to the value counted in
Pending(r) == IF r.marked THEN 1 ELSE 0
Turned(r) == IF r.out = "value" THEN 1 ELSE 0
NameWeight(r) == Solids(r.name) + Pending(r)
Heavy(r) == Solids(r.name) + Solids(r.value) + Pending(r) + Turned(r)

\* a reader behind the blanks of a line that is no comment
Reading(r) == r \in LineState /\ r.out \in {"name", "value"} /\ ~r.comment

LEMMA HeavyNumbers ==
  ASSUME NEW r \in LineState
  PROVE  /\ Solids(r.name) \in Nat /\ Solids(r.value) \in Nat
         /\ Pending(r) \in {0, 1} /\ Turned(r) \in {0, 1}
         /\ NameWeight(r) \in Nat /\ Heavy(r) \in Nat
         /\ r.marked \in BOOLEAN
         /\ (r.marked => Pending(r) = 1) /\ (~r.marked => Pending(r) = 0)
         /\ (r.out = "value" => Turned(r) = 1) /\ (r.out = "name" => Turned(r) = 0)
<1>1. r.name \in Text /\ r.value \in Text /\ r.marked \in BOOLEAN
  BY DEF LineState
<1>2. Solids(r.name) \in Nat /\ Solids(r.value) \in Nat
  BY <1>1, SolidsFrom
<1>3. Pending(r) \in {0, 1} /\ (r.marked => Pending(r) = 1) /\ (~r.marked => Pending(r) = 0)
  BY DEF Pending
<1>4. /\ Turned(r) \in {0, 1}
      /\ (r.out = "value" => Turned(r) = 1) /\ (r.out = "name" => Turned(r) = 0)
  BY DEF Turned
<1> QED
  BY <1>1, <1>2, <1>3, <1>4 DEF NameWeight, Heavy

\* what putting out s adds
Adding(q, r, s) ==
  /\ Reading(q) /\ q.out = r.out /\ Turned(q) = Turned(r)
  /\ Solids(q.name) + Solids(q.value) = Solids(r.name) + Solids(r.value) + Solids(s)
  /\ r.out = "value" => q.name = r.name /\ Solids(q.name) = Solids(r.name)
  /\ r.out = "name" => q.value = r.value /\ Solids(q.name) = Solids(r.name) + Solids(s)

LEMMA PutsAdds ==
  ASSUME NEW q, NEW r, Reading(r), NEW s \in Text, Puts(q, r, s)
  PROVE  Adding(q, r, s)
<1>1. Reading(q) /\ q.out = r.out /\ Turned(q) = Turned(r)
  BY DEF Puts, Reading, Turned
<1>2. r.name \in Text /\ r.value \in Text
  BY DEF Reading, LineState
<1>3. /\ Solids(r.name \o s) = Solids(r.name) + Solids(s)
      /\ Solids(r.value \o s) = Solids(r.value) + Solids(s)
      /\ Solids(r.name) \in Nat /\ Solids(r.value) \in Nat /\ Solids(s) \in Nat
  BY <1>2, SolidsConcat
<1>4. CASE r.out = "value"
  <2>1. q.name = r.name /\ q.value = r.value \o s /\ r.out # "name"
    BY <1>4 DEF Puts
  <2>2. Solids(q.name) = Solids(r.name) /\ Solids(q.value) = Solids(r.value) + Solids(s)
    BY <1>3, <2>1
  <2>3. Solids(q.name) + Solids(q.value) = Solids(r.name) + Solids(r.value) + Solids(s)
    BY <1>3, <2>2
  <2> QED
    BY <1>1, <2>1, <2>2, <2>3 DEF Adding
<1>5. CASE r.out = "name"
  <2>1. q.name = r.name \o s /\ q.value = r.value /\ r.out # "value"
    BY <1>5 DEF Puts
  <2>2. Solids(q.name) = Solids(r.name) + Solids(s) /\ Solids(q.value) = Solids(r.value)
    BY <1>3, <2>1
  <2>3. Solids(q.name) + Solids(q.value) = Solids(r.name) + Solids(r.value) + Solids(s)
    BY <1>3, <2>2
  <2> QED
    BY <1>1, <2>1, <2>2, <2>3 DEF Adding
<1> QED
  BY <1>4, <1>5 DEF Reading

\* the branches that NextLetter does not need
LEMMA MoreBranches ==
  ASSUME NEW r, Reading(r), NEW c \in Letter
  PROVE  /\ c = " " => Puts(ReadChar(r, c), r, <<" ", " ">>) /\ ~ReadChar(r, c).marked
         /\ c \in {"=", ":"} /\ ~r.marked /\ r.out = "name" =>
              /\ Reading(ReadChar(r, c)) /\ ReadChar(r, c).out = "value"
              /\ ReadChar(r, c).marked = r.marked
              /\ ReadChar(r, c).name = r.name /\ ReadChar(r, c).value = r.value
         /\ c \in {"=", ":"} /\ ~r.marked /\ r.out = "value" =>
              Puts(ReadChar(r, c), r, <<c>>) /\ ~ReadChar(r, c).marked
<1>1. r \in LineState /\ r.out # "none" /\ ~r.comment
  BY DEF Reading
<1> DEFINE plain == [r EXCEPT !.marked = FALSE]
<1>2. /\ plain \in LineState /\ plain.out = r.out /\ ~plain.marked /\ plain.comment = r.comment
      /\ plain.name = r.name /\ plain.value = r.value
  BY <1>1 DEF LineState
<1>3. <<" ", " ">> \in Text /\ <<c>> \in Text
  <2>1. " " \in Letter
    BY DEF Letter, Char
  <2> QED
    BY <2>1, Tuples, Letters DEF Text
<1>4. CASE c = " "
  <2>1. ReadChar(r, c) = Put(plain, <<" ", " ">>)
    BY <1>1, <1>4 DEF ReadChar
  <2> HIDE DEF plain
  <2>2. \A t \in Text : Puts(Put(plain, t), plain, t) /\ Put(plain, t).marked = plain.marked
    BY <1>2, PutFields
  <2>3. \A t \in Text : Puts(Put(plain, t), r, t) /\ ~Put(plain, t).marked
    BY <1>2, <2>2 DEF Puts
  <2> QED
    BY <1>3, <1>4, <2>1, <2>3
<1>5. CASE c \in {"=", ":"} /\ ~r.marked /\ r.out = "name"
  <2>1. ReadChar(r, c) = [r EXCEPT !.out = "value"]
    BY <1>1, <1>5 DEF ReadChar
  <2>2. /\ [r EXCEPT !.out = "value"] \in LineState
        /\ [r EXCEPT !.out = "value"].out = "value"
        /\ [r EXCEPT !.out = "value"].marked = r.marked
        /\ [r EXCEPT !.out = "value"].comment = r.comment
        /\ [r EXCEPT !.out = "value"].name = r.name
        /\ [r EXCEPT !.out = "value"].value = r.value
    BY <1>1 DEF LineState
  <2> QED
    BY <1>1, <1>5, <2>1, <2>2 DEF Reading
<1>6. CASE c \in {"=", ":"} /\ ~r.marked /\ r.out = "value"
  <2>1. ReadChar(r, c) = Put(r, <<c>>)
    BY <1>1, <1>6 DEF ReadChar
  <2>2. Puts(Put(r, <<c>>), r, <<c>>) /\ Put(r, <<c>>).marked = r.marked
    BY <1>1, <1>3, PutFields
  <2> QED
    BY <1>6, <2>1, <2>2
<1> QED
  BY <1>4, <1>5, <1>6

LEMMA AddingWeight ==
  ASSUME NEW q, NEW r, Reading(r), NEW s \in Text, Puts(q, r, s)
  PROVE  /\ Reading(q) /\ q.out = r.out
         /\ Heavy(q) + Pending(r) = Heavy(r) + Pending(q) + Solids(s)
         /\ r.out = "value" => q.name = r.name
         /\ r.out = "name" =>
              q.value = r.value /\ NameWeight(q) + Pending(r) = NameWeight(r) + Pending(q) + Solids(s)
<1>1. Adding(q, r, s)
  BY PutsAdds
<1>2. /\ Solids(r.name) \in Nat /\ Solids(r.value) \in Nat /\ Pending(r) \in {0, 1}
      /\ Turned(r) \in {0, 1} /\ Solids(s) \in Nat
  BY HeavyNumbers, SolidsFrom DEF Reading
<1>3. /\ Solids(q.name) \in Nat /\ Solids(q.value) \in Nat /\ Pending(q) \in {0, 1}
      /\ Turned(q) = Turned(r)
      /\ Solids(q.name) + Solids(q.value) = Solids(r.name) + Solids(r.value) + Solids(s)
  BY <1>1, HeavyNumbers DEF Adding, Reading
<1>4. Heavy(q) + Pending(r) = Heavy(r) + Pending(q) + Solids(s)
  BY <1>2, <1>3 DEF Heavy
<1>5. r.out = "name" =>
        q.value = r.value /\ Solids(q.name) = Solids(r.name) + Solids(s)
  BY <1>1 DEF Adding
<1>6. Solids(q.name) = Solids(r.name) + Solids(s) =>
        NameWeight(q) + Pending(r) = NameWeight(r) + Pending(q) + Solids(s)
  BY <1>2, <1>3 DEF NameWeight
<1> QED
  BY <1>1, <1>4, <1>5, <1>6 DEF Adding

\* What a letter of the written text adds: at most itself, and all of it only if
\* no backslash is lost before it and a colon ends the name.
Loses(r, c, q) == (r.marked /\ c \notin Special \cup {"\\"}) \/ (c = ":" /\ q.out # "value")

Weighs(r, c, q) ==
  /\ Reading(q) /\ (q.marked <=> c = "\\")
  /\ Heavy(q) <= Heavy(r) + Weight(c)
  /\ Heavy(q) = Heavy(r) + Weight(c) => ~Loses(r, c, q)
  /\ r.out = "value" => q.out = "value" /\ q.name = r.name
  /\ q.out = "name" => q.value = r.value /\ NameWeight(q) <= NameWeight(r) + Weight(c)
  /\ r.out = "name" /\ q.out = "value" => Solids(q.name) + 1 <= NameWeight(r) + Weight(c)

LEMMA LetterWeight ==
  ASSUME NEW r, Reading(r), NEW c \in Letter
  PROVE  Weighs(r, c, After(ReadLetter, r, Marked(c)))
<1> DEFINE q == After(ReadLetter, r, Marked(c))
           b == ReadChar(r, "\\")
           t == IF r.marked THEN <<"\\">> ELSE <<>>
<1>1. /\ r \in LineState /\ r.out \in {"name", "value"} /\ ~r.comment /\ r.out # "none"
      /\ "\\" \in Letter /\ r.marked \in BOOLEAN
  BY DEF Reading, Letter, Char, LineState
<1>2. q = IF c \in Special THEN ReadChar(b, c) ELSE ReadChar(r, c)
  BY <1>1, ReadMarked
<1>3. /\ Heavy(r) \in Nat /\ NameWeight(r) \in Nat /\ Pending(r) \in {0, 1}
      /\ (r.marked => Pending(r) = 1) /\ (~r.marked => Pending(r) = 0)
  BY <1>1, HeavyNumbers
<1>4. t \in Text /\ Solids(t) = Pending(r)
  <2>1. Solids(<<"\\">>) = 1 /\ Solids(<<>>) = 0
    BY <1>1, SolidsOne
  <2> QED
    BY <1>3, <2>1, <1>1, Letters
<1>5. Puts(b, r, t) /\ b.marked
  BY <1>1, ReadBranch
<1> HIDE DEF t, b, q
<1>6. /\ Reading(b) /\ b.out = r.out /\ Heavy(b) = Heavy(r) + 1
      /\ r.out = "value" => b.name = r.name
      /\ r.out = "name" => b.value = r.value /\ NameWeight(b) = NameWeight(r) + 1
  <2>1. /\ Reading(b) /\ b.out = r.out
        /\ Heavy(b) + Pending(r) = Heavy(r) + Pending(b) + Solids(t)
        /\ r.out = "value" => b.name = r.name
        /\ r.out = "name" =>
              b.value = r.value /\ NameWeight(b) + Pending(r) = NameWeight(r) + Pending(b) + Solids(t)
    BY <1>4, <1>5, AddingWeight
  <2>2. Pending(b) = 1 /\ Heavy(b) \in Nat /\ NameWeight(b) \in Nat
    BY <1>5, <2>1, HeavyNumbers DEF Reading
  <2>3. Heavy(b) = Heavy(r) + 1
    BY <1>3, <1>4, <2>1, <2>2
  <2>4. NameWeight(b) + Pending(r) = NameWeight(r) + Pending(b) + Solids(t) =>
          NameWeight(b) = NameWeight(r) + 1
    BY <1>3, <1>4, <2>2
  <2> QED
    BY <2>1, <2>3, <2>4
<1>7. <<c>> \in Text /\ Solids(<<c>>) = Weight(c) /\ Weight(c) \in {0, 1}
  BY SolidsOne, Letters
<1>14. c # " " => Weight(c) = 1
  BY SolidsOne
<1>8. CASE c \in Special
  <2>1. c \in {"=", ":", "#"} /\ c # "\\" /\ c # " " /\ c # ":"
    BY <1>8 DEF Special
  <2>2. Puts(q, b, <<c>>) /\ ~q.marked
    BY <1>2, <1>5, <1>6, <1>8, <2>1, ReadBranch DEF Reading
  <2>3. /\ Reading(q) /\ q.out = b.out
        /\ Heavy(q) + Pending(b) = Heavy(b) + Pending(q) + Solids(<<c>>)
        /\ b.out = "value" => q.name = b.name
        /\ b.out = "name" =>
             q.value = b.value /\ NameWeight(q) + Pending(b) = NameWeight(b) + Pending(q) + Solids(<<c>>)
    BY <1>6, <1>7, <2>2, AddingWeight
  <2>4. Pending(b) = 1 /\ Pending(q) = 0 /\ Heavy(q) \in Nat /\ NameWeight(q) \in Nat
    BY <1>5, <1>6, <2>2, <2>3, HeavyNumbers DEF Reading
  <2>10. Weight(c) = 1
    BY <1>14, <2>1
  <2>5. Heavy(q) = Heavy(r) + Weight(c)
    BY <1>3, <1>6, <1>7, <2>3, <2>4, <2>10
  <2>6. r.out = "name" => NameWeight(q) = NameWeight(r) + Weight(c)
    BY <1>3, <1>6, <1>7, <2>3, <2>4, <2>10
  <2>7. ~Loses(r, c, q)
    BY <1>8, <2>1 DEF Loses
  <2>8. Heavy(q) <= Heavy(r) + Weight(c)
    BY <1>3, <1>7, <2>5
  <2>9. r.out = "name" => NameWeight(q) <= NameWeight(r) + Weight(c)
    BY <1>3, <1>7, <2>6
  <2> QED
    BY <1>6, <2>1, <2>2, <2>3, <2>7, <2>8, <2>9 DEF Weighs, q
<1>9. CASE c = "\\"
  <2>1. q = b /\ c # ":" /\ c # " "
    BY <1>2, <1>9 DEF Special, b
  <2>2. ~Loses(r, c, q)
    BY <1>9, <2>1 DEF Loses
  <2>5. Weight(c) = 1 /\ q = b
    BY <1>14, <2>1
  <2>3. Heavy(q) <= Heavy(r) + Weight(c)
    BY <1>3, <1>6, <2>5
  <2>4. r.out = "name" => NameWeight(q) <= NameWeight(r) + Weight(c)
    BY <1>3, <1>6, <2>5
  <2> QED
    BY <1>5, <1>6, <1>9, <2>1, <2>2, <2>3, <2>4 DEF Weighs, q
<1>10. ASSUME NEW s \in Text, Puts(q, r, s), ~q.marked, Solids(s) = Weight(c), c # "\\",
              c \notin Special, c # ":" \/ r.marked \/ r.out = "value"
       PROVE  Weighs(r, c, q)
  <2>1. /\ Reading(q) /\ q.out = r.out
        /\ Heavy(q) + Pending(r) = Heavy(r) + Pending(q) + Solids(s)
        /\ r.out = "value" => q.name = r.name
        /\ r.out = "name" =>
             q.value = r.value /\ NameWeight(q) + Pending(r) = NameWeight(r) + Pending(q) + Solids(s)
    BY <1>10, AddingWeight
  <2>2. Pending(q) = 0 /\ Heavy(q) \in Nat /\ NameWeight(q) \in Nat
    BY <1>10, <2>1, HeavyNumbers DEF Reading
  <2>7. Solids(s) = Weight(c)
    BY <1>10
  <2>3. Heavy(q) + Pending(r) = Heavy(r) + Weight(c)
    BY <1>3, <1>7, <2>1, <2>2, <2>7
  <2>4. /\ Heavy(q) <= Heavy(r) + Weight(c)
        /\ Heavy(q) = Heavy(r) + Weight(c) => Pending(r) = 0
    BY <1>3, <1>7, <2>2, <2>3
  <2>5. r.out = "name" => NameWeight(q) <= NameWeight(r) + Weight(c)
    BY <1>3, <1>7, <2>1, <2>2, <2>7
  <2>6. Pending(r) = 0 => ~Loses(r, c, q)
    <3>1. Pending(r) = 0 => ~r.marked
      BY <1>3
    <3> QED
      BY <1>10, <2>1, <3>1 DEF Loses
  <2> QED
    BY <1>10, <2>1, <2>4, <2>5, <2>6 DEF Weighs
<1>11. CASE c = " "
  <2>1. q = ReadChar(r, c) /\ c # "\\" /\ c \notin Special /\ c # ":"
    BY <1>2, <1>11 DEF Special
  <2>2. Puts(q, r, <<" ", " ">>) /\ ~q.marked
    BY <1>11, <2>1, MoreBranches
  <2>3. <<" ", " ">> \in Text
    <3>1. " " \in Letter
      BY DEF Letter, Char
    <3> QED
      BY <3>1, Tuples DEF Text
  <2>4. Solids(<<" ", " ">>) = Weight(c)
    BY <1>11, SolidsOne DEF Weight
  <2> QED
    BY <1>10, <2>1, <2>2, <2>3, <2>4 DEF q
<1>12. CASE c = ":" /\ ~r.marked /\ r.out = "name"
  <2>1. q = ReadChar(r, c) /\ c # "\\" /\ c # " "
    BY <1>2, <1>12 DEF Special
  <2>2. /\ Reading(q) /\ q.out = "value" /\ q.marked = r.marked
        /\ q.name = r.name /\ q.value = r.value
    BY <1>12, <2>1, MoreBranches
  <2>3. Turned(q) = 1 /\ Turned(r) = 0 /\ Pending(q) = 0 /\ Pending(r) = 0
    BY <1>1, <1>12, <2>2, HeavyNumbers DEF Reading
  <2>4. Heavy(q) = Heavy(r) + 1 /\ NameWeight(r) = Solids(r.name) + 0
        /\ Solids(r.name) \in Nat
    <3>1. Solids(r.name) \in Nat /\ Solids(r.value) \in Nat
      BY <1>1, HeavyNumbers
    <3> QED
      BY <2>2, <2>3, <3>1 DEF Heavy, NameWeight
  <2>7. Weight(c) = 1 /\ Solids(q.name) = Solids(r.name)
    BY <1>14, <2>1, <2>2
  <2>5. Heavy(q) <= Heavy(r) + Weight(c) /\ Solids(q.name) + 1 <= NameWeight(r) + Weight(c)
    BY <1>3, <2>4, <2>7
  <2>6. ~Loses(r, c, q)
    BY <1>12, <2>2 DEF Loses
  <2> QED
    BY <1>12, <2>1, <2>2, <2>5, <2>6 DEF Weighs, q
<1>13. CASE /\ c \notin Special /\ c # "\\" /\ c # " "
            /\ c # ":" \/ r.marked \/ r.out = "value"
  <2>1. q = ReadChar(r, c) /\ c \notin {"=", "#", "\\"}
    BY <1>2, <1>13 DEF Special
  <2>2. Puts(q, r, <<c>>) /\ ~q.marked
    BY <1>1, <1>13, <2>1, ReadBranch
  <2> QED
    BY <1>7, <1>10, <1>13, <2>2 DEF q
<1> QED
  BY <1>1, <1>8, <1>9, <1>11, <1>12, <1>13

\* no backslash is lost before the letter i
Follows(s, i) == i > 1 /\ s[i - 1] = "\\" => s[i] \in Special \cup {"\\"}

\* the reader q has been given n letters of s by r, which had no mark
Weighed(r, s, n, q) ==
  /\ Reading(q) /\ (q.marked <=> n > 0 /\ s[n] = "\\")
  /\ Heavy(q) <= Heavy(r) + Solids(SubSeq(s, 1, n))
  /\ Heavy(q) = Heavy(r) + Solids(SubSeq(s, 1, n)) =>
       \A i \in 1..n : Follows(s, i) /\ (s[i] = ":" => q.out = "value")
  /\ r.out = "value" => q.out = "value" /\ q.name = r.name
  /\ q.out = "name" =>
       q.value = r.value /\ NameWeight(q) <= NameWeight(r) + Solids(SubSeq(s, 1, n))
  /\ r.out = "name" /\ q.out = "value" =>
       Solids(q.name) + 1 <= NameWeight(r) + Solids(SubSeq(s, 1, n))

LEMMA WeighedNext ==
  ASSUME NEW r, Reading(r), NEW s \in Text, NEW n \in 0..Len(s), n < Len(s),
         NEW q, Weighed(r, s, n, q)
  PROVE  Weighed(r, s, n + 1, After(ReadLetter, q, Marked(s[n + 1])))
<1> DEFINE c == s[n + 1]
           p == SubSeq(s, 1, n)
           k == SubSeq(s, 1, n + 1)
           x == After(ReadLetter, q, Marked(s[n + 1]))
<1>1. Len(s) \in Nat /\ \A i \in 1..Len(s) : s[i] \in Letter
  BY LenProperties, ElementOfSeq DEF Text
<1>2. n + 1 \in 1..Len(s) /\ n + 1 > 0 /\ (n + 1) - 1 = n /\ (n + 1 > 1 <=> n > 0)
  BY <1>1
<1>3. c \in Letter
  BY <1>1, <1>2
<1>4. Weighs(q, c, x)
  BY <1>3, LetterWeight DEF Weighed
<1>5. p \in Text /\ <<c>> \in Text /\ k = p \o <<c>>
  BY <1>3, PrefixLetter, Letters
<1>6. Solids(k) = Solids(p) + Weight(c) /\ Solids(p) \in Nat /\ Weight(c) \in {0, 1}
  BY <1>3, <1>5, SolidsConcat, SolidsOne
<1>7. /\ Heavy(r) \in Nat /\ NameWeight(r) \in Nat
      /\ Heavy(q) \in Nat /\ NameWeight(q) \in Nat /\ Solids(q.name) \in Nat
      /\ Heavy(x) \in Nat /\ NameWeight(x) \in Nat /\ Solids(x.name) \in Nat
  BY <1>4, HeavyNumbers DEF Reading, Weighed, Weighs
<1> HIDE DEF c, p, k, x
<1>8. Heavy(q) <= Heavy(r) + Solids(p) /\ Heavy(x) <= Heavy(q) + Weight(c)
  BY <1>4 DEF Weighed, Weighs, p
<1>9. /\ Heavy(x) <= Heavy(r) + Solids(k)
      /\ Heavy(x) = Heavy(r) + Solids(k) =>
           Heavy(q) = Heavy(r) + Solids(p) /\ Heavy(x) = Heavy(q) + Weight(c)
  BY <1>6, <1>7, <1>8
<1>10. ASSUME Heavy(x) = Heavy(r) + Solids(k)
       PROVE  \A i \in 1..(n + 1) : Follows(s, i) /\ (s[i] = ":" => x.out = "value")
  <2>1. ~Loses(q, c, x) /\ (q.out = "value" => x.out = "value")
    BY <1>4, <1>9, <1>10 DEF Weighs
  <2>2. \A i \in 1..n : Follows(s, i) /\ (s[i] = ":" => q.out = "value")
    BY <1>9, <1>10 DEF Weighed, p
  <2>3. q.marked <=> n > 0 /\ s[n] = "\\"
    BY DEF Weighed
  <2>4. Follows(s, n + 1) /\ (s[n + 1] = ":" => x.out = "value")
    <3>1. (n > 0 /\ s[n] = "\\" => c \in Special \cup {"\\"}) /\ (c = ":" => x.out = "value")
      BY <2>1, <2>3 DEF Loses
    <3> QED
      BY <1>2, <3>1 DEF Follows, c
  <2>5. \A i \in 1..(n + 1) : i \in 1..n \/ i = n + 1
    OBVIOUS
  <2> QED
    BY <2>1, <2>2, <2>4, <2>5
<1>11. x.out = "name" => x.value = r.value /\ NameWeight(x) <= NameWeight(r) + Solids(k)
  <2>1. x.out = "name" => q.out = "name" /\ x.value = q.value /\ NameWeight(x) <= NameWeight(q) + Weight(c)
    BY <1>4 DEF Weighs, Weighed, Reading
  <2>2. q.out = "name" => q.value = r.value /\ NameWeight(q) <= NameWeight(r) + Solids(p)
    BY DEF Weighed, p
  <2> QED
    BY <1>6, <1>7, <2>1, <2>2
<1>12. r.out = "name" /\ x.out = "value" => Solids(x.name) + 1 <= NameWeight(r) + Solids(k)
  <2>1. CASE q.out = "value"
    <3>1. /\ x.name = q.name
          /\ r.out = "name" => Solids(q.name) + 1 <= NameWeight(r) + Solids(p)
      BY <1>4, <2>1 DEF Weighs, Weighed, p
    <3> QED
      BY <1>6, <1>7, <3>1
  <2>2. CASE q.out = "name"
    <3>1. /\ x.out = "value" => Solids(x.name) + 1 <= NameWeight(q) + Weight(c)
          /\ NameWeight(q) <= NameWeight(r) + Solids(p)
      BY <1>4, <2>2 DEF Weighs, Weighed, p
    <3> QED
      BY <1>6, <1>7, <3>1
  <2> QED
    BY <2>1, <2>2 DEF Weighed, Reading
<1>13. r.out = "value" => x.out = "value" /\ x.name = r.name
  BY <1>4 DEF Weighs, Weighed
<1>14. Reading(x) /\ (x.marked <=> n + 1 > 0 /\ s[n + 1] = "\\")
  BY <1>2, <1>4 DEF Weighs, c
<1>15. Weighed(r, s, n + 1, x)
  BY <1>9, <1>10, <1>11, <1>12, <1>13, <1>14 DEF Weighed, k
<1> QED
  BY <1>15 DEF x

LEMMA PartWeight ==
  ASSUME NEW r, Reading(r), ~r.marked, NEW s \in Text
  PROVE  Weighed(r, s, Len(s), After(ReadLetter, r, Mark(s)))
<1>1. PICK f : MarkedPath(ReadLetter, r, s, f) /\ After(ReadLetter, r, Mark(s)) = f[Len(s)]
  BY AfterMark
<1>2. Len(s) \in Nat
  BY LenProperties DEF Text
<1> DEFINE T == {n \in 0..Len(s) : Weighed(r, s, n, f[n])}
<1>3. 0 \in T
  <2>1. Solids(SubSeq(s, 1, 0)) = 0
    <3>1. SubSeq(s, 1, 0) = <<>>
      BY SubSeqEmpty DEF Text
    <3> QED
      BY <3>1, SolidsOne
  <2>2. Heavy(r) \in Nat /\ NameWeight(r) \in Nat
    BY HeavyNumbers DEF Reading
  <2>3. Heavy(r) <= Heavy(r) + 0 /\ NameWeight(r) <= NameWeight(r) + 0
    BY <2>2
  <2>5. ~(0 > 0) /\ (\A i \in 1..0 : FALSE) /\ r.out \in {"name", "value"}
    BY DEF Reading
  <2>4. Weighed(r, s, 0, r)
    BY <2>1, <2>3, <2>5 DEF Weighed
  <2> QED
    BY <1>1, <1>2, <2>4 DEF MarkedPath
<1>4. ASSUME NEW n \in 0..Len(s), n \in T, n < Len(s) PROVE n + 1 \in T
  <2>1. n + 1 \in 1..Len(s) /\ (n + 1) - 1 = n /\ n + 1 \in 0..Len(s)
    BY <1>2, <1>4
  <2>2. f[n + 1] = After(ReadLetter, f[n], Marked(s[n + 1]))
    BY <1>1, <2>1 DEF MarkedPath
  <2>3. Weighed(r, s, n, f[n])
    BY <1>4
  <2>4. Weighed(r, s, n + 1, f[n + 1])
    BY <1>4, <2>2, <2>3, WeighedNext
  <2> QED
    BY <2>1, <2>4
<1>5. Passes(T, Len(s))
  BY <1>3, <1>4 DEF Passes
<1>6. Len(s) \in T
  <2> HIDE DEF T
  <2> QED
    BY <1>2, <1>5, Upto
<1> QED
  BY <1>1, <1>6

LEMMA NextIndex ==
  ASSUME NEW N \in Nat, NEW i \in 1..N, i # N
  PROVE  i < N /\ i + 1 \in 1..N /\ i + 1 > 1 /\ (i + 1) - 1 = i
OBVIOUS

\* the reader at a line that has a name behaves as one at the name
LEMMA StartLine ==
  ASSUME NEW s \in Text, s # <<>>, Solid(s)
  PROVE  \E r : /\ InPart(r, "name", <<>>) /\ r.value = <<>>
                /\ After(ReadLetter, NewLine, Mark(s)) = After(ReadLetter, r, Mark(s))
<1>1. Len(s) \in Nat /\ Len(s) # 0 /\ \A i \in 1..Len(s) : s[i] \in Letter
  BY LenProperties, EmptySeq, ElementOfSeq DEF Text
<1>2. 1 \in 1..Len(s) /\ 1 - 1 = 0
  BY <1>1
<1>3. PICK r : /\ InPart(r, "name", <<>>) /\ r.value = <<>>
               /\ After(ReadLetter, NewLine, Marked(s[1])) = After(ReadLetter, r, Marked(s[1]))
  BY <1>1, <1>2, FirstLetter DEF Solid
<1>4. PICK f : /\ MarkedPath(ReadLetter, NewLine, s, f)
               /\ After(ReadLetter, NewLine, Mark(s)) = f[Len(s)]
  BY AfterMark
<1>5. PICK g : MarkedPath(ReadLetter, r, s, g) /\ After(ReadLetter, r, Mark(s)) = g[Len(s)]
  BY AfterMark
<1> DEFINE T == {n \in 0..Len(s) : n = 0 \/ f[n] = g[n]}
<1>6. f[1] = g[1]
  BY <1>2, <1>3, <1>4, <1>5 DEF MarkedPath
<1>7. ASSUME NEW n \in 0..Len(s), n \in T, n < Len(s) PROVE n + 1 \in T
  <2>1. n + 1 \in 1..Len(s) /\ (n + 1) - 1 = n /\ n + 1 \in 0..Len(s) /\ (n = 0 => n + 1 = 1)
    BY <1>1, <1>7
  <2>2. f[n + 1] = After(ReadLetter, f[n], Marked(s[n + 1]))
        /\ g[n + 1] = After(ReadLetter, g[n], Marked(s[n + 1]))
    BY <1>4, <1>5, <2>1 DEF MarkedPath
  <2>3. n = 0 \/ f[n] = g[n]
    BY <1>7
  <2>4. f[n + 1] = g[n + 1]
    BY <1>6, <2>1, <2>2, <2>3
  <2> QED
    BY <2>1, <2>4
<1>8. Passes(T, Len(s))
  BY <1>1, <1>7 DEF Passes
<1>9. Len(s) \in T
  <2> HIDE DEF T
  <2> QED
    BY <1>1, <1>8, Upto
<1> QED
  BY <1>1, <1>3, <1>4, <1>5, <1>9

LEMMA LineSteps ==
  ASSUME NEW n \in Text, NEW v \in Text, After(ReadLetter, NewLine, Mark(n)) \in LineState
  PROVE  After(ReadLetter, NewLine, LineOf(n, v)) =
           After(ReadLetter, ReadChar(After(ReadLetter, NewLine, Mark(n)), "="), Mark(v))
<1> DEFINE a == After(ReadLetter, NewLine, Mark(n))
           b == After(ReadLetter, a, <<"=">>)
<1>1. "=" \in Letter
  BY DEF Letter, Char, Special
<1>2. b = ReadChar(a, "=")
  BY <1>1, AfterOne, ReadType
<1>3. /\ Mark(n) \in Seq(Letter) /\ Mark(v) \in Seq(Letter)
      /\ Mark(n) \o <<"=">> \in Seq(Letter)
  BY LineOfText DEF Text
<1>4. <<"=">> \in Seq(Letter)
  BY <1>1, Letters DEF Text
<1>5. \A x, y \in Seq(Letter) : \A z :
        After(ReadLetter, z, x \o y) = After(ReadLetter, After(ReadLetter, z, x), y)
  BY AfterConcat
<1>6. After(ReadLetter, NewLine, Mark(n) \o <<"=">>) = b
  BY <1>3, <1>4, <1>5, Zenon
<1>7. After(ReadLetter, NewLine, (Mark(n) \o <<"=">>) \o Mark(v)) = After(ReadLetter, b, Mark(v))
  <2> HIDE DEF b
  <2> QED
    BY <1>3, <1>5, <1>6, Zenon
<1> QED
  BY <1>2, <1>7 DEF LineOf

LEMMA ClosedIf ==
  ASSUME NEW s \in Text, \A i \in 1..Len(s) : Follows(s, i), ~Open(s)
  PROVE  Closed(s)
<1>1. Len(s) \in Nat /\ DOMAIN s = 1..Len(s) /\ (s = <<>> => Len(s) = 0)
  BY LenProperties, EmptySeq DEF Text
<1>2. ASSUME NEW i \in 1..Len(s), s[i] = "\\"
      PROVE  i < Len(s) /\ s[i + 1] \in Special \cup {"\\"}
  <2>1. i # Len(s)
    <3>1. s # <<>>
      BY <1>1
    <3> QED
      BY <1>2, <3>1 DEF Open
  <2>2. i < Len(s) /\ i + 1 \in 1..Len(s) /\ i + 1 > 1 /\ (i + 1) - 1 = i
    BY <1>1, <2>1, NextIndex
  <2> QED
    BY <1>2, <2>2 DEF Follows
<1> QED
  BY <1>1, <1>2 DEF Closed

LEMMA WeighedWhole ==
  ASSUME NEW s \in Text, NEW r, NEW q, Weighed(r, s, Len(s), q)
  PROVE  /\ Reading(q) /\ (q.marked <=> Open(s))
         /\ Heavy(q) <= Heavy(r) + Solids(s)
         /\ Heavy(q) = Heavy(r) + Solids(s) =>
              \A i \in 1..Len(s) : Follows(s, i) /\ (s[i] = ":" => q.out = "value")
         /\ r.out = "value" => q.out = "value" /\ q.name = r.name
         /\ q.out = "name" => q.value = r.value
         /\ r.out = "name" /\ q.out = "value" => Solids(q.name) + 1 <= NameWeight(r) + Solids(s)
<1>1. SubSeq(s, 1, Len(s)) = s
  BY SubSeqFull DEF Text
<1>2. Len(s) \in Nat /\ (s = <<>> <=> Len(s) = 0)
  BY LenProperties, EmptySeq DEF Text
<1>3. Len(s) > 0 <=> s # <<>>
  BY <1>2
<1>4. (Len(s) > 0 /\ s[Len(s)] = "\\") <=> Open(s)
  BY <1>3 DEF Open
<1> QED
  BY <1>1, <1>4 DEF Weighed

LEMMA WeightSolid ==
  ASSUME NEW c, Weight(c) = 1
  PROVE  c # " "
<1>1. Weight(" ") = 0
  BY DEF Weight
<1>2. 0 # 1
  OBVIOUS
<1> QED
  BY <1>1, <1>2, Zenon

\* a last letter that is no blank stays the last one
LEMMA TrimLast ==
  ASSUME NEW s \in Text, NEW c \in Letter, Weight(c) = 1, NEW t \in Text, t = Trim(s \o <<c>>)
  PROVE  t # <<>> /\ t[Len(t)] = c
<1> DEFINE u == Append(s, c)
<1>1. u = s \o <<c>>
  BY AppendText
<1>2. /\ u \in Text /\ Len(u) \in Nat /\ Len(u) \in 1..Len(u) /\ u[Len(u)] = c
  <2>1. Len(s) \in Nat /\ u \in Text /\ Len(u) = Len(s) + 1 /\ u[Len(s) + 1] = c
    BY AppendProperties, LenProperties DEF Text
  <2> HIDE DEF u
  <2> QED
    BY <2>1
<1> HIDE DEF u
<1>3. PICK i \in 1..Len(u), j \in 1..Len(u) : t = SubSeq(u, i, j) /\ i <= j /\ Len(u) <= j
  <2>1. c # " "
    BY WeightSolid
  <2>2. PICK k \in 1..Len(u) : k = Len(u) /\ u[k] = c
    BY <1>2
  <2> QED
    BY <1>1, <1>2, <2>1, <2>2, TrimIs
<1>4. i <= j /\ Len(u) <= j /\ t = SubSeq(u, i, j)
  BY <1>3
<1>5. j = Len(u)
  BY <1>2, <1>4
<1>6. \A k \in i..j : u[k] \in Letter
  <2>1. \A k \in 1..Len(u) : u[k] \in Letter
    BY <1>2, ElementOfSeq DEF Text
  <2> QED
    BY <1>2, <2>1
<1>7. /\ Len(t) = IF i <= j THEN j - i + 1 ELSE 0
      /\ \A k \in 1..(j - i + 1) : t[k] = u[i + k - 1]
  BY <1>3, <1>6, SubSeqProperties
<1>8. j - i + 1 \in 1..(j - i + 1) /\ i + (j - i + 1) - 1 = j
  <2>1. i <= j
    BY <1>3
  <2> QED
    BY <1>2, <2>1, Between
<1>9. Len(t) = j - i + 1
  BY <1>3, <1>7
<1>10. t[Len(t)] = u[j]
  BY <1>7, <1>8, <1>9
<1>11. t # <<>>
  <2>1. Len(t) # 0
    BY <1>8, <1>9
  <2> QED
    BY <2>1, EmptySeq
<1> QED
  BY <1>2, <1>5, <1>10, <1>11

LEMMA ReadState ==
  ASSUME NEW r \in LineState, NEW s \in Text
  PROVE  After(ReadLetter, r, s) \in LineState
<1>1. \A p \in LineState, i \in 1..Len(s) : ReadLetter[p][s[i]] \in LineState
  <2>1. \A i \in 1..Len(s) : s[i] \in Letter
    BY ElementOfSeq DEF Text
  <2> QED
    BY <2>1, ReadType
<1> QED
  BY <1>1, AfterWithin DEF Text

LEMMA NewLineState == NewLine \in LineState
BY Letters DEF NewLine, LineState

\* Of a line that is read as it was written, the reader has lost no letter.
LEMMA LineWeight ==
  ASSUME NEW n \in Text, NEW v \in Text, n # <<>>,
         NEW q, q = After(ReadLetter, NewLine, LineOf(n, v)),
         Trim(q.name) = n, Trim(q.value) = v
  PROVE  Closed(n) /\ Closed(v) /\ \A i \in 1..Len(n) : n[i] # ":"
<1>1. q \in LineState /\ q.name \in Text /\ q.value \in Text
  <2>1. q \in LineState
    BY LineOfText, NewLineState, ReadState
  <2> QED
    BY <2>1 DEF LineState
<1>2. /\ Solid(n) /\ Solids(n) \in Nat /\ Solids(v) \in Nat
      /\ Solids(n) <= Solids(q.name) /\ Solids(v) <= Solids(q.value)
  BY <1>1, TrimEnds, SolidsFrom
<1>3. PICK r : /\ InPart(r, "name", <<>>) /\ r.value = <<>>
               /\ After(ReadLetter, NewLine, Mark(n)) = After(ReadLetter, r, Mark(n))
  BY <1>2, StartLine
<1> DEFINE a == After(ReadLetter, r, Mark(n))
           b == ReadChar(a, "=")
<1>4. Reading(r) /\ ~r.marked /\ r.out = "name" /\ r.name = <<>>
  BY <1>3 DEF InPart, Reading, Open, Kept
<1>5. Heavy(r) = 0 /\ NameWeight(r) = 0
  <2>1. /\ Solids(r.name) = 0 /\ Solids(r.value) = 0 /\ Pending(r) = 0 /\ Turned(r) = 0
    BY <1>3, <1>4, SolidsOne DEF Pending, Turned
  <2> QED
    BY <2>1 DEF Heavy, NameWeight
<1>6. Weighed(r, n, Len(n), a)
  BY <1>4, PartWeight
<1> HIDE DEF a
<1>7. /\ Reading(a) /\ (a.marked <=> Open(n))
      /\ Heavy(a) <= Solids(n) /\ Heavy(a) \in Nat
      /\ Heavy(a) = Solids(n) => \A i \in 1..Len(n) : Follows(n, i) /\ (n[i] = ":" => a.out = "value")
      /\ a.out = "name" => a.value = <<>>
      /\ a.out = "value" => Solids(a.name) + 1 <= Solids(n)
  <2>1. Reading(a)
    BY <1>6 DEF Weighed
  <2>2. Heavy(r) + Solids(n) = Solids(n) /\ NameWeight(r) + Solids(n) = Solids(n)
    BY <1>2, <1>5
  <2>3. Heavy(a) \in Nat
    BY <2>1, HeavyNumbers DEF Reading
  <2> QED
    BY <1>3, <1>4, <1>6, <2>2, <2>3, WeighedWhole
<1>8. "=" \in Letter /\ <<"=">> \in Text /\ Solids(<<"=">>) = 1
  <2>1. "=" \in Letter /\ "=" # " "
    BY DEF Letter, Char, Special
  <2> QED
    BY <2>1, Letters, SolidsOne
<1>9. /\ Reading(b) /\ ~b.marked
      /\ a.marked => Heavy(b) = Heavy(a) /\ Puts(b, a, <<"=">>)
      /\ ~a.marked => Heavy(b) = Heavy(a) + 1 /\ b.out = "value" /\ b.name = a.name
  <2> HIDE DEF b
  <2>1. CASE a.marked
    <3>1. Puts(b, a, <<"=">>) /\ ~b.marked
      BY <1>7, <1>8, <2>1, ReadBranch DEF Reading, b
    <3>2. Reading(b) /\ Heavy(b) + Pending(a) = Heavy(a) + Pending(b) + Solids(<<"=">>)
      BY <1>7, <1>8, <3>1, AddingWeight
    <3>3. Pending(a) = 1 /\ Pending(b) = 0 /\ Heavy(b) \in Nat
      BY <1>7, <2>1, <3>1, <3>2, HeavyNumbers DEF Reading
    <3>4. Heavy(b) = Heavy(a)
      BY <1>7, <1>8, <3>2, <3>3
    <3> QED
      BY <2>1, <3>1, <3>2, <3>4
  <2>2. CASE ~a.marked /\ a.out = "name"
    <3>1. /\ Reading(b) /\ b.out = "value" /\ b.marked = a.marked
          /\ b.name = a.name /\ b.value = a.value
      BY <1>7, <1>8, <2>2, MoreBranches DEF b
    <3>2. Pending(a) = 0 /\ Pending(b) = 0 /\ Turned(a) = 0 /\ Turned(b) = 1
          /\ Solids(a.name) \in Nat /\ Solids(a.value) \in Nat
      BY <1>7, <2>2, <3>1, HeavyNumbers DEF Reading
    <3>3. Heavy(b) = Heavy(a) + 1
      BY <3>1, <3>2 DEF Heavy
    <3> QED
      BY <2>2, <3>1, <3>3
  <2>3. CASE ~a.marked /\ a.out = "value"
    <3>1. Puts(b, a, <<"=">>) /\ ~b.marked
      BY <1>7, <1>8, <2>3, MoreBranches DEF b
    <3>2. /\ Reading(b) /\ Heavy(b) + Pending(a) = Heavy(a) + Pending(b) + Solids(<<"=">>)
          /\ b.out = "value" /\ b.name = a.name
      BY <1>7, <1>8, <2>3, <3>1, AddingWeight
    <3>3. Pending(a) = 0 /\ Pending(b) = 0 /\ Heavy(b) \in Nat
      BY <1>7, <2>3, <3>1, <3>2, HeavyNumbers DEF Reading
    <3>4. Heavy(b) = Heavy(a) + 1
      BY <1>7, <1>8, <3>2, <3>3
    <3> QED
      BY <2>3, <3>1, <3>2, <3>4
  <2> QED
    BY <1>7, <2>1, <2>2, <2>3 DEF Reading
<1>10. q = After(ReadLetter, b, Mark(v))
  BY <1>3, <1>7, LineSteps DEF Reading, a
<1> HIDE DEF b
<1>11. Weighed(b, v, Len(v), q)
  BY <1>9, <1>10, PartWeight
<1>12. /\ Reading(q) /\ (q.marked <=> Open(v))
       /\ Heavy(q) <= Heavy(b) + Solids(v)
       /\ Heavy(q) = Heavy(b) + Solids(v) => \A i \in 1..Len(v) : Follows(v, i)
       /\ b.out = "value" => q.out = "value" /\ q.name = b.name
       /\ q.out = "name" => q.value = b.value
  BY <1>11, WeighedWhole
<1>13. /\ Heavy(q) \in Nat /\ Heavy(b) \in Nat /\ Pending(q) \in {0, 1} /\ Turned(q) \in {0, 1}
       /\ Heavy(q) >= Solids(n) + Solids(v) + Pending(q) + Turned(q)
       /\ (q.marked => Pending(q) = 1) /\ (q.out = "value" => Turned(q) = 1)
  <2>1. /\ Pending(q) \in {0, 1} /\ Turned(q) \in {0, 1} /\ Heavy(q) \in Nat /\ Heavy(b) \in Nat
        /\ Solids(q.name) \in Nat /\ Solids(q.value) \in Nat
        /\ (q.marked => Pending(q) = 1) /\ (q.out = "value" => Turned(q) = 1)
    BY <1>9, <1>12, HeavyNumbers DEF Reading
  <2>2. Heavy(q) >= Solids(n) + Solids(v) + Pending(q) + Turned(q)
    BY <1>2, <2>1 DEF Heavy
  <2> QED
    BY <2>1, <2>2
<1>14. ~a.marked
  <2> SUFFICES ASSUME a.marked PROVE FALSE
    OBVIOUS
  <2>1. Heavy(b) = Heavy(a) /\ Puts(b, a, <<"=">>)
    BY <1>9
  <2>2. Turned(q) = 0
    BY <1>2, <1>7, <1>12, <1>13, <2>1
  <2>3. q.out = "name" /\ b.out = "name" /\ a.out = "name"
    BY <1>9, <1>12, <1>13, <2>1, <2>2 DEF Reading, Puts
  <2>4. q.value = <<>> /\ b.name = a.name \o <<"=">>
    BY <1>7, <1>12, <2>1, <2>3 DEF Puts
  <2>5. v = <<>>
    <3>1. Solid(<<>>) /\ <<>> \in Text
      BY Letters DEF Solid
    <3> QED
      BY <2>4, <3>1, TrimSame
  <2>6. q = b
    BY <1>10, <2>5, AfterEmpty DEF Mark
  <2>7. a.name \in Text /\ Weight("=") = 1
    BY <1>7 DEF Reading, LineState, Weight
  <2>8. n = Trim(a.name \o <<"=">>)
    BY <2>4, <2>6
  <2>9. n[Len(n)] = "="
    BY <1>8, <2>7, <2>8, TrimLast
  <2> QED
    BY <1>7, <2>9 DEF Open
<1>15. /\ Heavy(a) = Solids(n) /\ Heavy(q) = Heavy(b) + Solids(v) /\ Pending(q) = 0
  <2>1. Heavy(b) = Heavy(a) + 1 /\ Turned(q) = 1
    BY <1>9, <1>12, <1>13, <1>14
  <2> QED
    BY <1>2, <1>7, <1>12, <1>13, <2>1
<1>16. Closed(n) /\ Closed(v)
  <2>1. ~Open(n) /\ ~Open(v)
    <3>1. ~q.marked
      BY <1>13, <1>15
    <3> QED
      BY <1>7, <1>12, <1>14, <3>1
  <2> QED
    BY <1>7, <1>12, <1>15, <2>1, ClosedIf
<1>17. ASSUME NEW i \in 1..Len(n), n[i] = ":" PROVE FALSE
  <2>1. a.out = "value"
    BY <1>7, <1>15, <1>17
  <2>2. Solids(a.name) + 1 <= Solids(n)
    BY <1>7, <2>1
  <2>3. q.name = a.name
    BY <1>9, <1>12, <1>14
  <2>4. Solids(a.name) \in Nat /\ Solids(n) <= Solids(a.name)
    BY <1>2, <1>7, <2>3, HeavyNumbers DEF Reading
  <2> QED
    BY <1>2, <2>2, <2>4
<1> QED
  BY <1>16, <1>17

-----------------------------------------------------------------------------
(* Blanks.  The reader puts each out twice, so that what arrives unchanged *)
(* has had none.                                                           *)

LEMMA OneLetter ==
  ASSUME NEW p \in Text, NEW c \in Letter
  PROVE  LET u == p \o <<c>>
         IN  /\ u \in Text /\ u # <<>> /\ Len(u) = Len(p) + 1 /\ Len(p) \in Nat
             /\ u[Len(u)] = c /\ u[1] = IF p = <<>> THEN c ELSE p[1]
<1> DEFINE q == Append(p, c)
<1>1. q = p \o <<c>>
  BY AppendText
<1>2. /\ q \in Text /\ q # <<>> /\ Len(q) = Len(p) + 1 /\ Len(p) \in Nat
      /\ q[Len(p) + 1] = c /\ \A i \in 1..Len(p) : q[i] = p[i]
  BY AppendProperties, LenProperties DEF Text
<1> HIDE DEF q
<1>3. p # <<>> => 1 \in 1..Len(p)
  <2>1. p # <<>> => Len(p) # 0
    BY EmptySeq DEF Text
  <2> QED
    BY <1>2, <2>1
<1>4. p = <<>> => Len(p) + 1 = 1
  <2>1. p = <<>> => Len(p) = 0
    BY EmptySeq
  <2> QED
    BY <2>1
<1> QED
  BY <1>1, <1>2, <1>3, <1>4

\* what the reader puts out for a letter inside a part
Twice(c) == IF c = " " THEN <<" ", " ">> ELSE <<c>>
Extra(c) == IF c = " " THEN 2 ELSE 1

LEMMA TwoLetters ==
  ASSUME NEW p \in Text, NEW c \in Letter, NEW u, u = p \o Twice(c)
  PROVE  /\ u \in Text /\ u # <<>> /\ Len(p) \in Nat /\ Len(u) = Len(p) + Extra(c)
         /\ u[Len(u)] = c /\ u[1] = IF p = <<>> THEN c ELSE p[1]
<1>1. CASE c # " "
  <2> DEFINE x == p \o <<c>>
  <2>1. x = u
    BY <1>1 DEF Twice
  <2>4. /\ x \in Text /\ x # <<>> /\ Len(x) = Len(p) + 1 /\ Len(p) \in Nat
        /\ x[Len(x)] = c /\ x[1] = IF p = <<>> THEN c ELSE p[1]
    BY OneLetter
  <2> HIDE DEF x
  <2>2. /\ u \in Text /\ u # <<>> /\ Len(u) = Len(p) + 1 /\ Len(p) \in Nat
        /\ u[Len(u)] = c /\ u[1] = IF p = <<>> THEN c ELSE p[1]
    BY <2>1, <2>4
  <2>3. Extra(c) = 1
    BY <1>1 DEF Extra
  <2> QED
    BY <2>2, <2>3, Zenon
<1>2. CASE c = " "
  <2> DEFINE x == p \o <<c>>
             y == x \o <<c>>
  <2>1. <<c>> \in Text /\ <<c>> \o <<c>> = <<c, c>>
    BY Letters, Tuples
  <2>2. y = p \o (<<c>> \o <<c>>)
    BY <2>1, TextAssociative
  <2>3. u = y /\ Extra(c) = 2
    BY <1>2, <2>1, <2>2 DEF Twice, Extra
  <2>4. /\ x \in Text /\ x # <<>> /\ Len(x) = Len(p) + 1 /\ Len(p) \in Nat
        /\ x[1] = IF p = <<>> THEN c ELSE p[1]
    BY OneLetter, Zenon
  <2>5. y = x \o <<c>>
    OBVIOUS
  <2> HIDE DEF x, y
  <2>6. /\ y \in Text /\ y # <<>> /\ Len(y) = Len(x) + 1
        /\ y[Len(y)] = c /\ y[1] = IF x = <<>> THEN c ELSE x[1]
    BY <2>4, <2>5, OneLetter
  <2>7. y[1] = x[1]
    BY <2>4, <2>6, Zenon
  <2>8. Len(y) = Len(p) + 2
    BY <2>4, <2>6
  <2> QED
    BY <2>3, <2>4, <2>6, <2>7, <2>8, Zenon
<1> QED
  BY <1>1, <1>2

LEMMA LongerText ==
  ASSUME NEW n \in Nat, NEW m \in Nat, m >= n, NEW e \in {1, 2}
  PROVE  /\ m + e >= n + 1 /\ (e = 2 => m + e > n + 1) /\ (m > n => m + e > n + 1)
         /\ n + 1 # 0 /\ n + 1 > 0 /\ \A i \in 1..(n + 1) : i \in 1..n \/ i = n + 1
OBVIOUS

LEMMA NextIn ==
  ASSUME NEW n \in Nat
  PROVE  n + 1 \in 1..(n + 1) /\ \A i \in 1..n : i \in 1..(n + 1)
OBVIOUS

\* p is what the first n letters of s are put out as
Stretched(s, n, p) ==
  /\ p \in Text /\ Len(p) >= n /\ (n = 0 => p = <<>>)
  /\ Open(p) <=> n > 0 /\ s[n] = "\\"
  /\ n > 0 => p # <<>> /\ p[1] = s[1] /\ p[Len(p)] = s[n]
  /\ \A i \in 1..n : s[i] = " " => Len(p) > n
  /\ (\A i \in 1..n : s[i] # " ") => p = SubSeq(s, 1, n)

LEMMA StretchedNext ==
  ASSUME NEW s \in Text, NEW n \in 0..Len(s), n < Len(s), NEW p, Stretched(s, n, p)
  PROVE  Stretched(s, n + 1, p \o Twice(s[n + 1]))
<1> DEFINE c == s[n + 1]
           u == p \o Twice(c)
<1>1. Len(s) \in Nat /\ n + 1 \in 1..Len(s) /\ n \in Nat /\ n + 1 > 0 /\ c \in Letter
  <2>1. Len(s) \in Nat /\ \A i \in 1..Len(s) : s[i] \in Letter
    BY LenProperties, ElementOfSeq DEF Text
  <2> QED
    BY <2>1
<1>2. p \in Text /\ Len(p) >= n
  BY DEF Stretched
<1>3. c = s[n + 1]
  OBVIOUS
<1> HIDE DEF c
<1>4. /\ u \in Text /\ u # <<>> /\ Len(p) \in Nat
      /\ Len(u) = Len(p) + Extra(c)
      /\ u[Len(u)] = c /\ u[1] = IF p = <<>> THEN c ELSE p[1]
  BY <1>1, <1>2, TwoLetters, Zenon
<1>5. u = p \o Twice(c)
  OBVIOUS
<1> HIDE DEF u
<1>6. Open(u) <=> c = "\\"
  BY <1>4 DEF Open
<1>7. u[1] = s[1]
  <2>1. CASE n = 0
    <3>1. s[n + 1] = s[1]
      BY <2>1
    <3>2. p = <<>>
      BY <2>1 DEF Stretched
    <3> QED
      BY <1>3, <1>4, <3>1, <3>2
  <2>2. CASE n > 0
    BY <1>4, <2>2 DEF Stretched
  <2> QED
    BY <1>1, <2>1, <2>2
<1>8. /\ Len(u) >= n + 1 /\ (c = " " => Len(u) > n + 1) /\ (Len(p) > n => Len(u) > n + 1)
      /\ n + 1 # 0 /\ n + 1 > 0 /\ \A i \in 1..(n + 1) : i \in 1..n \/ i = n + 1
  <2>1. Extra(c) \in {1, 2} /\ (c = " " => Extra(c) = 2)
    BY DEF Extra
  <2>2. /\ Len(p) + Extra(c) >= n + 1 /\ (Extra(c) = 2 => Len(p) + Extra(c) > n + 1)
        /\ (Len(p) > n => Len(p) + Extra(c) > n + 1)
        /\ n + 1 # 0 /\ n + 1 > 0 /\ \A i \in 1..(n + 1) : i \in 1..n \/ i = n + 1
    <3>1. Extra(c) \in {1, 2}
      BY <2>1
    <3> QED
      BY <1>1, <1>2, <1>4, <3>1, LongerText, Zenon
  <2> QED
    BY <1>4, <2>1, <2>2, Zenon
<1>9. ASSUME NEW i \in 1..(n + 1), s[i] = " " PROVE Len(u) > n + 1
  <2>1. CASE i = n + 1
    BY <1>3, <1>8, <1>9, <2>1, Zenon
  <2>2. CASE i \in 1..n
    <3>1. Len(p) > n
      BY <1>9, <2>2, Zenon DEF Stretched
    <3> QED
      BY <1>8, <3>1
  <2> QED
    BY <1>8, <2>1, <2>2
<1>10. (\A i \in 1..(n + 1) : s[i] # " ") => u = SubSeq(s, 1, n + 1)
  <2>1. SUFFICES ASSUME \A i \in 1..(n + 1) : s[i] # " " PROVE u = SubSeq(s, 1, n + 1)
    OBVIOUS
  <2>2. n + 1 \in 1..(n + 1) /\ \A i \in 1..n : i \in 1..(n + 1)
    BY <1>1, NextIn
  <2>3. p = SubSeq(s, 1, n)
    BY <2>1, <2>2, Zenon DEF Stretched
  <2>4. Twice(c) = <<c>>
    <3>1. c # " "
      BY <1>3, <2>1, <2>2, Zenon
    <3> QED
      BY <3>1, Zenon DEF Twice
  <2>5. SubSeq(s, 1, n + 1) = SubSeq(s, 1, n) \o <<c>>
    BY <1>3, PrefixLetter
  <2> QED
    BY <1>5, <2>3, <2>4, <2>5, Zenon
<1>11. Stretched(s, n + 1, u)
  BY <1>3, <1>4, <1>6, <1>7, <1>8, <1>9, <1>10, Zenon DEF Stretched
<1> QED
  BY <1>3, <1>5, <1>11, Zenon

\* the reader behind n letters of a part that may have blanks
Stretches(r, out, s, n, q) ==
  /\ Other(q, out) = Other(r, out)
  /\ \E p : Stretched(s, n, p) /\ InPart(q, out, p)

LEMMA BlankLetter ==
  ASSUME NEW r, NEW out \in {"name", "value"}, NEW p \in Text, InPart(r, out, p), ~Open(p)
  PROVE  LET q == After(ReadLetter, r, Marked(" "))
         IN  InPart(q, out, p \o Twice(" ")) /\ Other(q, out) = Other(r, out)
<1> DEFINE q == After(ReadLetter, r, Marked(" "))
           u == p \o Twice(" ")
<1>1. /\ r \in LineState /\ r.out = out /\ r.marked = Open(p) /\ ~r.comment
      /\ Whole(r, out) = Kept(p) /\ Reading(r)
  BY DEF InPart, Whole, Reading
<1>2. " " \in Letter /\ " " \notin Special
  BY DEF Letter, Char, Special
<1>3. q = ReadChar(r, " ")
  BY <1>1, <1>2, ReadMarked
<1>4. Puts(q, r, <<" ", " ">>) /\ ~q.marked
  BY <1>1, <1>2, <1>3, MoreBranches
<1>5. Kept(p) = p /\ Twice(" ") = <<" ", " ">>
  BY DEF Kept, Twice
<1> HIDE DEF q
<1>6. u # <<>> /\ u[Len(u)] = " "
  <2>1. u = p \o Twice(" ")
    OBVIOUS
  <2> HIDE DEF u
  <2> QED
    BY <1>2, <2>1, TwoLetters, Zenon
<1>7. /\ q \in LineState /\ q.out = out /\ ~q.comment
      /\ Whole(q, out) = u /\ Other(q, out) = Other(r, out)
  BY <1>1, <1>4, <1>5 DEF Puts, Whole, Other
<1> HIDE DEF u
<1>8. Open(u) = FALSE /\ Kept(u) = u
  BY <1>6 DEF Open, Kept
<1>9. q.marked = FALSE
  BY <1>4, <1>7 DEF LineState
<1> QED
  BY <1>7, <1>8, <1>9 DEF InPart, Whole, u, q

LEMMA StretchesNext ==
  ASSUME NEW s \in Text, NEW out \in {"name", "value"}, Closed(s),
         out = "name" => \A i \in 1..Len(s) : s[i] # ":",
         NEW r, NEW n \in 0..Len(s), n < Len(s), NEW q, Stretches(r, out, s, n, q)
  PROVE  Stretches(r, out, s, n + 1, After(ReadLetter, q, Marked(s[n + 1])))
<1> DEFINE c == s[n + 1]
           x == After(ReadLetter, q, Marked(c))
<1>1. Len(s) \in Nat /\ DOMAIN s = 1..Len(s) /\ \A i \in 1..Len(s) : s[i] \in Letter
  BY LenProperties, ElementOfSeq DEF Text
<1>2. n + 1 \in 1..Len(s) /\ (n > 0 => n \in 1..Len(s))
  BY <1>1
<1>3. c \in Letter /\ (c = ":" => out = "value")
  BY <1>1, <1>2
<1>4. PICK p : Stretched(s, n, p) /\ InPart(q, out, p)
  BY DEF Stretches
<1>5. p \in Text /\ Stretched(s, n + 1, p \o Twice(c))
  BY <1>4, StretchedNext DEF Stretched
<1>6. Open(p) => c \in Special \cup {"\\"}
  BY <1>1, <1>2, <1>4 DEF Stretched, Closed
<1>7. Stretches(r, out, s, n, q)
  OBVIOUS
<1> HIDE DEF c
<1>8. InPart(x, out, p \o Twice(c)) /\ Other(x, out) = Other(q, out)
  <2>1. CASE c = " "
    <3>1. ~Open(p)
      BY <1>6, <2>1 DEF Special
    <3> QED
      BY <1>4, <1>5, <2>1, <3>1, BlankLetter
  <2>2. CASE c # " "
    <3>1. Twice(c) = <<c>>
      BY <2>2 DEF Twice
    <3>2. InPart(x, out, p \o <<c>>) /\ Other(x, out) = Other(q, out)
      BY <1>3, <1>4, <1>5, <1>6, <2>2, NextLetter DEF Other
    <3> QED
      BY <3>1, <3>2, Zenon
  <2> QED
    BY <2>1, <2>2
<1> HIDE DEF x
<1>9. Stretches(r, out, s, n + 1, x)
  BY <1>5, <1>7, <1>8, Zenon DEF Stretches
<1> QED
  BY <1>9 DEF x, c

\* A part is read with each blank in it written twice.
LEMMA StretchPart ==
  ASSUME NEW s \in Text, NEW out \in {"name", "value"}, Closed(s),
         out = "name" => \A i \in 1..Len(s) : s[i] # ":",
         NEW r, InPart(r, out, <<>>)
  PROVE  LET q == After(ReadLetter, r, Mark(s))
         IN  /\ q \in LineState /\ q.out = out /\ q.marked = FALSE /\ ~q.comment
             /\ Other(q, out) = Other(r, out) /\ Stretched(s, Len(s), Whole(q, out))
<1>1. PICK f : MarkedPath(ReadLetter, r, s, f) /\ After(ReadLetter, r, Mark(s)) = f[Len(s)]
  BY AfterMark
<1>2. Len(s) \in Nat
  BY LenProperties DEF Text
<1> DEFINE T == {n \in 0..Len(s) : Stretches(r, out, s, n, f[n])}
<1>3. 0 \in T
  <2>1. <<>> \in Text /\ Len(<<>>) = 0 /\ SubSeq(s, 1, 0) = <<>>
    BY Letters, EmptySeq, SubSeqEmpty
  <2>2. Stretched(s, 0, <<>>)
    BY <2>1 DEF Stretched, Open
  <2>3. Stretches(r, out, s, 0, f[0])
    BY <1>1, <2>2 DEF MarkedPath, Stretches
  <2> QED
    BY <1>2, <2>3
<1>4. ASSUME NEW n \in 0..Len(s), n \in T, n < Len(s) PROVE n + 1 \in T
  <2>1. n + 1 \in 1..Len(s) /\ (n + 1) - 1 = n /\ n + 1 \in 0..Len(s)
    BY <1>2, <1>4
  <2>2. f[n + 1] = After(ReadLetter, f[n], Marked(s[n + 1]))
    BY <1>1, <2>1 DEF MarkedPath
  <2>3. Stretches(r, out, s, n, f[n])
    BY <1>4
  <2>4. Stretches(r, out, s, n + 1, f[n + 1])
    BY <1>4, <2>2, <2>3, StretchesNext
  <2> QED
    BY <2>1, <2>4
<1>5. Passes(T, Len(s))
  BY <1>3, <1>4 DEF Passes
<1>6. Len(s) \in T
  <2> HIDE DEF T
  <2> QED
    BY <1>2, <1>5, Upto
<1>7. PICK p : Stretched(s, Len(s), p) /\ InPart(f[Len(s)], out, p)
  BY <1>6 DEF Stretches
<1>8. Other(f[Len(s)], out) = Other(r, out)
  BY <1>6 DEF Stretches
<1>9. Open(p) = FALSE /\ Kept(p) = p
  <2>1. ~Open(s)
    BY ClosedEnd
  <2>2. Len(s) > 0 => s # <<>>
    BY <1>2, EmptySeq DEF Text
  <2>3. ~Open(p)
    BY <1>7, <2>1, <2>2 DEF Stretched, Open
  <2> QED
    BY <2>3 DEF Open, Kept
<1> QED
  BY <1>1, <1>7, <1>8, <1>9 DEF InPart, Whole

\* what comes out of a text as it was has no blank
LEMMA StretchedSame ==
  ASSUME NEW s \in Text, Solid(s), NEW p, Stretched(s, Len(s), p), Trim(p) = s
  PROVE  NoBlank(s)
<1>1. Len(s) \in Nat /\ p \in Text /\ (Len(s) = 0 => s = <<>>) /\ (s # <<>> => Len(s) > 0)
  <2>1. Len(s) \in Nat /\ (Len(s) = 0 <=> s = <<>>)
    BY LenProperties, EmptySeq DEF Text
  <2>2. Len(s) # 0 => Len(s) > 0
    BY <2>1
  <2> QED
    BY <2>1, <2>2 DEF Stretched
<1>2. Solid(p)
  <2>1. CASE s = <<>>
    <3>1. Len(s) = 0
      BY <2>1, EmptySeq
    <3> QED
      BY <3>1 DEF Stretched, Solid
  <2>2. CASE s # <<>>
    BY <1>1, <2>2 DEF Stretched, Solid
  <2> QED
    BY <2>1, <2>2
<1>3. p = s
  BY <1>1, <1>2, TrimSame
<1>4. ~(Len(p) > Len(s))
  BY <1>1, <1>3
<1> QED
  BY <1>4 DEF Stretched, NoBlank

\* A line is read with each blank inside its name and its value written twice.
LEMMA LineStretched ==
  ASSUME NEW n \in Text, NEW v \in Text, n # <<>>, Solid(n), Closed(n), Closed(v),
         \A i \in 1..Len(n) : n[i] # ":",
         NEW q, q = After(ReadLetter, NewLine, LineOf(n, v))
  PROVE  /\ ~q.comment /\ Stretched(n, Len(n), q.name) /\ Stretched(v, Len(v), q.value)
<1>3. PICK r : /\ InPart(r, "name", <<>>) /\ r.value = <<>>
               /\ After(ReadLetter, NewLine, Mark(n)) = After(ReadLetter, r, Mark(n))
  BY StartLine
<1> DEFINE a == After(ReadLetter, NewLine, Mark(n))
           b == ReadChar(a, "=")
<1>4. /\ a \in LineState /\ a.out = "name" /\ a.marked = FALSE /\ ~a.comment
      /\ a.value = <<>> /\ Stretched(n, Len(n), a.name)
  <2> DEFINE x == After(ReadLetter, r, Mark(n))
  <2>1. /\ x \in LineState /\ x.out = "name" /\ x.marked = FALSE /\ ~x.comment
        /\ Other(x, "name") = Other(r, "name") /\ Stretched(n, Len(n), Whole(x, "name"))
    BY <1>3, StretchPart
  <2>2. a = x
    BY <1>3
  <2> HIDE DEF a, x
  <2> QED
    BY <1>3, <2>1, <2>2 DEF Other, Whole
<1>5. "=" \in Letter
  BY DEF Letter, Char, Special
<1>6. q = After(ReadLetter, b, Mark(v))
  BY <1>4, LineSteps
<1> HIDE DEF a
<1>7. /\ b \in LineState /\ b.out = "value" /\ ~b.marked /\ ~b.comment
      /\ b.name = a.name /\ b.value = <<>>
  <2>1. b = ReadChar(a, "=")
    OBVIOUS
  <2> HIDE DEF b
  <2>2. /\ b \in LineState /\ b.out = "value" /\ ~b.marked /\ ~b.comment
        /\ b.name = a.name /\ b.value = a.value
    BY <1>4, <1>5, <2>1, ReadBranch
  <2> QED
    BY <1>4, <2>2
<1> HIDE DEF b
<1>8. InPart(b, "value", <<>>)
  <2>1. Open(<<>>) = FALSE /\ Kept(<<>>) = <<>>
    BY DEF Open, Kept
  <2>2. b.marked = FALSE
    BY <1>7 DEF LineState
  <2> QED
    BY <1>7, <2>1, <2>2 DEF InPart
<1>9. ~q.comment /\ q.name = a.name /\ Stretched(v, Len(v), q.value)
  <2> DEFINE x == After(ReadLetter, b, Mark(v))
  <2>1. ~x.comment /\ Other(x, "value") = Other(b, "value") /\ Stretched(v, Len(v), Whole(x, "value"))
    BY <1>8, StretchPart
  <2>2. q = x
    BY <1>6
  <2> HIDE DEF x
  <2> QED
    BY <1>7, <2>1, <2>2 DEF Other, Whole
<1> QED
  BY <1>4, <1>9

\* A name and a value that are read as they were written are readable.
LEMMA LineReadable ==
  ASSUME NEW n \in Text, NEW v \in Text, n # <<>>,
         NEW q, q = After(ReadLetter, NewLine, LineOf(n, v)),
         Trim(q.name) = n, Trim(q.value) = v
  PROVE  Readable(n, "name") /\ Readable(v, "value")
<1>1. Closed(n) /\ Closed(v) /\ \A i \in 1..Len(n) : n[i] # ":"
  BY LineWeight
<1>2. Solid(n) /\ Solid(v)
  <2>1. q \in LineState
    BY LineOfText, NewLineState, ReadState
  <2>2. q.name \in Text /\ q.value \in Text
    BY <2>1 DEF LineState
  <2> QED
    BY <2>2, TrimEnds
<1>3. Stretched(n, Len(n), q.name) /\ Stretched(v, Len(v), q.value)
  BY <1>1, <1>2, LineStretched
<1>4. NoBlank(n) /\ NoBlank(v)
  BY <1>2, <1>3, StretchedSame
<1> QED
  BY <1>1, <1>4 DEF Readable, NoBlank

\* What is readable is read as it was written.
LEMMA SetRead ==
  ASSUME NEW n \in Text, NEW v \in Text, n # <<>>, Readable(n, "name"), Readable(v, "value"),
         NEW props
  PROVE  SetProperty(props, LineOf(n, v)) = {p \in props : p[1] # n} \cup {<<n, v>>}
<1> DEFINE r == After(ReadLetter, NewLine, LineOf(n, v))
<1>1. Solid(n) /\ Solid(v)
  <2>1. ASSUME NEW s \in Text, NoBlank(s) PROVE Solid(s)
    <3>1. s # <<>> => 1 \in 1..Len(s) /\ Len(s) \in 1..Len(s)
      BY EmptySeq, LenProperties DEF Text
    <3> QED
      BY <2>1, <3>1 DEF NoBlank, Solid
  <2> QED
    BY <2>1 DEF Readable, NoBlank
<1>2. ~r.comment /\ Stretched(n, Len(n), r.name) /\ Stretched(v, Len(v), r.value)
  BY <1>1, LineStretched DEF Readable
<1>3. r.name = n /\ r.value = v
  <2>1. SubSeq(n, 1, Len(n)) = n /\ SubSeq(v, 1, Len(v)) = v
    BY SubSeqFull DEF Text
  <2> HIDE DEF r
  <2> QED
    BY <1>2, <2>1 DEF Stretched, Readable
<1>4. Trim(n) = n /\ Trim(v) = v
  BY <1>1, TrimSame
<1>5. SetProperty(props, LineOf(n, v)) =
        IF r.comment THEN props
        ELSE {p \in props : p[1] # Trim(r.name)} \cup {<<Trim(r.name), Trim(r.value)>>}
  BY DEF SetProperty
<1> HIDE DEF r
<1> QED
  BY <1>2, <1>3, <1>4, <1>5

\* what a line sets, if it is one of the reader's lines
LEMMA SetIs ==
  ASSUME NEW props, NEW line, NEW p, p \in SetProperty(props, line), p \notin props,
         NEW q, q = After(ReadLetter, NewLine, line)
  PROVE  p = <<Trim(q.name), Trim(q.value)>>
BY DEF SetProperty

-----------------------------------------------------------------------------
(* Which letters the loops can put out.                                    *)

LEMMA FrontOfFirst ==
  ASSUME NEW L, NEW s \in Seq(L), NEW c, Contains(s, c)
  PROVE  Front(BeforeFirst(c, s)) \in Seq(L \ {c})
<1>1. Len(s) \in Nat /\ DOMAIN s = 1..Len(s) /\ \A i \in 1..Len(s) : s[i] \in L
  BY LenProperties, ElementOfSeq
<1> DEFINE S == {i \in 1..Len(s) : s[i] = c}
           k == CHOOSE i \in DOMAIN s : s[i] = c /\ \A j \in 1..(i - 1) : s[j] # c
           b == SubSeq(s, 1, k)
           f == SubSeq(b, 1, k - 1)
<1>2. PICK m \in S : \A j \in S : m <= j
  <2>1. S \in SUBSET Nat /\ S # {}
    BY DEF Contains
  <2> HIDE DEF S
  <2> QED
    BY <2>1, NatLeast
<1>3. m \in DOMAIN s /\ s[m] = c /\ \A j \in 1..(m - 1) : s[j] # c
  <2>1. ASSUME NEW j \in 1..(m - 1) PROVE s[j] # c
    <3>1. j \in 1..Len(s) /\ ~(m <= j)
      BY <1>1
    <3>2. j \notin S
      BY <1>2, <3>1
    <3> QED
      BY <3>1, <3>2
  <2> QED
    BY <1>1, <2>1
<1>4. k \in 1..Len(s) /\ \A j \in 1..(k - 1) : s[j] # c
  BY <1>1, <1>3
<1>5. BeforeFirst(c, s) = b
  BY DEF BeforeFirst
<1> HIDE DEF k
<1>6. b \in Seq(L) /\ Len(b) = k /\ \A i \in 1..k : b[i] = s[i]
  <2>1. \A i \in 1..k : s[i] \in L
    BY <1>1, <1>4
  <2> QED
    BY <1>1, <1>4, <2>1, SubSeqProperties
<1> HIDE DEF b
<1>7. Front(b) = f
  BY <1>6 DEF Front
<1>8. /\ f \in Seq(L) /\ Len(f) = k - 1 /\ \A i \in 1..(k - 1) : f[i] = b[i]
  <2>1. \A i \in 1..(k - 1) : b[i] \in L
    BY <1>1, <1>4, <1>6
  <2> QED
    BY <1>1, <1>4, <1>6, <2>1, SubSeqProperties
<1> HIDE DEF f
<1>9. ASSUME NEW i \in 1..Len(f) PROVE f[i] \in L \ {c}
  <2>1. i \in 1..(k - 1) /\ i \in 1..k /\ i \in 1..Len(s)
    BY <1>1, <1>4, <1>8
  <2>2. f[i] = s[i]
    BY <1>6, <1>8, <2>1
  <2> QED
    BY <1>1, <1>4, <2>1, <2>2
<1>10. f \in Seq(L \ {c})
  BY <1>8, <1>9, SeqWithin
<1> QED
  BY <1>5, <1>7, <1>10

LEMMA MappedSeq ==
  ASSUME NEW L, NEW s \in Seq(L), NEW f, DOMAIN f = DOMAIN s,
         f = [i \in DOMAIN s |-> f[i]], NEW T, \A i \in DOMAIN s : f[i] \in T
  PROVE  f \in Seq(T)
<1>1. Len(s) \in Nat /\ DOMAIN s = 1..Len(s)
  BY LenProperties
<1>2. f \in [1..Len(s) -> T]
  BY <1>1
<1> QED
  BY <1>1, <1>2, SeqDef

LEMMA FormWithin ==
  ASSUME NEW s \in Text, NEW escaped \in SUBSET Decoded, NEW form \in FormValues(s, escaped)
  PROVE  form \in Seq(Letter \ {";", "+", "%"})
<1> DEFINE cut == IF Contains(s, ";") THEN Front(BeforeFirst(";", s)) ELSE s
           Escapes == {i \in DOMAIN cut : cut[i] = "%"}
           Read(d) == [i \in DOMAIN cut |-> IF i \in Escapes THEN d[i]
                                            ELSE IF cut[i] = "+" THEN " " ELSE cut[i]]
           Sent == Letter \ {";", "+", "%"}
<1>1. cut \in Seq(Letter \ {";"})
  <2>1. CASE Contains(s, ";")
    BY <2>1, FrontOfFirst DEF Text
  <2>2. CASE ~Contains(s, ";")
    <3>1. \A i \in 1..Len(s) : s[i] \in Letter \ {";"}
      BY <2>2, ElementOfSeq DEF Text, Contains
    <3>2. s \in Seq(Letter \ {";"})
      BY <3>1, SeqWithin DEF Text
    <3> QED
      BY <2>2, <3>2
  <2> QED
    BY <2>1, <2>2
<1>2. \/ \E d \in [Escapes -> escaped] : form = Read(d)
      \/ form = <<>>
  BY DEF FormValues
<1> HIDE DEF cut
<1>3. \A i \in DOMAIN cut : cut[i] \in Letter \ {";"}
  <2>1. DOMAIN cut = 1..Len(cut)
    BY <1>1, LenProperties
  <2> QED
    BY <1>1, <2>1, ElementOfSeq
<1>4. " " \in Sent /\ escaped \subseteq Sent
  BY DEF Letter, Char, Decoded
<1>5. CASE form = <<>>
  BY <1>5, EmptySeq
<1>6. CASE \E d \in [Escapes -> escaped] : form = Read(d)
  <2>1. PICK d \in [Escapes -> escaped] : form = Read(d)
    BY <1>6
  <2>2. DOMAIN form = DOMAIN cut /\ form = [i \in DOMAIN cut |-> form[i]]
    BY <2>1
  <2>3. \A i \in DOMAIN cut : form[i] \in Sent
    <3>1. ASSUME NEW i \in DOMAIN cut PROVE form[i] \in Sent
      <4>1. CASE i \in Escapes
        <5>1. form[i] = d[i] /\ d[i] \in escaped
          BY <2>1, <4>1
        <5> QED
          BY <1>4, <5>1
      <4>2. CASE i \notin Escapes
        <5>1. form[i] = (IF cut[i] = "+" THEN " " ELSE cut[i]) /\ cut[i] # "%"
          BY <2>1, <4>2
        <5> QED
          BY <1>3, <1>4, <5>1
      <4> QED
        BY <4>1, <4>2
    <3> QED
      BY <3>1
  <2> HIDE DEF Sent
  <2>4. form \in Seq(Sent)
    BY <1>1, <2>2, <2>3, MappedSeq
  <2> QED
    BY <2>4 DEF Sent
<1> QED
  BY <1>2, <1>5, <1>6

PlainText == Seq(Plain)

LEMMA PlainFacts ==
  /\ Plain \subseteq Letter /\ " " \in Plain /\ PlainText \subseteq Text
  /\ <<>> \in PlainText /\ <<" ", " ">> \in PlainText /\ \A c \in Plain : <<c>> \in PlainText
  /\ \A s, t \in PlainText : s \o t \in PlainText
<1>1. Plain \subseteq Letter /\ " " \in Plain
  BY DEF Plain, Letter, Char
<1>2. PlainText \subseteq Text
  BY <1>1, SeqMonotonic DEF PlainText, Text
<1>3. /\ <<>> \in PlainText /\ <<" ", " ">> \in PlainText
      /\ \A c \in Plain : <<c>> \in PlainText
  BY <1>1, EmptySeq, Tuples DEF PlainText
<1>4. \A s, t \in PlainText : s \o t \in PlainText
  BY ConcatProperties DEF PlainText
<1> QED
  BY <1>1, <1>2, <1>3, <1>4

PlainState == {r \in LineState : r.name \in PlainText /\ r.value \in PlainText}

LEMMA ReadPlain ==
  ASSUME NEW r \in PlainState, NEW c \in Plain
  PROVE  ReadLetter[r][c] \in PlainState
<1>1. ReadLetter[r][c] = ReadChar(r, c)
  BY PlainFacts, ReadType DEF PlainState
<1>2. ASSUME NEW q \in PlainState, NEW s \in PlainText PROVE Put(q, s) \in PlainState
  <2>1. q \in LineState /\ s \in Text
    BY PlainFacts DEF PlainState
  <2>2. q.value \o s \in PlainText /\ q.name \o s \in PlainText
    BY PlainFacts DEF PlainState
  <2>3. q.value \o s \in Text /\ q.name \o s \in Text
    BY <2>2, PlainFacts
  <2> QED
    BY <2>1, <2>2, <2>3 DEF Put, LineState, PlainState
<1> DEFINE q == IF r.out = "none" THEN [r EXCEPT !.out = "name"] ELSE r
           p == [q EXCEPT !.marked = FALSE]
<1>3. q \in PlainState /\ p \in PlainState
  BY DEF PlainState, LineState
<1>4. \A x \in PlainState : [x EXCEPT !.marked = TRUE] \in PlainState
                            /\ [x EXCEPT !.comment = TRUE] \in PlainState
                            /\ [x EXCEPT !.out = "value"] \in PlainState
  BY DEF PlainState, LineState
<1>5. <<c>> \in PlainText /\ <<" ", " ">> \in PlainText
  BY PlainFacts
<1> HIDE DEF q, p
<1>6. /\ Put(q, <<c>>) \in PlainState /\ Put(p, <<c>>) \in PlainState
      /\ Put(p, <<" ", " ">>) \in PlainState
  BY <1>2, <1>3, <1>5
<1>7. /\ [Put(q, <<c>>) EXCEPT !.marked = TRUE] \in PlainState
      /\ [q EXCEPT !.marked = TRUE] \in PlainState
      /\ [q EXCEPT !.comment = TRUE] \in PlainState
      /\ [q EXCEPT !.out = "value"] \in PlainState
  BY <1>3, <1>4, <1>6
<1>8. ReadChar(r, c) \in {r, Put(q, <<c>>), Put(p, <<c>>), Put(p, <<" ", " ">>),
                          [Put(q, <<c>>) EXCEPT !.marked = TRUE],
                          [q EXCEPT !.marked = TRUE], [q EXCEPT !.comment = TRUE],
                          [q EXCEPT !.out = "value"]}
  BY DEF ReadChar, p, q
<1> QED
  BY <1>1, <1>3, <1>6, <1>7, <1>8

LEMMA TrimPlain ==
  ASSUME NEW s \in PlainText
  PROVE  Trim(s) \in PlainText
<1>1. s \in Text /\ Len(s) \in Nat /\ \A i \in 1..Len(s) : s[i] \in Plain
  BY PlainFacts, ElementOfSeq, LenProperties DEF PlainText
<1>2. ASSUME NEW i \in 1..Len(s), NEW j \in 1..Len(s) PROVE SubSeq(s, i, j) \in PlainText
  <2>1. \A k \in i..j : s[k] \in Plain
    BY <1>1
  <2> QED
    BY <1>1, <2>1, SubSeqProperties DEF PlainText
<1> QED
  BY <1>1, <1>2, TrimIs, PlainFacts

Properties == SUBSET (PlainText \X PlainText)

LEMMA SetPlain ==
  ASSUME NEW props \in Properties, NEW line \in PlainText
  PROVE  LoadLine[props][line] \in Properties
<1> DEFINE q == After(ReadLetter, NewLine, line)
<1>1. NewLine \in PlainState
  BY NewLineState, PlainFacts DEF PlainState, NewLine
<1>2. q \in PlainState
  <2>1. \A p \in PlainState, i \in 1..Len(line) : ReadLetter[p][line[i]] \in PlainState
    <3>1. \A i \in 1..Len(line) : line[i] \in Plain
      BY ElementOfSeq DEF PlainText
    <3> QED
      BY <3>1, ReadPlain
  <2> QED
    BY <1>1, <2>1, AfterWithin DEF PlainText
<1>3. LoadLine[props][line] = SetProperty(props, line)
  <2>1. props \in SUBSET (Text \X Text) /\ line \in Text
    BY PlainFacts DEF Properties
  <2> QED
    BY <2>1 DEF LoadLine
<1>4. SetProperty(props, line) =
        IF q.comment THEN props
        ELSE {p \in props : p[1] # Trim(q.name)} \cup {<<Trim(q.name), Trim(q.value)>>}
  BY DEF SetProperty
<1> HIDE DEF q
<1>5. Trim(q.name) \in PlainText /\ Trim(q.value) \in PlainText
  BY <1>2, TrimPlain DEF PlainState
<1> QED
  BY <1>3, <1>4, <1>5 DEF Properties

SplitPlain == {r \in SplitState : r.line \in PlainText /\ r.all \in Seq(PlainText)}

LEMMA LinesPlain ==
  ASSUME NEW s \in Seq(Letter \ {";", "+", "%"})
  PROVE  Lines(s) \in Seq(PlainText)
<1> DEFINE start == [line |-> <<>>, all |-> <<>>]
           q == After(SplitLetter, start, s)
<1>1. start \in SplitPlain
  <2>1. <<>> \in Text /\ <<>> \in Seq(Text) /\ <<>> \in PlainText /\ <<>> \in Seq(PlainText)
    BY Letters, PlainFacts, EmptySeq
  <2> QED
    BY <2>1 DEF SplitPlain, SplitState
<1>2. ASSUME NEW r \in SplitPlain PROVE EndLine(r) \in SplitPlain
  <2>1. r \in SplitState /\ r.line \in PlainText /\ r.all \in Seq(PlainText) /\ <<>> \in PlainText
    BY PlainFacts DEF SplitPlain
  <2>2. r.line \in Text /\ r.all \in Seq(Text) /\ <<>> \in Text
    BY Letters, <2>1 DEF SplitState
  <2>3. Append(r.all, r.line) \in Seq(PlainText) /\ Append(r.all, r.line) \in Seq(Text)
    BY <2>1, <2>2, AppendProperties
  <2> QED
    BY <2>1, <2>2, <2>3 DEF EndLine, SplitPlain, SplitState
<1>3. ASSUME NEW r \in SplitPlain, NEW i \in 1..Len(s) PROVE SplitLetter[r][s[i]] \in SplitPlain
  <2>1. s[i] \in Letter \ {";", "+", "%"}
    BY ElementOfSeq
  <2>2. r \in SplitState /\ r.line \in PlainText /\ r.all \in Seq(PlainText)
    BY DEF SplitPlain
  <2>3. SplitLetter[r][s[i]] = IF s[i] = "\n" THEN EndLine(r)
                               ELSE [r EXCEPT !.line = Append(@, s[i])]
    BY <2>1, <2>2 DEF SplitLetter
  <2>4. CASE s[i] = "\n"
    BY <1>2, <2>3, <2>4
  <2>5. CASE s[i] # "\n"
    <3>1. s[i] \in Plain
      BY <2>1, <2>5 DEF Plain
    <3>2. Append(r.line, s[i]) \in PlainText
      BY <2>2, <3>1, AppendProperties DEF PlainText
    <3>3. Append(r.line, s[i]) \in Text
      BY <3>2, PlainFacts
    <3> QED
      BY <2>2, <2>3, <2>5, <3>2, <3>3 DEF SplitPlain, SplitState
  <2> QED
    BY <2>4, <2>5
<1>4. q \in SplitPlain
  <2> HIDE DEF start
  <2> QED
    BY <1>1, <1>3, AfterWithin
<1>5. Lines(s) = EndLine(q).all
  BY DEF Lines
<1> HIDE DEF q
<1> QED
  BY <1>2, <1>4, <1>5 DEF SplitPlain

\* No property that is read has a letter that the form or the lines take.
LEMMA LoadPlain ==
  ASSUME NEW s \in Text, NEW escaped \in SUBSET Decoded, NEW form \in FormValues(s, escaped)
  PROVE  Load(form) \in Properties
<1>1. Lines(form) \in Seq(PlainText)
  BY FormWithin, LinesPlain
<1>2. {} \in Properties
  BY DEF Properties
<1>3. \A p \in Properties, i \in 1..Len(Lines(form)) : LoadLine[p][Lines(form)[i]] \in Properties
  BY <1>1, ElementOfSeq, SetPlain
<1> QED
  BY <1>1, <1>2, <1>3, AfterWithin DEF Load

LEMMA LinePlain ==
  ASSUME NEW n \in PlainText, NEW v \in PlainText
  PROVE  /\ n \in Text /\ v \in Text
         /\ LineOf(n, v) \in PlainText /\ OneLine(LineOf(n, v)) /\ LineOf(n, v) # <<>>
         /\ StoreLine(n, v) = LineOf(n, v) \o <<"\n">>
         /\ StoreLine(n, v) \in Seq(Letter \ {";", "+", "%"})
<1> DEFINE Sent == Letter \ {";", "+", "%"}
<1>1. Plain \subseteq Letter /\ Plain \subseteq Sent /\ "\\" \in Plain /\ "=" \in Plain /\ "\n" \in Sent
  BY DEF Plain, Letter, Char, Special
<1>2. n \in Text /\ v \in Text
  BY PlainFacts
<1>3. Mark(n) \in Seq(Plain) /\ Mark(v) \in Seq(Plain)
  BY <1>1, MarkWithin DEF PlainText
<1>4. <<"=">> \in Seq(Plain) /\ <<"\n">> \in Seq(Sent)
  BY <1>1, Tuples
<1>5. Mark(n) \o <<"=">> \in Seq(Plain)
  BY <1>3, <1>4, ConcatProperties
<1>6. LineOf(n, v) \in Seq(Plain)
  BY <1>3, <1>5, ConcatProperties DEF LineOf
<1>7. LineOf(n, v) # <<>>
  BY <1>2, LineOfText
<1>8. OneLine(LineOf(n, v))
  <2>1. \A i \in 1..Len(LineOf(n, v)) : LineOf(n, v)[i] \in Plain
    BY <1>6, ElementOfSeq
  <2> QED
    BY <2>1 DEF OneLine, Plain
<1>9. StoreLine(n, v) = LineOf(n, v) \o <<"\n">>
  BY DEF StoreLine, LineOf
<1>10. LineOf(n, v) \in Seq(Sent)
  BY <1>1, <1>6, SeqMonotonic
<1>11. StoreLine(n, v) \in Seq(Sent)
  BY <1>4, <1>9, <1>10, ConcatProperties
<1> QED
  BY <1>2, <1>6, <1>7, <1>8, <1>9, <1>11 DEF PlainText

\* Two properties without the letters that the form and the lines take are read
\* line by line.
LEMMA LoadTwo ==
  ASSUME NEW n \in PlainText, NEW v \in PlainText, NEW k \in PlainText, NEW w \in PlainText
  PROVE  /\ \A escaped : FormValues(StoreLine(n, v) \o StoreLine(k, w), escaped) =
                           {StoreLine(n, v) \o StoreLine(k, w)}
         /\ Load(StoreLine(n, v) \o StoreLine(k, w)) =
              SetProperty(SetProperty({}, LineOf(n, v)), LineOf(k, w))
<1> DEFINE s == LineOf(n, v)
           t == LineOf(k, w)
           both == StoreLine(n, v) \o StoreLine(k, w)
           one == SetProperty({}, s)
<1>1. /\ s \in PlainText /\ OneLine(s) /\ s # <<>> /\ t \in PlainText /\ OneLine(t) /\ t # <<>>
      /\ StoreLine(n, v) = s \o <<"\n">> /\ StoreLine(k, w) = t \o <<"\n">>
  BY LinePlain
<1>2. \A escaped : FormValues(both, escaped) = {both}
  <2>1. both \in Seq(Letter \ {";", "+", "%"})
    BY LinePlain, ConcatProperties
  <2> QED
    BY <2>1, FormWhole
<1> HIDE DEF s, t
<1>3. s \in Text /\ t \in Text
  BY <1>1, PlainFacts
<1>4. Lines(both) = <<s, t>>
  BY <1>1, <1>3, TwoLines
<1> HIDE DEF both
<1>5. Load(both) = LoadLine[LoadLine[{}][s]][t]
  <2>1. Load(both) = After(LoadLine, {}, <<s, t>>)
    BY <1>4 DEF Load
  <2> QED
    BY <2>1, AfterTwo
<1>6. LoadLine[{}][s] = one
  BY <1>3 DEF LoadLine
<1>7. one \in Properties
  <2>1. {} \in Properties
    BY DEF Properties
  <2> QED
    BY <1>1, <1>6, <2>1, SetPlain
<1> HIDE DEF one
<1>8. LoadLine[one][t] = SetProperty(one, t)
  <2>1. one \in SUBSET (Text \X Text)
    BY <1>7, PlainFacts DEF Properties
  <2> QED
    BY <1>3, <2>1 DEF LoadLine
<1>9. Load(both) = SetProperty(one, t)
  BY <1>5, <1>6, <1>8
<1> QED
  BY <1>2, <1>9 DEF one, both, s, t

\* a property that is read as it was written
Travels(n, v) ==
  /\ n \in PlainText /\ v \in PlainText /\ n # <<>>
  /\ Readable(n, "name") /\ Readable(v, "value")

LEMMA BothTravel ==
  ASSUME NEW n, NEW v, NEW k, NEW w, Travels(n, v), Travels(k, w), n # k
  PROVE  Load(StoreLine(n, v) \o StoreLine(k, w)) = {<<n, v>>, <<k, w>>}
<1>1. /\ n \in PlainText /\ v \in PlainText /\ k \in PlainText /\ w \in PlainText
      /\ n \in Text /\ v \in Text /\ k \in Text /\ w \in Text
      /\ n # <<>> /\ Readable(n, "name") /\ Readable(v, "value")
      /\ k # <<>> /\ Readable(k, "name") /\ Readable(w, "value")
  BY PlainFacts DEF Travels
<1>2. SetProperty({}, LineOf(n, v)) = {p \in {} : p[1] # n} \cup {<<n, v>>}
  BY <1>1, SetRead
<1>3. SetProperty({}, LineOf(n, v)) = {<<n, v>>}
  BY <1>2
<1>4. SetProperty({<<n, v>>}, LineOf(k, w)) = {p \in {<<n, v>>} : p[1] # k} \cup {<<k, w>>}
  BY <1>1, SetRead
<1>5. {p \in {<<n, v>>} : p[1] # k} = {<<n, v>>}
  OBVIOUS
<1>6. SetProperty({<<n, v>>}, LineOf(k, w)) = {<<n, v>>, <<k, w>>}
  BY <1>4, <1>5
<1>7. Load(StoreLine(n, v) \o StoreLine(k, w)) =
        SetProperty(SetProperty({}, LineOf(n, v)), LineOf(k, w))
  BY <1>1, LoadTwo
<1> QED
  BY <1>3, <1>6, <1>7, Zenon

\* A property that arrives beside one that travels has travelled.
LEMMA SetByLine ==
  ASSUME NEW n \in PlainText, NEW v \in PlainText, n # <<>>, NEW props,
         <<n, v>> \notin props, <<n, v>> \in SetProperty(props, LineOf(n, v))
  PROVE  Travels(n, v)
<1> DEFINE q == After(ReadLetter, NewLine, LineOf(n, v))
<1>1. n \in Text /\ v \in Text
  BY PlainFacts
<1>2. <<n, v>> = <<Trim(q.name), Trim(q.value)>>
  BY SetIs
<1>3. Trim(q.name) = n /\ Trim(q.value) = v
  BY <1>2
<1>4. Readable(n, "name") /\ Readable(v, "value")
  BY <1>1, <1>3, LineReadable
<1> QED
  BY <1>4 DEF Travels

LEMMA EitherTravels ==
  ASSUME NEW n \in PlainText, NEW v \in PlainText, n # <<>>, NEW k, NEW w, Travels(k, w), n # k,
         \/ <<n, v>> \in Load(StoreLine(n, v) \o StoreLine(k, w))
         \/ <<n, v>> \in Load(StoreLine(k, w) \o StoreLine(n, v))
  PROVE  Travels(n, v)
<1>1. k \in PlainText /\ w \in PlainText /\ k \in Text /\ w \in Text
  BY PlainFacts DEF Travels
<1>2. \A props : SetProperty(props, LineOf(k, w)) = {p \in props : p[1] # k} \cup {<<k, w>>}
  BY <1>1, SetRead DEF Travels
<1>3. <<n, v>> # <<k, w>> /\ <<n, v>> \notin {<<k, w>>} /\ <<n, v>> \notin {}
  OBVIOUS
<1>4. CASE <<n, v>> \in Load(StoreLine(n, v) \o StoreLine(k, w))
  <2> DEFINE one == SetProperty({}, LineOf(n, v))
  <2>1. <<n, v>> \in SetProperty(one, LineOf(k, w))
    BY <1>1, <1>4, LoadTwo
  <2> HIDE DEF one
  <2>2. <<n, v>> \in one
    BY <1>2, <1>3, <2>1
  <2> QED
    BY <1>3, <2>2, SetByLine DEF one
<1>5. CASE <<n, v>> \in Load(StoreLine(k, w) \o StoreLine(n, v))
  <2>1. SetProperty({}, LineOf(k, w)) = {<<k, w>>}
    BY <1>2
  <2>2. Load(StoreLine(k, w) \o StoreLine(n, v)) =
          SetProperty(SetProperty({}, LineOf(k, w)), LineOf(n, v))
    BY <1>1, LoadTwo
  <2>3. <<n, v>> \in SetProperty({<<k, w>>}, LineOf(n, v))
    BY <1>5, <2>1, <2>2, Zenon
  <2> QED
    BY <1>3, <2>3, SetByLine
<1> QED
  BY <1>4, <1>5

LEMMA WireIdTravels == Travels(WireIdKey, <<WireId>>)
<1>1. "wire id" \in Plain /\ WireId \in Plain
  BY DEF Plain, Letter, Char, Special, WireId
<1>2. \A out : Readable(<<"wire id">>, out) /\ Readable(<<WireId>>, out)
  BY SingleReadable DEF WireId
<1>3. \A c \in Plain : <<c>> \in Seq(Plain) /\ <<c>> # <<>>
  BY Tuples
<1> QED
  BY <1>1, <1>2, <1>3 DEF Travels, PlainText, WireIdKey

LEMMA NameIsNotWireId ==
  ASSUME NEW n \in Seq(Char), n # <<>>
  PROVE  n # WireIdKey
<1>1. n[1] \in Char
  <2>1. 1 \in 1..Len(n)
    BY LenProperties, EmptySeq
  <2> QED
    BY <2>1, ElementOfSeq
<1>2. WireIdKey[1] = "wire id"
  BY DEF WireIdKey
<1>3. "wire id" \notin Char
  BY DEF Char, Special
<1> QED
  BY <1>1, <1>2, <1>3

\* What is without a letter in both parts is without it in the whole.
LEMMA PartsWithout ==
  ASSUME NEW S, NEW s \in Seq(S), NEW t \in Seq(S), NEW c, c \notin S
  PROVE  ~Contains(s \o t, c)
<1>1. s \o t \in Seq(S) /\ DOMAIN (s \o t) = 1..Len(s \o t)
  BY ConcatProperties, LenProperties
<1>2. \A i \in 1..Len(s \o t) : (s \o t)[i] \in S
  BY <1>1, ElementOfSeq
<1> QED
  BY <1>1, <1>2 DEF Contains

LEMMA PortableTravels ==
  ASSUME NEW n \in Seq(Char), NEW v \in Seq(Char), n # <<>>, Portable(n, v)
  PROVE  Travels(n, v)
<1>1. (\A i \in 1..Len(n) : n[i] \in Char) /\ (\A i \in 1..Len(v) : v[i] \in Char)
  BY ElementOfSeq
<1>2. \A c \in {" ", "\n", ";", "+", "%"} : ~Contains(n \o v, c)
  BY DEF Portable
<1>3. \A c \in {" ", "\n", ";", "+", "%"} :
        (\A i \in 1..Len(n) : n[i] # c) /\ (\A i \in 1..Len(v) : v[i] # c)
  BY <1>2, WithoutParts
<1>4. \A i \in 1..Len(n) : n[i] # ":"
  BY DEF Portable, Contains
<1>5. /\ \A i \in 1..Len(n) : n[i] \in Plain /\ n[i] # " "
      /\ \A i \in 1..Len(v) : v[i] \in Plain /\ v[i] # " "
  BY <1>1, <1>3 DEF Plain, Letter
<1>6. n \in Seq(Plain) /\ v \in Seq(Plain)
  BY <1>5, SeqWithin
<1> QED
  BY <1>4, <1>5, <1>6 DEF Travels, PlainText, Readable, Portable

LEMMA TravelsPortable ==
  ASSUME NEW n, NEW v, Travels(n, v)
  PROVE  Portable(n, v)
<1> DEFINE Good == Plain \ {" "}
<1>1. /\ n \in Seq(Plain) /\ v \in Seq(Plain) /\ Closed(n) /\ Closed(v)
      /\ \A i \in 1..Len(n) : n[i] # " " /\ n[i] # ":"
      /\ \A i \in 1..Len(v) : v[i] # " "
  BY DEF Travels, Readable, PlainText
<1>2. n \in Seq(Good) /\ v \in Seq(Good)
  <2>1. (\A i \in 1..Len(n) : n[i] \in Plain) /\ (\A i \in 1..Len(v) : v[i] \in Plain)
    BY <1>1, ElementOfSeq
  <2>2. (\A i \in 1..Len(n) : n[i] \in Good) /\ (\A i \in 1..Len(v) : v[i] \in Good)
    BY <1>1, <2>1
  <2> HIDE DEF Good
  <2> QED
    BY <1>1, <2>2, SeqWithin
<1>3. \A c \in {" ", "\n", ";", "+", "%"} : c \notin Good
  BY DEF Plain
<1> HIDE DEF Good
<1>4. \A c \in {" ", "\n", ";", "+", "%"} : ~Contains(n \o v, c)
  BY <1>2, <1>3, PartsWithout
<1>5. ~Contains(n, ":")
  BY <1>1 DEF Contains
<1> QED
  BY <1>1, <1>4, <1>5 DEF Portable

LEMMA StoredText ==
  ASSUME NEW n \in Text, NEW v \in Text, NEW stored \in Store(n, v)
  PROVE  stored \in Text
<1>1. "\n" \in Letter
  BY DEF Letter, Char
<1>2. ASSUME NEW k \in Text, NEW w \in Text PROVE StoreLine(k, w) \in Text
  <2>1. LineOf(k, w) \in Text
    BY LineOfText
  <2>2. StoreLine(k, w) = LineOf(k, w) \o <<"\n">>
    BY DEF StoreLine, LineOf
  <2> QED
    BY <1>1, <2>1, <2>2, OneMore
<1>3. StoreLine(n, v) \in Text /\ StoreLine(WireIdKey, <<WireId>>) \in Text
  BY <1>2, Letters
<1> QED
  BY <1>3, TextConcat DEF Store

(* A property arrives at the other node as it was described exactly if it  *)
(* is portable, whatever the lengths of its name and value, whichever side *)
(* of the wire id it is written on, and whatever the form takes for a      *)
(* percent sign and the digits behind it.                                  *)
THEOREM ArrivesExactlyIfPortable ==
  ASSUME NEW n \in Seq(Char), NEW v \in Seq(Char), n # <<>>, NEW stored \in Store(n, v),
         NEW escaped \in SUBSET Decoded, NEW form \in FormValues(stored, escaped)
  PROVE  Describe(Load(form), WireId) = {<<n, v>>, <<WireIdKey, <<WireId>>>>}
           <=> Portable(n, v)
<1> DEFINE k == WireIdKey
           w == <<WireId>>
           arrived == Load(form)
<1>1. n # k /\ Travels(k, w)
  BY NameIsNotWireId, WireIdTravels
<1>2. \/ stored = StoreLine(n, v) \o StoreLine(k, w)
      \/ stored = StoreLine(k, w) \o StoreLine(n, v)
  BY DEF Store
<1>3. Describe(arrived, WireId) = {p \in arrived : p[1] # k} \cup {<<k, w>>}
  BY DEF Describe
<1>4. n \in Text /\ v \in Text
  <2>1. Char \subseteq Letter
    BY DEF Letter
  <2> QED
    BY <2>1, SeqMonotonic DEF Text
<1> HIDE DEF w
<1>7. ASSUME n \in PlainText, v \in PlainText
      PROVE  form = stored
  <2>1. k \in PlainText /\ w \in PlainText
    BY <1>1 DEF Travels
  <2>2. FormValues(stored, escaped) = {stored}
    <3> HIDE DEF k
    <3>1. FormValues(StoreLine(n, v) \o StoreLine(k, w), escaped) =
            {StoreLine(n, v) \o StoreLine(k, w)}
      BY <1>7, <2>1, LoadTwo
    <3>2. FormValues(StoreLine(k, w) \o StoreLine(n, v), escaped) =
            {StoreLine(k, w) \o StoreLine(n, v)}
      BY <1>7, <2>1, LoadTwo
    <3> QED
      BY <1>2, <3>1, <3>2, Zenon
  <2> QED
    BY <2>2
<1>5. ASSUME Portable(n, v)
      PROVE  Describe(arrived, WireId) = {<<n, v>>, <<k, w>>}
  <2>1. Travels(n, v)
    BY <1>5, PortableTravels
  <2>2. Load(StoreLine(n, v) \o StoreLine(k, w)) = {<<n, v>>, <<k, w>>}
    BY <1>1, <2>1, BothTravel
  <2>3. Load(StoreLine(k, w) \o StoreLine(n, v)) = {<<k, w>>, <<n, v>>}
    BY <1>1, <2>1, BothTravel
  <2>4. {<<k, w>>, <<n, v>>} = {<<n, v>>, <<k, w>>}
    OBVIOUS
  <2>8. form = stored
    BY <1>7, <2>1 DEF Travels
  <2>5. arrived = {<<n, v>>, <<k, w>>}
    BY <1>2, <2>2, <2>3, <2>4, <2>8, Zenon
  <2> HIDE DEF arrived
  <2>6. {p \in {<<n, v>>, <<k, w>>} : p[1] # k} = {<<n, v>>}
    <3> HIDE DEF k
    <3> QED
      BY <1>1
  <2>7. {<<n, v>>} \cup {<<k, w>>} = {<<n, v>>, <<k, w>>}
    OBVIOUS
  <2> QED
    BY <1>3, <2>5, <2>6, <2>7
<1>6. ASSUME Describe(arrived, WireId) = {<<n, v>>, <<k, w>>}
      PROVE  Portable(n, v)
  <2>1. <<n, v>> \in arrived
    <3>1. <<n, v>> # <<k, w>>
      BY <1>1
    <3> HIDE DEF arrived, k
    <3> QED
      BY <1>3, <1>6, <3>1
  <2>2. n \in PlainText /\ v \in PlainText
    <3>1. arrived \in Properties
      BY <1>4, StoredText, LoadPlain
    <3> HIDE DEF arrived
    <3> QED
      BY <2>1, <3>1 DEF Properties
  <2>3. \/ <<n, v>> \in Load(StoreLine(n, v) \o StoreLine(k, w))
        \/ <<n, v>> \in Load(StoreLine(k, w) \o StoreLine(n, v))
    <3>1. form = stored
      BY <1>7, <2>2
    <3> QED
      BY <1>2, <2>1, <3>1, Zenon
  <2>4. Travels(n, v)
    <3> HIDE DEF k
    <3> QED
      BY <1>1, <2>2, <2>3, EitherTravels
  <2> QED
    BY <2>4, TravelsPortable
<1> QED
  BY <1>5, <1>6 DEF w

-----------------------------------------------------------------------------
(* The key, for a root path of any length.                                 *)

LEMMA BehindPrefix ==
  ASSUME NEW S, NEW r \in Seq(S), r # <<>>, NEW t \in Seq(S), t # <<>>
  PROVE  IsPrefix(r, r \o t) /\ SubSeq(r \o t, Len(r) + 1, Len(r \o t)) = t
<1> DEFINE k == r \o t
<1>1. /\ Len(r) \in Nat /\ Len(t) \in Nat /\ Len(k) = Len(r) + Len(t)
      /\ Len(r) # 0 /\ Len(t) # 0
  BY LenProperties, ConcatProperties, EmptySeq
<1>2. SubSeq(k, 1, Len(r)) = SubSeq(r, 1, Len(r))
  <2>1. 1 \in 1..Len(r) /\ Len(r) \in 1..Len(r)
    BY <1>1
  <2> QED
    BY <2>1, SubSeqOfConcat1
<1>3. SubSeq(k, Len(r) + 1, Len(k)) = SubSeq(t, 1, Len(t))
  <2>1. /\ Len(r) + 1 \in (Len(r) + 1)..(Len(r) + Len(t))
        /\ Len(r) + Len(t) \in (Len(r) + 1)..(Len(r) + Len(t))
        /\ (Len(r) + 1) - Len(r) = 1 /\ (Len(r) + Len(t)) - Len(r) = Len(t)
    BY <1>1
  <2>2. SubSeq(k, Len(r) + 1, Len(r) + Len(t)) =
          SubSeq(t, (Len(r) + 1) - Len(r), (Len(r) + Len(t)) - Len(r))
    BY <2>1, SubSeqOfConcat2
  <2> QED
    BY <1>1, <2>1, <2>2
<1>4. SubSeq(t, 1, Len(t)) = t
  BY SubSeqFull
<1>5. Len(r) <= Len(k)
  BY <1>1
<1> HIDE DEF k
<1>6. IsPrefix(r, k)
  BY <1>2, <1>5 DEF IsPrefix
<1> QED
  BY <1>3, <1>4, <1>6 DEF k

LEMMA Triple ==
  ASSUME NEW S, NEW a \in S, NEW b \in S, NEW c \in S
  PROVE  /\ <<a, b>> \in Seq(S) /\ Len(<<a, b>>) = 2 /\ <<a, b>> # <<>> /\ <<a, b>>[1] = a
         /\ <<a, b, c>> \in Seq(S) /\ Len(<<a, b, c>>) = 3 /\ <<a, b, c>> # <<>>
         /\ <<a, b, c>>[1] = a /\ \A i \in 1..3 : <<a, b, c>>[i] \in {a, b, c}
         /\ <<c>> \in Seq(S) /\ <<a, b>> \o <<c>> = <<a, b, c>>
<1> DEFINE s == <<a, b>>
           w == <<c>>
           t == <<a, b, c>>
<1>1. s \in Seq(S) /\ Len(s) = 2 /\ s[1] = a /\ s[2] = b
  OBVIOUS
<1>2. w \in Seq(S) /\ Len(w) = 1 /\ w[1] = c
  OBVIOUS
<1>3. t \in Seq(S) /\ Len(t) = 3 /\ t[1] = a /\ t[2] = b /\ t[3] = c
  OBVIOUS
<1> HIDE DEF s, w, t
<1>4. /\ s \o w \in Seq(S) /\ Len(s \o w) = Len(s) + Len(w)
      /\ \A i \in 1..Len(s) + Len(w) : (s \o w)[i] = IF i <= Len(s) THEN s[i] ELSE w[i - Len(s)]
  BY <1>1, <1>2, ConcatProperties
<1>5. Len(s \o w) = 3 /\ (s \o w)[1] = a /\ (s \o w)[2] = b /\ (s \o w)[3] = c
  BY <1>1, <1>2, <1>4
<1>6. \A i \in 1..3 : (s \o w)[i] = t[i] /\ t[i] \in {a, b, c}
  BY <1>3, <1>5
<1>7. s \o w = t
  BY <1>3, <1>4, <1>5, <1>6, SeqEqual
<1>8. s # <<>> /\ t # <<>>
  <2>1. Len(s) # 0 /\ Len(t) # 0
    BY <1>1, <1>3
  <2> QED
    BY <1>1, <1>3, <2>1, EmptySeq, Zenon
<1> QED
  BY <1>1, <1>2, <1>3, <1>6, <1>7, <1>8 DEF s, w, t

LEMMA JoinedKey ==
  ASSUME NEW S, NEW r \in Seq(S), NEW a \in S, NEW b \in S, NEW c \in S
  PROVE  (r \o <<a, b>>) \o <<c>> = r \o <<a, b, c>>
<1>1. <<a, b>> \in Seq(S) /\ <<c>> \in Seq(S) /\ <<a, b>> \o <<c>> = <<a, b, c>>
  BY Triple
<1>2. (r \o <<a, b>>) \o <<c>> = r \o (<<a, b>> \o <<c>>)
  BY <1>1, ConcatAssociative
<1> QED
  BY <1>1, <1>2, Zenon

\* a text that loses its last member and goes on with another one does not have
\* that text as a prefix
LEMMA NoPrefix ==
  ASSUME NEW S, NEW r \in Seq(S), r # <<>>, NEW t \in Seq(S), t # <<>>, r[Len(r)] # t[1]
  PROVE  ~IsPrefix(r, Front(r) \o t) /\ Front(r) \in Seq(S)
<1> DEFINE m == Len(r)
           f == SubSeq(r, 1, m - 1)
           k == f \o t
<1>1. m \in Nat /\ Len(t) \in Nat /\ m # 0 /\ Len(t) # 0 /\ \A i \in 1..m : r[i] \in S
  BY LenProperties, ElementOfSeq, EmptySeq
<1>2. f \in Seq(S) /\ Len(f) = m - 1
  <2> HIDE DEF m
  <2>1. \A i \in 1..(m - 1) : r[i] \in S
    BY <1>1
  <2>2. 1 \in Int /\ m - 1 \in Int
    BY <1>1
  <2>3. f \in Seq(S) /\ Len(f) = IF 1 <= m - 1 THEN (m - 1) - 1 + 1 ELSE 0
    BY <2>1, <2>2, SubSeqProperties
  <2> HIDE DEF f
  <2> QED
    BY <1>1, <2>3
<1>3. Front(r) = f
  BY DEF Front
<1> HIDE DEF f
<1>4. /\ k \in Seq(S) /\ Len(k) = (m - 1) + Len(t)
      /\ \A i \in 1..(m - 1) + Len(t) : k[i] = IF i <= m - 1 THEN f[i] ELSE t[i - (m - 1)]
  <2>1. /\ k \in Seq(S) /\ Len(k) = Len(f) + Len(t)
        /\ \A i \in 1..Len(f) + Len(t) : k[i] = IF i <= Len(f) THEN f[i] ELSE t[i - Len(f)]
    BY <1>2, ConcatProperties
  <2> HIDE DEF m, k
  <2> QED
    BY <1>2, <2>1
<1>5. m \in 1..(m - 1) + Len(t) /\ ~(m <= m - 1) /\ m - (m - 1) = 1
  BY <1>1
<1>6. k[m] = t[1]
  BY <1>4, <1>5
<1> HIDE DEF k
<1>7. SubSeq(r, 1, m) = r
  BY SubSeqFull
<1>8. SubSeq(k, 1, m)[m] = k[m]
  <2>1. \A i \in 1..m : k[i] \in S
    <3>1. \A i \in 1..Len(k) : k[i] \in S
      BY <1>4, ElementOfSeq
    <3> QED
      BY <1>1, <1>4, <3>1
  <2>2. m \in 1..m /\ m - 1 + 1 = m /\ 1 + m - 1 = m
    BY <1>1
  <2> QED
    BY <1>1, <2>1, <2>2, SubSeqProperties
<1>9. ~IsPrefix(r, k)
  BY <1>6, <1>7, <1>8 DEF IsPrefix
<1> QED
  BY <1>2, <1>3, <1>9 DEF k

LEMMA TwoAndThree == 3 >= 3 /\ ~(2 >= 3)
OBVIOUS

\* how the keys that r and the segments a, b and c make are taken apart
Takes(r, a, b, c) ==
  /\ Parse(r, r \o <<a, b, c>>) = <<a, b, c>>
  /\ Parse(r, r \o <<a, b>>) = <<>>
  /\ r[Len(r)] # a => /\ Parse(r, Front(r) \o <<a, b, c>>) = <<>>
                      /\ Parse(r, Front(r) \o <<a, b>>) = <<>>

LEMMA ParseFacts ==
  ASSUME NEW S, NEW r \in Seq(S), r # <<>>, NEW a \in S, NEW b \in S, NEW c \in S,
         a # "", b # "", c # ""
  PROVE  Takes(r, a, b, c)
<1> DEFINE s == <<a, b>>
           t == <<a, b, c>>
<1>1. s \in Seq(S) /\ Len(s) = 2 /\ s # <<>> /\ s[1] = a
  BY Triple
<1>2. /\ t \in Seq(S) /\ Len(t) = 3 /\ t # <<>> /\ t[1] = a /\ \A i \in 1..3 : t[i] \in {a, b, c}
  BY Triple
<1> HIDE DEF s, t
<1>3. 3 >= 3 /\ ~(2 >= 3)
  BY TwoAndThree
<1>4. Parse(r, r \o t) = t
  <2>1. IsPrefix(r, r \o t) /\ SubSeq(r \o t, Len(r) + 1, Len(r \o t)) = t
    BY <1>2, BehindPrefix, Zenon
  <2>2. SubSeq(t, 1, 3) = t
    <3>1. SubSeq(t, 1, Len(t)) = t
      BY <1>2, SubSeqFull, Zenon
    <3> QED
      BY <1>2, <3>1, Zenon
  <2>3. \A i \in 1..3 : t[i] # ""
    BY <1>2, Zenon
  <2>4. Len(t) >= 3
    BY <1>2, <1>3, Zenon
  <2> QED
    BY <2>1, <2>2, <2>3, <2>4, Zenon DEF Parse
<1>5. Parse(r, r \o s) = <<>>
  <2>1. SubSeq(r \o s, Len(r) + 1, Len(r \o s)) = s
    BY <1>1, BehindPrefix, Zenon
  <2>2. ~(Len(s) >= 3)
    BY <1>1, <1>3, Zenon
  <2> QED
    BY <2>1, <2>2, Zenon DEF Parse
<1>6. ASSUME r[Len(r)] # a
      PROVE  Parse(r, Front(r) \o t) = <<>> /\ Parse(r, Front(r) \o s) = <<>>
  <2>1. ~IsPrefix(r, Front(r) \o t) /\ ~IsPrefix(r, Front(r) \o s)
    BY <1>1, <1>2, <1>6, NoPrefix, Zenon
  <2> QED
    BY <2>1, Zenon DEF Parse
<1> QED
  BY <1>4, <1>5, <1>6, Zenon DEF Takes, s, t

(* Under a root path without a slash at its end the key of an endpoint is  *)
(* taken apart into the zone, the node and the wire; under one with a slash*)
(* it is not understood; and the key of a whole node never is.             *)
THEOREM KeyTakenApart ==
  ASSUME NEW Segment, NEW r \in Seq(Segment), r # <<>>
  PROVE  /\ Parse(r, WireKey(r)) = IF Last(r) = "" THEN <<>> ELSE <<"zone", "node", WireId>>
         /\ Parse(r, LocalNodePath(r)) = <<>>
<1>1. Last(r) = r[Len(r)]
  BY DEF Last
<1> DEFINE S == Segment \cup {"zone", "node", WireId}
<1>2. /\ "zone" \in S /\ "node" \in S /\ WireId \in S
      /\ "zone" # "" /\ "node" # "" /\ WireId # ""
  BY DEF WireId
<1>7. r \in Seq(S)
  BY SeqMonotonic
<1> HIDE DEF S
<1>8. Takes(r, "zone", "node", WireId)
  BY <1>2, <1>7, ParseFacts, Zenon
<1>3. CASE Last(r) # ""
  <2>1. LocalNodePath(r) = r \o <<"zone", "node">>
    BY <1>3, Zenon DEF LocalNodePath
  <2>2. WireKey(r) = (r \o <<"zone", "node">>) \o <<WireId>>
    BY <2>1, Zenon DEF WireKey
  <2>3. (r \o <<"zone", "node">>) \o <<WireId>> = r \o <<"zone", "node", WireId>>
    BY <1>2, <1>7, JoinedKey, Zenon
  <2>4. /\ Parse(r, r \o <<"zone", "node", WireId>>) = <<"zone", "node", WireId>>
        /\ Parse(r, r \o <<"zone", "node">>) = <<>>
    BY <1>8, Zenon DEF Takes
  <2> QED
    BY <1>3, <2>1, <2>2, <2>3, <2>4, Zenon
<1>4. CASE Last(r) = ""
  <2>1. LocalNodePath(r) = Front(r) \o <<"zone", "node">>
    BY <1>4, Zenon DEF LocalNodePath
  <2>2. WireKey(r) = (Front(r) \o <<"zone", "node">>) \o <<WireId>>
    BY <2>1, Zenon DEF WireKey
  <2>3. r[Len(r)] # "zone"
    BY <1>1, <1>2, <1>4, Zenon
  <2>4. /\ Parse(r, Front(r) \o <<"zone", "node", WireId>>) = <<>>
        /\ Parse(r, Front(r) \o <<"zone", "node">>) = <<>>
    BY <1>8, <2>3, Zenon DEF Takes
  <2>6. Front(r) \in Seq(S)
    <3>1. <<"zone", "node", WireId>> \in Seq(S) /\ <<"zone", "node", WireId>> # <<>>
          /\ <<"zone", "node", WireId>>[1] = "zone"
      BY <1>2, Triple, Zenon
    <3> QED
      BY <1>7, <2>3, <3>1, NoPrefix, Zenon
  <2>5. (Front(r) \o <<"zone", "node">>) \o <<WireId>> = Front(r) \o <<"zone", "node", WireId>>
    BY <1>2, <2>6, JoinedKey, Zenon
  <2> QED
    BY <1>4, <2>1, <2>2, <2>4, <2>5, Zenon
<1> QED
  BY <1>3, <1>4, Zenon

-----------------------------------------------------------------------------
(* The behaviour of the announcement.                                      *)

Roots == {<<"inaetics", "discovery">>, <<"inaetics", "">>}

\* what the key, the event and the description are at each stage
AnnounceInv ==
  /\ name \in Seq(Char) /\ name # <<>> /\ value \in Seq(Char)
  /\ root \in Roots
  /\ stage \in {"described", "published", "discovered", "withdrawn"}
  /\ stage = "published" =>
       key = WireKey(root) /\ \E stored \in Store(name, value) : text \in FormValues(stored, Escaped)
  /\ stage = "discovered" => event = Parse(root, WireKey(root))
  /\ stage = "withdrawn" => event = Parse(root, LocalNodePath(root))
  /\ stage \in {"discovered", "withdrawn"} /\ Last(root) # "" =>
       \E stored \in Store(name, value) : \E form \in FormValues(stored, Escaped) :
         known = Describe(Load(form), WireId)

LEMMA WordsAreTexts ==
  /\ \A n \in Name : n \in Seq(Char) /\ n # <<>>
  /\ \A v \in Value : v \in Seq(Char)
<1>1. ASSUME NEW n \in Name PROVE n \in Seq(Char) /\ n # <<>>
  <2>1. PICK m \in 1..MaxKey : n \in [1..m -> Char]
    BY DEF Name
  <2>2. m \in Nat /\ m # 0
    BY <2>1, AnnounceAssumption
  <2>3. n \in Seq(Char) /\ Len(n) = m
    BY <2>1, <2>2, SeqDef, LenProperties
  <2> QED
    BY <2>2, <2>3, EmptySeq
<1>2. ASSUME NEW v \in Value PROVE v \in Seq(Char)
  <2>1. PICK m \in 0..MaxValue : v \in [1..m -> Char]
    BY DEF Value
  <2>2. m \in Nat
    BY <2>1, AnnounceAssumption
  <2> QED
    BY <2>1, <2>2, SeqDef
<1> QED
  BY <1>1, <1>2

LEMMA RootKeys ==
  ASSUME NEW r \in Roots
  PROVE  /\ Parse(r, WireKey(r)) = IF Last(r) = "" THEN <<>> ELSE <<"zone", "node", WireId>>
         /\ Parse(r, LocalNodePath(r)) = <<>>
<1>1. \E S : r \in Seq(S) /\ r # <<>>
  <2>1. \E a, b : r = <<a, b>>
    BY Zenon DEF Roots
  <2>2. PICK a, b : r = <<a, b>>
    BY <2>1
  <2>3. <<a, b>> \in Seq({a, b}) /\ <<a, b>> # <<>>
    <3>1. a \in {a, b} /\ b \in {a, b}
      OBVIOUS
    <3> QED
      BY <3>1, Triple, Zenon
  <2> QED
    BY <2>2, <2>3, Zenon
<1> QED
  BY <1>1, KeyTakenApart

LEMMA AnnounceFirst == ASSUME AnnounceInit PROVE AnnounceInv
BY WordsAreTexts DEF AnnounceInit, AnnounceInv, Roots

LEMMA AnnounceStep ==
  ASSUME AnnounceInv, [AnnounceNext]_announceVars
  PROVE  AnnounceInv'
<1>1. CASE Publish
  <2>1. UNCHANGED <<name, value, root>> /\ stage' = "published" /\ key' = WireKey(root)
    BY <1>1 DEF Publish
  <2>2. \E stored \in Store(name, value) : text' \in FormValues(stored, Escaped)
    BY <1>1 DEF Publish
  <2> QED
    BY <2>1, <2>2 DEF AnnounceInv
<1>2. CASE Discover
  <2>1. UNCHANGED <<name, value, root>> /\ stage = "published" /\ stage' = "discovered"
    BY <1>2 DEF Discover
  <2>2. event' = Parse(root, WireKey(root))
    BY <1>2, <2>1 DEF Discover, AnnounceInv
  <2>3. Last(root) # "" =>
          \E stored \in Store(name, value) : \E form \in FormValues(stored, Escaped) :
            known' = Describe(Load(form), WireId)
    <3>1. SUFFICES ASSUME Last(root) # ""
                   PROVE  \E stored \in Store(name, value) :
                            \E form \in FormValues(stored, Escaped) :
                              known' = Describe(Load(form), WireId)
      OBVIOUS
    <3>2. event' = <<"zone", "node", WireId>>
      BY <2>2, <3>1, RootKeys DEF AnnounceInv
    <3>3. event'[3] = WireId /\ event' # <<>>
      <4>1. <<"zone", "node", WireId>>[3] = WireId /\ <<"zone", "node", WireId>> # <<>>
        OBVIOUS
      <4> QED
        BY <3>2, <4>1
    <3>4. known' = Describe(Load(text), WireId)
      BY <1>2, <3>3 DEF Discover
    <3>5. PICK stored \in Store(name, value) : text \in FormValues(stored, Escaped)
      BY <2>1 DEF AnnounceInv
    <3> QED
      BY <3>4, <3>5
  <2> QED
    BY <2>1, <2>2, <2>3 DEF AnnounceInv
<1>3. CASE Withdraw
  <2>1. /\ UNCHANGED <<name, value, root, known>> /\ stage = "discovered" /\ stage' = "withdrawn"
        /\ event' = Parse(root, LocalNodePath(root))
    BY <1>3 DEF Withdraw
  <2> QED
    BY <2>1 DEF AnnounceInv
<1>4. CASE UNCHANGED announceVars
  BY <1>4 DEF AnnounceInv, announceVars
<1> QED
  BY <1>1, <1>2, <1>3, <1>4 DEF AnnounceNext

LEMMA AnnounceInductive == AnnounceSpec => []AnnounceInv
BY AnnounceFirst, AnnounceStep, PTL DEF AnnounceSpec

(* The other node reads exactly the property that was described, if and    *)
(* only if it is portable, for all bounds on the lengths of its name and   *)
(* value (etcdWatcher_addOwnNode, wiringEndpoint_properties_load).         *)
THEOREM DescriptionArrives == AnnounceSpec => []ArrivesIfPortable
<1>1. ASSUME AnnounceInv PROVE ArrivesIfPortable
  <2>1. SUFFICES ASSUME stage \in {"discovered", "withdrawn"}, Last(root) # ""
                 PROVE  known = {<<name, value>>, <<WireIdKey, <<WireId>>>>} <=> Portable(name, value)
    BY DEF ArrivesIfPortable
  <2>6. PICK stored \in Store(name, value) :
          \E form \in FormValues(stored, Escaped) : known = Describe(Load(form), WireId)
    BY <1>1, <2>1 DEF AnnounceInv
  <2>2. PICK form \in FormValues(stored, Escaped) : known = Describe(Load(form), WireId)
    BY <2>6
  <2>3. name \in Seq(Char) /\ name # <<>> /\ value \in Seq(Char)
    BY <1>1 DEF AnnounceInv
  <2>5. Escaped \in SUBSET Decoded
    BY AnnounceAssumption
  <2>4. Describe(Load(form), WireId) = {<<name, value>>, <<WireIdKey, <<WireId>>>>}
          <=> Portable(name, value)
    BY <2>3, <2>5, ArrivesExactlyIfPortable
  <2> QED
    BY <2>2, <2>4
<1> QED
  BY <1>1, AnnounceInductive, PTL

(* The key of an endpoint is understood exactly under a root path without  *)
(* a slash at its end, and the key of the deletion never is                *)
(* (etcdWatcher_getWiringEndpointFromKey, etcdWatcher_getLocalNodePath).   *)
THEOREM KeysUnderstood == AnnounceSpec => []KeyUnderstood
<1>1. ASSUME AnnounceInv PROVE KeyUnderstood
  BY <1>1, RootKeys DEF AnnounceInv, KeyUnderstood
<1> QED
  BY <1>1, AnnounceInductive, PTL

=============================================================================
