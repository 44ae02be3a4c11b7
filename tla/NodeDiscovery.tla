---------------------------- MODULE NodeDiscovery ----------------------------
(***************************************************************************)
(* Node discovery: the endpoints of other nodes and the wiring endpoint    *)
(* listeners that are told of them, over the life of the bundle.           *)
(*                                                                         *)
(* The watcher thread adds and removes wires (module EtcdWatcher says      *)
(* when); listeners come and go on other threads; the framework starts and *)
(* stops the bundle on yet another one.  discoveredNodesMutex is held for  *)
(* the whole of addNode, removeNode and the delivery to a new listener,    *)
(* which are one step each; the new listener enters listenerReferences in  *)
(* a second step, under another lock.                                      *)
(***************************************************************************)
EXTENDS Naturals

CONSTANTS
  Wire,       \* wire ids of other nodes
  Listener,   \* wiring endpoint listeners whose scope matches them
  MaxDescr,   \* bound: endpoint descriptions created in one behaviour
  None

Descr == 1..MaxDescr

ASSUME DiscoveryAssumption ==
  /\ MaxDescr \in Nat
  /\ None \notin Descr

VARIABLES
  phase,      \* how far the bundle has been started or stopped
  descr,      \* discoveredNodes: the description held for a wire
  nextD,      \* the next description etcdWatcher_getWiringEndpointFromKey creates
  freed,      \* descriptions destroyed with discoveredNodes
  lPc,        \* listener: absent, delivered or tracked (in listenerReferences)
  told,       \* descriptions a listener was told of, and not told to forget
  late        \* history: descriptions whose coming or going a listener missed

vars == <<phase, descr, nextD, freed, lPc, told, late>>

Created == 1..(nextD - 1)
Held    == {descr[w] : w \in Wire} \ {None}
In(s)   == {l \in Listener : lPc[l] = s}

Init ==
  /\ phase = "stopped"
  /\ descr = [w \in Wire |-> None] /\ nextD = 1 /\ freed = {}
  /\ lPc = [l \in Listener |-> "absent"]
  /\ told = [l \in Listener |-> {}] /\ late = [l \in Listener |-> {}]

-----------------------------------------------------------------------------
(* node_discovery_informWiringEndpointListeners: those in                  *)
(* listenerReferences are told; a listener between its two steps is not.   *)

Missed(D) ==
  late' = [l \in Listener |-> IF l \in In("delivered") THEN late[l] \cup D ELSE late[l]]

InformAdded(D) ==
  /\ told' = [l \in Listener |-> IF l \in In("tracked") THEN told[l] \cup D ELSE told[l]]
  /\ Missed(D)

InformRemoved(D) ==
  /\ told' = [l \in Listener |-> IF l \in In("tracked") THEN told[l] \ D ELSE told[l]]
  /\ Missed(D)

-----------------------------------------------------------------------------
(* The watcher thread.                                                     *)

AddNodeAgain(w) ==  \* mutant: a wire id that is already known is added again
  /\ phase = "running"
  /\ nextD <= MaxDescr
  /\ nextD' = nextD + 1
  /\ descr' = [descr EXCEPT ![w] = nextD]
  /\ InformAdded({nextD})
  /\ UNCHANGED <<phase, freed, lPc>>

AddNodeHandsBack(w) ==  \* mutant: the caller destroys what it has handed over
  /\ phase = "running"
  /\ descr[w] = None
  /\ nextD <= MaxDescr
  /\ descr' = [descr EXCEPT ![w] = nextD]
  /\ InformAdded({nextD})
  /\ UNCHANGED <<phase, nextD, freed, lPc>>

\* only a wire id that is not in the node's list is added and announced; the
\* description of a known one is dropped again
AddNode(w) ==
  /\ phase = "running"
  /\ descr[w] = None
  /\ nextD <= MaxDescr
  /\ nextD' = nextD + 1
  /\ descr' = [descr EXCEPT ![w] = nextD]
  /\ InformAdded({nextD})
  /\ UNCHANGED <<phase, freed, lPc>>

RemoveNodeSilently(w) ==  \* mutant: the description is dropped, and nobody is told
  /\ phase = "running"
  /\ descr[w] # None
  /\ descr' = [descr EXCEPT ![w] = None]
  /\ UNCHANGED <<phase, nextD, freed, lPc, told, late>>

\* the listeners get the description they were told of, not the one of the request
RemoveNode(w) ==
  /\ phase = "running"
  /\ descr[w] # None
  /\ descr' = [descr EXCEPT ![w] = None]
  /\ InformRemoved({descr[w]})
  /\ UNCHANGED <<phase, nextD, freed, lPc>>

-----------------------------------------------------------------------------
(* The wiring endpoint listener tracker.                                   *)

\* after node_discovery_stop has informed the listeners, discoveredNodes is
\* still filled and is delivered to a listener that comes now
ListenerAddedDeliver(l) ==
  /\ phase \in {"running", "joined", "informed"}
  /\ lPc[l] = "absent"
  /\ lPc' = [lPc EXCEPT ![l] = "delivered"]
  /\ told' = [told EXCEPT ![l] = @ \cup Held]
  /\ late' = [late EXCEPT ![l] = IF phase = "informed" THEN @ \cup Held ELSE @]
  /\ UNCHANGED <<phase, descr, nextD, freed>>

ListenerAddedPut(l) ==
  /\ lPc[l] = "delivered"
  /\ lPc' = [lPc EXCEPT ![l] = "tracked"]
  /\ UNCHANGED <<phase, descr, nextD, freed, told, late>>

\* the listener's bundle is gone, and what it knew with it
ListenerRemoved(l) ==
  /\ lPc[l] = "tracked"
  /\ lPc' = [lPc EXCEPT ![l] = "absent"]
  /\ told' = [told EXCEPT ![l] = {}] /\ late' = [late EXCEPT ![l] = {}]
  /\ UNCHANGED <<phase, descr, nextD, freed>>

-----------------------------------------------------------------------------
(* The bundle: start, stop in four steps, destroy.                         *)

Start ==
  /\ phase = "stopped"
  /\ phase' = "running"
  /\ UNCHANGED <<descr, nextD, freed, lPc, told, late>>

\* etcdWatcher_destroy joins the thread and frees the watcher
StopJoin ==
  /\ phase = "running"
  /\ phase' = "joined"
  /\ UNCHANGED <<descr, nextD, freed, lPc, told, late>>

StopSilently ==  \* mutant: the listeners are not informed
  /\ phase = "joined"
  /\ phase' = "informed"
  /\ UNCHANGED <<descr, nextD, freed, lPc, told, late>>

StopInform ==
  /\ phase = "joined"
  /\ phase' = "informed"
  /\ InformRemoved(Held)
  /\ UNCHANGED <<descr, nextD, freed, lPc>>

\* the tracker lets go of its listeners, which are not told anything
StopClose ==
  /\ phase = "informed"
  /\ In("delivered") = {}
  /\ phase' = "closed"
  /\ lPc' = [l \in Listener |-> "absent"]
  /\ UNCHANGED <<descr, nextD, freed, told, late>>

DestroyKeepsNodes ==  \* mutant: discoveredNodes is freed and kept
  /\ phase = "closed"
  /\ phase' = "stopped"
  /\ freed' = freed \cup Held
  /\ UNCHANGED <<descr, nextD, lPc, told, late>>

\* the own listener service is unregistered, then node_discovery_destroy
Destroy ==
  /\ phase = "closed"
  /\ phase' = "stopped"
  /\ freed' = freed \cup Held
  /\ descr' = [w \in Wire |-> None]
  /\ UNCHANGED <<nextD, lPc, told, late>>

-----------------------------------------------------------------------------

Next ==
  \/ \E w \in Wire : AddNode(w) \/ RemoveNode(w)
  \/ \E l \in Listener :
       ListenerAddedDeliver(l) \/ ListenerAddedPut(l) \/ ListenerRemoved(l)
  \/ Start \/ StopJoin \/ StopInform \/ StopClose \/ Destroy

Spec == Init /\ [][Next]_vars

-----------------------------------------------------------------------------
(* Properties.                                                             *)

TypeOK ==
  /\ phase \in {"stopped", "running", "joined", "informed", "closed"}
  /\ descr \in [Wire -> Created \cup {None}]
  /\ nextD \in 1..(MaxDescr + 1)
  /\ freed \subseteq Created
  /\ lPc \in [Listener -> {"absent", "delivered", "tracked"}]
  /\ told \in [Listener -> SUBSET Created] /\ late \in [Listener -> SUBSET Created]

(* No description in discoveredNodes has been destroyed, and none is held  *)
(* for two wires: what listeners are given and later asked to forget is    *)
(* alive and theirs alone, over any number of restarts of the bundle.      *)
HeldAlive ==
  /\ Held \cap freed = {}
  /\ \A v, w \in Wire : descr[v] # None /\ descr[v] = descr[w] => v = w

(* A tracked listener knows exactly the descriptions in discoveredNodes,   *)
(* and holds no destroyed one, but for those that came or went between the *)
(* two steps of its registration, or that it was given after the stop had  *)
(* informed the others.                                                    *)
ListenersExact ==
  \A l \in Listener :
    /\ phase \in {"running", "joined"} /\ l \in In("tracked") =>
         \A d \in Descr \ late[l] : d \in told[l] <=> d \in Held
    /\ told[l] \cap freed \subseteq late[l]

(* What is discovered is alive, and the listeners know exactly that.       *)
DescriptionsExact == HeldAlive /\ ListenersExact
=============================================================================
