----------------------------- MODULE EtcdWatcher -----------------------------
(***************************************************************************)
(* The etcd watcher of node discovery and the etcd store it watches.       *)
(*                                                                         *)
(* Every node publishes its wiring endpoints as keys with a time to live   *)
(* and re-sets them periodically.  A node learns the endpoints of the      *)
(* others by a blocking watch on the next index of etcd's event history,   *)
(* and by a periodic listing of all keys.  The model is one node, with its *)
(* watcher thread and its wiring endpoint listener, beside another node    *)
(* that sets, loses and deletes keys at will.                              *)
(***************************************************************************)
EXTENDS Naturals, Integers, Sequences

CONSTANTS
  Own,        \* wires of this node
  Remote,     \* wires of the other node
  MaxIndex    \* bound: length of etcd's event history

Key == Own \cup Remote

ASSUME EtcdAssumption ==
  /\ MaxIndex \in Nat
  /\ Own \cap Remote = {}

VARIABLES
  \* etcd
  log,        \* the event history; an event's position is its index
  modIndex,   \* modifiedIndex of a key, 0 when the key is not in the store
  \* the other node
  gone,       \* it has stopped and deleted its directory
  \* etcdWatcher_run
  pc,         \* where the watcher thread is; "fault" after undefined behaviour,
              \* of which nothing is said
  todo,       \* sync: keys listed and not yet fetched; refresh: own wires to set
  highest,    \* highestModified
  from,       \* the index the pending watch waits for
  discovered, \* the wires in discoveredNodes
  running,    \* watcher->running
  \* node_discovery_wiringEndpointAdded and Removed
  ownList,    \* the wires in the list of ownNode
  publish,    \* wires the added handler has still to set, under ownNodeMutex
  \* history
  missed      \* keys whose last event the watch position was moved past

etcdVars  == <<log, modIndex>>
runVars   == <<pc, todo, highest, from, discovered>>
ownVars   == <<ownList, publish>>
watchVars == <<etcdVars, gone, runVars, running, ownVars, missed>>

Live      == {k \in Key : modIndex[k] > 0}
Room(n)   == Len(log) + n <= MaxIndex

WatchInit ==
  /\ log = <<>> /\ modIndex = [k \in Key |-> 0]
  /\ gone = FALSE
  /\ pc = "list" /\ todo = {} /\ highest = 0 /\ from = 0 /\ discovered = {}
  /\ running = TRUE
  /\ ownList = {} /\ publish = {}
  /\ missed = {}

-----------------------------------------------------------------------------
(* etcd: every change of a key is an event with the next index.            *)

\* a set of one key; at the bound, the re-set of a live key is not recorded
Set(k) ==
  \/ /\ Room(2) \/ (Room(1) /\ modIndex[k] = 0)
     /\ log' = Append(log, [act |-> "set", keys |-> {k}])
     /\ modIndex' = [modIndex EXCEPT ![k] = Len(log) + 1]
  \/ /\ ~Room(2) /\ modIndex[k] > 0
     /\ UNCHANGED etcdVars

\* the time to live of a key has run out
Expire(k) ==
  /\ Room(2)
  /\ modIndex[k] > 0
  /\ log' = Append(log, [act |-> "expire", keys |-> {k}])
  /\ modIndex' = [modIndex EXCEPT ![k] = 0]
  /\ UNCHANGED <<gone, runVars, running, ownVars, missed>>

\* a recursive delete of the directory K of a node is one event
Delete(K) ==
  /\ log' = Append(log, [act |-> "delete", keys |-> K])
  /\ modIndex' = [k \in Key |-> IF k \in K THEN 0 ELSE modIndex[k]]

RemoteSet(k) ==
  /\ ~gone
  /\ Room(2)
  /\ Set(k)
  /\ UNCHANGED <<gone, runVars, running, ownVars, missed>>

\* etcdWatcher_destroy of the other node
RemoteStop ==
  /\ ~gone
  /\ Room(2)
  /\ gone' = TRUE
  /\ Delete(Remote)
  /\ UNCHANGED <<runVars, running, ownVars, missed>>

-----------------------------------------------------------------------------
(* etcdWatcher_addAlreadyExistingNodes: the keys are listed and then       *)
(* fetched one by one, in no particular order.                             *)

List ==
  /\ pc = "list"
  /\ pc' = "get"
  /\ todo' = Live
  /\ highest' = -1
  /\ UNCHANGED <<etcdVars, gone, from, discovered, running, ownVars, missed>>

\* the request fails, or nothing is there
ListFailed ==
  /\ pc = "list"
  /\ pc' = "get"
  /\ todo' = {}
  /\ highest' = -1
  /\ UNCHANGED <<etcdVars, gone, from, discovered, running, ownVars, missed>>

GetForgets(k) ==  \* mutant: the fetched node is not added
  /\ pc = "get"
  /\ k \in todo
  /\ todo' = todo \ {k}
  /\ highest' = modIndex[k]
  /\ UNCHANGED <<etcdVars, gone, pc, from, discovered, running, ownVars, missed>>

\* highestModified is the modifiedIndex of the key fetched last
Get(k) ==
  /\ pc = "get"
  /\ k \in todo \cap Live
  /\ todo' = todo \ {k}
  /\ discovered' = discovered \cup {k}
  /\ highest' = modIndex[k]
  /\ UNCHANGED <<etcdVars, gone, pc, from, running, ownVars, missed>>

\* the request fails, or the key has expired since the listing: modIndex is 0
GetFailed(k) ==
  /\ pc = "get"
  /\ k \in todo
  /\ todo' = todo \ {k}
  /\ highest' = 0
  /\ UNCHANGED <<etcdVars, gone, pc, from, discovered, running, ownVars, missed>>

SyncEnd ==
  /\ pc = "get"
  /\ todo = {}
  /\ pc' = "synced"
  /\ UNCHANGED <<etcdVars, gone, todo, highest, from, discovered, running, ownVars, missed>>

-----------------------------------------------------------------------------
(* The loop of etcdWatcher_run.                                            *)

\* Keys whose last event lies before the index i and contradicts discoveredNodes
Passed(i) ==
  {k \in Key : /\ (k \in discovered) # (k \in Live)
               /\ \A j \in i..Len(log) : k \notin log[j].keys}

\* without a modified index the watch waits for whatever happens next
WatchIssue ==
  LET i == IF highest = -1 THEN Len(log) + 1 ELSE highest + 1 IN
  /\ pc \in {"synced", "loop"}
  /\ running
  /\ pc' = "wait"
  /\ from' = i
  /\ missed' = IF pc = "synced" \/ highest = -1 THEN Passed(i) ELSE missed
  /\ UNCHANGED <<etcdVars, gone, todo, highest, discovered, running, ownVars>>

WatchIgnoresExpire ==  \* mutant: "expire" is an unexpected action
  LET e == log[from] IN
  /\ pc = "wait"
  /\ from <= Len(log)
  /\ pc' = "decide"
  /\ highest' = from
  /\ discovered' = IF e.act = "set" THEN discovered \cup e.keys ELSE discovered
  /\ UNCHANGED <<etcdVars, gone, todo, from, running, ownVars, missed>>

WatchSkipsOne ==  \* mutant: the index is advanced twice
  LET e == log[from] IN
  /\ pc = "wait"
  /\ from <= Len(log)
  /\ pc' = "decide"
  /\ highest' = from + 1
  /\ discovered' = CASE e.act = "set"    -> discovered \cup e.keys
                     [] e.act = "expire" -> discovered \ e.keys
                     [] e.act = "delete" -> discovered
  /\ UNCHANGED <<etcdVars, gone, todo, from, running, ownVars, missed>>

\* the first event at or after the index; the key of a directory has no wire
\* id, so the delete of a node's directory is not understood
WatchEvent ==
  LET e == log[from] IN
  /\ pc = "wait"
  /\ from <= Len(log)
  /\ pc' = "decide"
  /\ highest' = from
  /\ discovered' = CASE e.act = "set"    -> discovered \cup e.keys
                     [] e.act = "expire" -> discovered \ e.keys
                     [] e.act = "delete" -> discovered
  /\ UNCHANGED <<etcdVars, gone, todo, from, running, ownVars, missed>>

\* curl's time-out or a failing request
WatchFailed ==
  /\ pc = "wait"
  /\ pc' = "decide"
  /\ UNCHANGED <<etcdVars, gone, todo, highest, from, discovered, running, ownVars, missed>>

WatchAgain ==
  /\ pc = "decide"
  /\ pc' = "loop"
  /\ UNCHANGED <<etcdVars, gone, todo, highest, from, discovered, running, ownVars, missed>>

\* a quarter of the time to live has passed: etcdWatcher_addOwnNode, which
\* reads the list of ownNode without its lock ...
Refresh ==
  /\ pc = "decide"
  /\ pc' = "refresh"
  /\ todo' = ownList
  /\ UNCHANGED <<etcdVars, gone, highest, from, discovered, running, ownVars, missed>>

RefreshNothing(k) ==  \* mutant: only the first announcement of a wire is set
  /\ pc = "refresh"
  /\ k \in todo
  /\ todo' = todo \ {k}
  /\ UNCHANGED <<etcdVars, gone, pc, highest, from, discovered, running, ownVars, missed>>

\* ... so that a wire read before its removal may still be set after it
RefreshSet(k) ==
  /\ pc = "refresh"
  /\ k \in todo
  /\ todo' = todo \ {k}
  /\ Set(k)
  /\ UNCHANGED <<gone, pc, highest, from, discovered, running, ownVars, missed>>

\* ... or its description used after the admin has destroyed it
RefreshFreed(k) ==
  /\ pc = "refresh"
  /\ k \in todo \ ownList
  /\ pc' = "fault"
  /\ UNCHANGED <<etcdVars, gone, todo, highest, from, discovered, running, ownVars, missed>>

\* the request fails, or the wire has left the list since
RefreshSkip(k) ==
  /\ pc = "refresh"
  /\ k \in todo
  /\ todo' = todo \ {k}
  /\ UNCHANGED <<etcdVars, gone, pc, highest, from, discovered, running, ownVars, missed>>

Resync ==
  /\ pc = "refresh"
  /\ todo = {}
  /\ pc' = "list"
  /\ UNCHANGED <<etcdVars, gone, todo, highest, from, discovered, running, ownVars, missed>>

\* etcdWatcher_destroy: running is reset ...
Stop ==
  /\ running
  /\ running' = FALSE
  /\ UNCHANGED <<etcdVars, gone, runVars, ownVars, missed>>

\* ... the thread is joined at its next round and the own directory deleted
StopWatcher ==
  /\ pc \in {"synced", "loop"}
  /\ ~running
  /\ Room(1)
  /\ pc' = "off"
  /\ Delete(Own)
  /\ UNCHANGED <<gone, todo, highest, from, discovered, running, ownVars, missed>>

-----------------------------------------------------------------------------
(* The wiring endpoint listener, called by the WTM for the own endpoints.  *)

\* etcdWatcher_addOwnNode under the lock: all wires of the list are set
WiringEndpointAdded(k) ==
  /\ publish = {}
  /\ pc # "off"
  /\ k \notin ownList
  /\ ownList' = ownList \cup {k}
  /\ publish' = ownList \cup {k}
  /\ UNCHANGED <<etcdVars, gone, runVars, running, missed>>

PublishSet(k) ==
  /\ k \in publish
  /\ publish' = publish \ {k}
  /\ Set(k) \/ UNCHANGED etcdVars
  /\ UNCHANGED <<gone, runVars, running, ownList, missed>>

WiringEndpointRemovedUnlocked(k) ==  \* mutant: ownNodeMutex is not taken
  /\ k \in ownList
  /\ ownList' = ownList \ {k}
  /\ UNCHANGED <<etcdVars, gone, runVars, running, publish, missed>>

\* the key stays in etcd until it expires
WiringEndpointRemoved(k) ==
  /\ publish = {}
  /\ k \in ownList
  /\ ownList' = ownList \ {k}
  /\ UNCHANGED <<etcdVars, gone, runVars, running, publish, missed>>

-----------------------------------------------------------------------------

Watcher ==
  \/ List \/ ListFailed \/ SyncEnd
  \/ \E k \in Key : \/ Get(k) \/ GetFailed(k)
                   \/ RefreshSet(k) \/ RefreshFreed(k) \/ RefreshSkip(k)
  \/ WatchIssue \/ WatchEvent \/ WatchFailed \/ WatchAgain
  \/ Refresh \/ Resync \/ StopWatcher

WatchNext ==
  \/ Watcher
  \/ RemoteStop
  \/ \E k \in Key : Expire(k)
  \/ \E k \in Remote : RemoteSet(k)
  \/ /\ pc # "fault"
     /\ \/ Stop
        \/ \E k \in Own : WiringEndpointAdded(k) \/ PublishSet(k) \/ WiringEndpointRemoved(k)

WatchSpec == WatchInit /\ [][WatchNext]_watchVars

(* The thread keeps running; a quarter of the time to live passes again and *)
(* again; and etcd does not answer every request with an error.            *)
FairWatchSpec ==
  /\ WatchSpec
  /\ WF_watchVars(Watcher)
  /\ SF_watchVars(Refresh) /\ SF_watchVars(List) /\ SF_watchVars(WatchEvent)
  /\ \A k \in Key : SF_watchVars(Get(k))
  /\ \A k \in Own : SF_watchVars(RefreshSet(k))

-----------------------------------------------------------------------------
(* Properties.                                                             *)

WatchTypeOK ==
  /\ log \in Seq([act : {"set", "expire", "delete"}, keys : SUBSET Key])
  /\ Len(log) <= MaxIndex
  /\ modIndex \in [Key -> 0..MaxIndex]
  /\ gone \in BOOLEAN /\ running \in BOOLEAN
  /\ pc \in {"list", "get", "synced", "loop", "wait", "decide", "refresh", "off",
            "fault"}
  /\ todo \subseteq Key
  /\ highest \in -1..MaxIndex
  /\ from \in 0..(Len(log) + 1)
  /\ discovered \subseteq Key
  /\ ownList \subseteq Own /\ publish \subseteq ownList
  /\ missed \subseteq Key

(* A watch that has no event left to deliver has left discoveredNodes      *)
(* equal to the store, but for the keys whose last event the position was  *)
(* moved past by a sync, and for those deleted with their directory.  The  *)
(* loop itself loses, repeats and reorders nothing, wherever a sync has    *)
(* put the position back to.                                               *)
CaughtUpExact ==
  pc = "wait" /\ from = Len(log) + 1 =>
    \A k \in Key \ missed :
      \/ (k \in discovered) = (k \in Live)
      \/ \E i \in DOMAIN log : log[i].act = "delete" /\ k \in log[i].keys

(* A key that stays in etcd is discovered again and again, and a wire that *)
(* stays in the own list is in etcd again and again, although old events   *)
(* may be replayed, keys may expire and requests may fail, as long as the  *)
(* watcher runs.                                                           *)
KeptVisible ==
  LET Runs == running /\ pc # "fault" IN
  /\ \A k \in Key : <>[](modIndex[k] > 0 /\ Runs) => []<>(k \in discovered)
  /\ \A k \in Own : <>[](k \in ownList /\ Runs) => []<>(modIndex[k] > 0)
=============================================================================
