------------------------------ MODULE WtmImport ------------------------------
(***************************************************************************)
(* The import side of the wiring topology manager (WTM).                   *)
(*                                                                         *)
(* Node discovery announces and withdraws remote wiring endpoints, the     *)
(* remote service admin (RSA) asks for services to be imported, and wiring *)
(* admins (WA) come and go.  An endpoint is imported by every admin of its *)
(* configuration; a request without a usable endpoint waits.  The bundle   *)
(* of the WTM starts and stops in the steps of its activator, with all of  *)
(* this going on around it.                                                *)
(*                                                                         *)
(* importedWiringEndpointsLock is held by a handler from its first to its  *)
(* last access, so a handler is one step; waList is changed under another  *)
(* lock, in steps of its own, and read once per handler.                   *)
(***************************************************************************)
EXTENDS Naturals, Sequences, FiniteSets, Functions

CONSTANTS
  Request,     \* imports the RSA asks for
  Unnamed,     \* the requests without requested.service, as wtmAdded of the RSA makes them
  Endpoint,    \* remote wiring endpoint descriptions
  WA,          \* wiring admin instances; a restarted bundle is another one
  Matches,     \* the endpoints whose properties satisfy a request
  ConfigOf     \* the wiring configuration of an endpoint or of an admin

ASSUME ImportAssumption ==
  /\ Unnamed \subseteq Request
  /\ Matches \in [Request -> SUBSET Endpoint]
  /\ Endpoint \cup WA \subseteq DOMAIN ConfigOf
  /\ IsFiniteSet(Endpoint)

VARIABLES
  phase,       \* how far the bundle has been started or stopped, see below
  waList,      \* wiring_topology_manager.waList, in the order of arrival
  waPc,        \* where the tracker callbacks of a wiring admin have got to
  known,       \* the keys of importedWiringEndpoints
  imp,         \* how often an admin is in the list stored for an endpoint
  waiting,     \* waitingForImport
  send,        \* wiringSendRegistrations: endpoints with a send service
  leaked,      \* endpoints whose send registration a hashMap_put replaced
  told,        \* what the RSA was told: <<endpoint, request>>
  asked,       \* history: imports requested
  dropped,     \* history: imports withdrawn again
  late,        \* history: imports <<w, e>> of an admin that was handled as removed
  early,       \* history: imports <<w, e>> between the two steps of waAdded
  fault        \* undefined behaviour reached; nothing is said of what follows

vars == <<phase, waList, waPc, known, imp, waiting, send, leaked, told, asked,
          dropped, late, early, fault>>

LastWA        == waList[Len(waList)]
\* arrayList_removeElement of an admin that is in the list
Without(s, w) ==
  LET i == CHOOSE j \in DOMAIN s : s[j] = w
  IN  [k \in 1..(Len(s) - 1) |-> s[IF k < i THEN k ELSE k + 1]]
\* wiringTopologyManager_checkWiringAdminForImportWiringEndpoint: an admin
\* imports the endpoints of its configuration, and no other
Same(w, e)    == ConfigOf[w] = ConfigOf[e]
NoList        == [w \in WA |-> 0]
Importers(e)  == {w \in WA : imp[e][w] > 0}

\* The listener and the service of the WTM are registered, then its trackers
\* are opened, the listeners' before the admins'; the stop closes the trackers
\* in the same order and then unregisters both.
Listening == phase \in {"listening", "serving", "telling", "running", "deaf", "closing"}
Serving   == phase \in {"serving", "telling", "running", "deaf", "closing", "unlistened"}
Telling   == phase \in {"telling", "running"}

\* notifyListenersWiringEndpointAdded, to the listeners that are tracked
Tell(x)   == told' = IF Telling THEN told \cup x ELSE told

Init ==
  /\ phase = "created"
  /\ waList = <<>> /\ waPc = [w \in WA |-> "new"]
  /\ known = {} /\ imp = [e \in Endpoint |-> NoList]
  /\ waiting = <<>>
  /\ send = [w \in WA |-> {}] /\ leaked = [w \in WA |-> {}]
  /\ told = {}
  /\ asked = {} /\ dropped = {} /\ late = {} /\ early = {}
  /\ fault = "none"

-----------------------------------------------------------------------------
(* wiringTopologyManager_checkWiringEndpointForImportService, for the      *)
(* endpoints K and the admin lists I.                                      *)

NewImportsAgain(r, K, I) ==  \* mutant: the list is not asked whether it contains the admin
  {x \in Range(waList) \X (K \cap Matches[r]) : Same(x[1], x[2])}

\* every listed admin of the configuration that is not in the list imports
NewImports(r, K, I) ==
  {x \in Range(waList) \X (K \cap Matches[r]) :
     I[x[2]][x[1]] = 0 /\ Same(x[1], x[2])}

\* the status is the one of the admin looked at last
Usable(r, K, I) ==
  {e \in K \cap Matches[r] :
     waList # <<>> /\ (I[e][LastWA] > 0 \/ Same(LastWA, e))}

Added(I, N) ==
  [e \in Endpoint |-> [w \in WA |-> I[e][w] + (IF <<w, e>> \in N THEN 1 ELSE 0)]]

\* the admins in N import their endpoints, given the lists I and send tables S
Import(N, I, S) ==
  /\ imp' = Added(I, N)
  /\ send' = [w \in WA |-> S[w] \cup {e \in Endpoint : <<w, e>> \in N}]
  /\ leaked' = [w \in WA |-> leaked[w] \cup {e \in S[w] : <<w, e>> \in N}]
  /\ late' = late \cup {x \in N : waPc[x[1]] = "cleaned"}
  /\ early' = early \cup {x \in N : waPc'[x[1]] = "listed"}

\* the admins in N stop importing: each takes the endpoint out of its tables
StopImport(N) ==
  send' = [w \in WA |-> {e \in send[w] : <<w, e>> \notin N}]

\* one of them has no registration for its endpoint, and unregisters NULL
Unregistered(N) == \E x \in N : x[2] \notin send[x[1]]

ImportersOf(E) == {x \in WA \X E : imp[x[2]][x[1]] > 0}

SurvivorsAll(K, I) ==  \* mutant: the whole list is cleared once a request is served
  IF \E r \in Range(waiting) : Usable(r, K, I) # {} THEN <<>> ELSE waiting

SurvivorsNone(K, I) ==  \* mutant: a served request stays in the list
  waiting

\* The requests left by wiringTopologyManager_checkWaitingForImportServices:
\* from the last to the first, arrayList_remove is called with the index of a
\* request once per endpoint usable for it
Survivors(K, I) ==
  LET left[i \in 1..(Len(waiting) + 1)] ==
        IF i > Len(waiting) THEN waiting
        ELSE SubSeq(left[i + 1], 1, i - 1)
             \o SubSeq(left[i + 1], i + Cardinality(Usable(waiting[i], K, I)),
                       Len(left[i + 1]))
  IN  left[1]

\* checkWaitingForImportServices, after the admins in N have been added to I.
\* What a request waits for is written into the properties of the endpoint; for
\* a request without requested.service this is a null string.
CheckWaiting(K, I, N, S) ==
  LET W  == Range(waiting)
      I1 == Added(I, N)
  IN  /\ waiting' = Survivors(K, I1)
      /\ Tell({x \in K \X W : x[1] \in Usable(x[2], K, I1)})
      /\ Import(N \cup UNION {NewImports(r, K, I1) : r \in W}, I, S)
      /\ fault' = IF \E r \in W \cap Unnamed : Usable(r, K, I1) # {}
                  THEN "null service" ELSE "none"

-----------------------------------------------------------------------------
(* Node discovery: wiringTopologyManager_WiringEndpointAdded and Removed.  *)

WiringEndpointAdded(e) ==
  /\ fault = "none" /\ Listening
  /\ known' = known \cup {e}
  /\ UNCHANGED <<phase, waList, waPc, asked, dropped>>
  /\ CheckWaiting(known \cup {e}, imp, {}, send)

WiringEndpointRemovedSilently(e) ==  \* mutant: the listeners are not told
  /\ fault = "none" /\ Listening
  /\ known' = known \ {e}
  /\ imp' = [imp EXCEPT ![e] = NoList]
  /\ StopImport(ImportersOf({e}))
  /\ UNCHANGED <<phase, waList, waPc, waiting, leaked, late, early, told, asked,
                 dropped, fault>>

\* Every admin in the list removes its import, once per occurrence.  A freed
\* admin, or a second removal of one registration, is undefined behaviour.
WiringEndpointRemoved(e) ==
  /\ fault = "none" /\ Listening
  /\ known' = known \ {e}
  /\ imp' = [imp EXCEPT ![e] = NoList]
  /\ StopImport(ImportersOf({e}))
  /\ told' = IF Telling THEN {x \in told : x[1] # e} ELSE told
  /\ fault' = IF \E w \in Importers(e) : waPc[w] = "gone" THEN "freed admin"
              ELSE IF \/ Unregistered(ImportersOf({e}))
                      \/ \E w \in Importers(e) : imp[e][w] > 1
              THEN "null registration" ELSE "none"
  /\ UNCHANGED <<phase, waList, waPc, waiting, leaked, late, early, asked, dropped>>

-----------------------------------------------------------------------------
(* The RSA: wiringTopologyManager_importWiringEndpoint and its inverse.    *)

ImportWithoutService(r) ==  \* mutant: told before requested.service is set
  LET U == Usable(r, known, imp) IN
  /\ fault = "none" /\ Serving
  /\ r \notin asked
  /\ asked' = asked \cup {r}
  /\ Tell(U \X {"unset"})
  /\ waiting' = IF U = {} THEN Append(waiting, r) ELSE waiting
  /\ UNCHANGED <<phase, waList, waPc, known, dropped, fault>>
  /\ Import(NewImports(r, known, imp), imp, send)

\* who does not name a service is not told
ImportWiringEndpoint(r) ==
  LET U == Usable(r, known, imp) IN
  /\ fault = "none" /\ Serving
  /\ r \notin asked
  /\ asked' = asked \cup {r}
  /\ Tell(U \X ({r} \ Unnamed))
  /\ waiting' = IF U = {} THEN Append(waiting, r) ELSE waiting
  /\ UNCHANGED <<phase, waList, waPc, known, dropped, fault>>
  /\ Import(NewImports(r, known, imp), imp, send)

RemoveImportedKeepsSending(r) ==  \* mutant: the lists are emptied, the admins not told
  /\ fault = "none" /\ Serving
  /\ r \in asked \ dropped
  /\ dropped' = dropped \cup {r}
  /\ imp' = [e \in Endpoint |-> IF e \in known \cap Matches[r] THEN NoList ELSE imp[e]]
  /\ UNCHANGED <<phase, waList, waPc, known, waiting, send, leaked, late, early,
                 told, asked, fault>>

\* Every admin of every matching endpoint stops importing.  The loop removes
\* from the list it counts along: a second occurrence is read past its end.
RemoveImportedWiringEndpoint(r) ==
  LET M     == known \cap Matches[r]
      Two(e) == \E w, v \in Importers(e) : w # v \/ imp[e][w] > 1
  IN
  /\ fault = "none" /\ Serving
  /\ r \in asked \ dropped
  /\ dropped' = dropped \cup {r}
  /\ imp' = [e \in Endpoint |-> IF e \in M THEN NoList ELSE imp[e]]
  /\ StopImport(ImportersOf(M))
  /\ fault' = IF \E e \in M : \E w \in Importers(e) : waPc[w] = "gone" THEN "freed admin"
              ELSE IF \E e \in M : Two(e) THEN "null admin"
              ELSE IF Unregistered(ImportersOf(M)) THEN "null registration" ELSE "none"
  /\ UNCHANGED <<phase, waList, waPc, known, waiting, leaked, late, early, told, asked>>

-----------------------------------------------------------------------------
(* Wiring admins: waAdded and waRemoved of the tracker.                    *)

WaAddedListEarly(w) ==  \* mutant: the admins are tracked before the listeners
  /\ fault = "none" /\ phase \in {"serving", "telling", "running", "deaf"}
  /\ waPc[w] = "new"
  /\ waPc' = [waPc EXCEPT ![w] = "listed"]
  /\ waList' = Append(waList, w)
  /\ UNCHANGED <<phase, known, imp, waiting, send, leaked, late, early, told, asked,
                 dropped, fault>>

WaAddedList(w) ==
  /\ fault = "none" /\ phase \in {"running", "deaf"}
  /\ waPc[w] = "new"
  /\ waPc' = [waPc EXCEPT ![w] = "listed"]
  /\ waList' = Append(waList, w)
  /\ UNCHANGED <<phase, known, imp, waiting, send, leaked, late, early, told, asked,
                 dropped, fault>>

\* the new admin imports every endpoint of its configuration, in its list or not
WaAddedImport(w) ==
  /\ fault = "none"
  /\ waPc[w] = "listed"
  /\ waPc' = [waPc EXCEPT ![w] = "tracked"]
  /\ CheckWaiting(known, imp, {w} \X {e \in known : Same(w, e)}, send)
  /\ UNCHANGED <<phase, waList, known, asked, dropped>>

WaRemovedKeepsSending(w) ==  \* mutant: the admin is taken off the lists, and not told
  /\ fault = "none"
  /\ waPc[w] = "tracked"
  /\ waPc' = [waPc EXCEPT ![w] = "cleaned"]
  /\ imp' = [e \in Endpoint |-> IF e \in known THEN [imp[e] EXCEPT ![w] = 1] ELSE imp[e]]
  /\ UNCHANGED <<phase, waList, known, waiting, send, leaked, late, early, told,
                 asked, dropped, fault>>

\* the leaving admin is removed from the list of an endpoint, and then added
\* to the list of every endpoint
WaRemovedImport(w) ==
  /\ fault = "none"
  /\ waPc[w] = "tracked"
  /\ waPc' = [waPc EXCEPT ![w] = "cleaned"]
  /\ imp' = [e \in Endpoint |->
               IF e \in known /\ imp[e][w] = 0 THEN [imp[e] EXCEPT ![w] = 1] ELSE imp[e]]
  /\ StopImport({w} \X {e \in known : imp[e][w] > 0})
  /\ fault' = IF Unregistered({w} \X {e \in known : imp[e][w] > 0})
              THEN "null registration" ELSE "none"
  /\ UNCHANGED <<phase, waList, known, waiting, leaked, late, early, told, asked,
                 dropped>>

\* only now, in another critical section, the admin leaves waList; it is gone,
\* or runs on if its removal comes from the close of the tracker
WaRemovedList(w) ==
  /\ fault = "none"
  /\ waPc[w] = "cleaned"
  /\ \E pc \in {"gone"} \cup (IF phase = "closing" THEN {"released"} ELSE {}) :
       waPc' = [waPc EXCEPT ![w] = pc]
  /\ waList' = Without(waList, w)
  /\ UNCHANGED <<phase, known, imp, waiting, send, leaked, late, early, told, asked,
                 dropped, fault>>

-----------------------------------------------------------------------------
(* bundleActivator_start, stop and destroy.                                *)

Goes(from, to) ==
  /\ fault = "none" /\ phase = from /\ phase' = to
  /\ UNCHANGED <<waList, waPc, known, imp, waiting, send, leaked, late, early, told,
                 asked, dropped, fault>>

StartListening == Goes("created", "listening")
StartServing   == Goes("listening", "serving")

\* the listeners are tracked before the admins: "otherwise we miss the
\* endpoint info from the added wiring admins"
StartTelling   == Goes("serving", "telling")
StartTracking  == Goes("telling", "running")

\* the listener tracker is closed first: from now on nobody is told
StopTelling == Goes("running", "deaf")

\* the close of the admin tracker removes every admin that is tracked ...
StopTracking == Goes("deaf", "closing")

\* ... and when it is done the listener and the service are unregistered
StopListening ==
  /\ \A w \in WA : waPc[w] \notin {"listed", "tracked", "cleaned"}
  /\ Goes("closing", "unlistened")

StopServing == Goes("unlistened", "stopped")

\* wiringTopologyManager_destroy: the lists and maps are freed as they are
Destroy == Goes("stopped", "destroyed")

-----------------------------------------------------------------------------

Next ==
  \/ StartListening \/ StartServing \/ StartTelling \/ StartTracking
  \/ StopTelling \/ StopTracking \/ StopListening \/ StopServing \/ Destroy
  \/ \E e \in Endpoint : WiringEndpointAdded(e) \/ WiringEndpointRemoved(e)
  \/ \E r \in Request : ImportWiringEndpoint(r) \/ RemoveImportedWiringEndpoint(r)
  \/ \E w \in WA :
       WaAddedList(w) \/ WaAddedImport(w) \/ WaRemovedImport(w) \/ WaRemovedList(w)

Spec == Init /\ [][Next]_vars

-----------------------------------------------------------------------------
(* Properties.                                                             *)

TypeOK ==
  /\ phase \in {"created", "listening", "serving", "telling", "running", "deaf",
                "closing", "unlistened", "stopped", "destroyed"}
  /\ waList \in Seq(WA)
  /\ waPc \in [WA -> {"new", "listed", "tracked", "cleaned", "gone", "released"}]
  /\ known \subseteq Endpoint
  /\ imp \in [Endpoint -> [WA -> Nat]]
  /\ waiting \in Seq(Request)
  /\ send \in [WA -> SUBSET Endpoint] /\ leaked \in [WA -> SUBSET Endpoint]
  /\ told \subseteq Endpoint \X Request
  /\ asked \subseteq Request /\ dropped \subseteq asked
  /\ late \subseteq WA \X Endpoint /\ early \subseteq WA \X Endpoint
  /\ fault \in {"none", "freed admin", "null admin", "null registration", "null service"}

(* While an admin runs, its list entries and its send services agree, and  *)
(* the race of waAdded with a request or an announcement that already uses *)
(* the new admin lists it at most twice for an endpoint.                   *)
ListedExact ==
  /\ fault = "none" =>
       \A w \in WA : waPc[w] \in {"new", "listed", "tracked"} =>
         send[w] = {e \in known : imp[e][w] > 0}
  /\ \A e \in Endpoint, w \in WA : imp[e][w] <= 2

(* Until the stop, whose first step closes the listener tracker, the RSA   *)
(* never keeps a wire of an endpoint the WTM has withdrawn, however        *)
(* announcements, requests and admins interleave; and a request that waits *)
(* was not served before.  With admins of one configuration only, it waits *)
(* beside a matching endpoint only until a listed admin is handled: no     *)
(* wake-up is lost.                                                        *)
RequestsExact ==
  /\ Telling => \A x \in told : x[1] \in known
  /\ \A r \in Range(waiting) :
       /\ \A e \in known : <<e, r>> \notin told
       /\ (\A w \in WA, e \in Endpoint : Same(w, e)) /\ known \cap Matches[r] # {} =>
            \A w \in WA : waPc[w] # "tracked"

(* A send service is lost, its registration replaced by a hashMap_put,     *)
(* only by that race: in the step that lets an added admin import.  A      *)
(* request leaves waitingForImport without a wire of its own only in a     *)
(* step that serves another request with two endpoints: arrayList_remove   *)
(* is called once for each.                                                *)
LostOnlyByRace ==
  [][/\ leaked' # leaked => \E w \in WA : waPc[w] = "listed" /\ waPc'[w] = "tracked"
     /\ \A r \in Range(waiting) \ Range(waiting') :
          phase \notin {"deaf", "closing", "unlistened", "stopped", "destroyed"} =>
          \/ \E e \in Endpoint : <<e, r>> \in told'
          \/ \E q \in Range(waiting) : \E d, e \in Endpoint :
               d # e /\ {<<d, q>>, <<e, q>>} \subseteq told']_vars

(* Of an admin that was handled as removed, because it leaves or because   *)
(* the WTM stops, two kinds of send services stay registered: what a       *)
(* request or an announcement imported before it left waList, and the      *)
(* registration that waAdded replaced, of an endpoint imported before the  *)
(* admin was told of the known ones.  That is all the stop of the WTM      *)
(* leaves behind in the admins that run on.                                *)
StopClean ==
  \A w \in WA : waPc[w] \in {"cleaned", "gone", "released"} =>
    /\ \A e \in send[w] : <<w, e>> \in late
    /\ \A e \in leaked[w] : <<w, e>> \in early
=============================================================================
