# TLA+ models of node-wiring-c

node-wiring-c is a set of Celix (OSGi in C) bundles that connect the services
of several nodes.  A service that is to be used remotely gets a *wire*: an
endpoint opened by a wiring admin on the node of the service, announced to the
other nodes through etcd, and imported by a wiring admin there.  Most of the code
is callbacks: service trackers, a watcher thread, the worker threads of a web
server and the framework's own start and stop run against each other, and what
holds the system together is a dozen mutexes and the order in which the bundles
tell each other things.  That is what the modules here are about.

The repository has no tests and one document, its README (how to build and
start the nodes).  Every definition is translated from the C source; comments in the
source are used only where a run compares them with the code.

## 1. Inventory

| component | state | operations | used by |
|---|---|---|---|
| **wiring topology manager** (`wiring_topology_manager`) | `waList`, `exportedWiringEndpoints` (properties → admin → endpoint), `importedWiringEndpoints` (endpoint → admins), `waitingForExport`, `waitingForImport`, `listenerList` | export, removeExported, import, removeImported; waAdded, waRemoved; listenerAdded, listenerRemoved; WiringEndpointAdded, Removed | RSA and echo server (requests), node discovery (announcements), framework (trackers) |
| **wiring admin** (`wiring_admin`) | the web server `ctx`, a tracker and a list of receive services per exported wire, a send service per imported one | exportWiringEndpoint, removeExported, import, removeImported; wiringReceiveAdded, Removed; the HTTP callback; send; stop, destroy | WTM, RSA, civetweb workers, framework |
| **node discovery: etcd watcher** | the index it watches from, the position of the thread, the own wire list | run: sync, watch, refresh; addOwnNode; destroy | its thread; WTM (own endpoints); etcd and the other nodes |
| **node discovery: endpoints and listeners** | `discoveredNodes`, `listenerReferences`, `ownNode` | addNode, removeNode, listener added and removed, start, stop, destroy | watcher thread, framework |
| **node discovery: reader and writer** | none | text form of an endpoint, written and read | watcher |
| **remote service admin** (`remote_service_admin_inaetics`, with the shared `remote_service_admin`) | exported and imported services, receive services, send services, proxy factories | export, import, their removal, announcement callbacks, receive, send | topology manager of Celix, WTM, wiring admin |
| **wiring_common: descriptions** | none | create, destroy, equality of endpoint descriptions; ids | all |
| **wiring_common: civetweb** | a ring of sockets, a master thread, worker threads, one connection per worker | start, stop; accept, produce, consume; read a request, call back, write | wiring admin |
| **echo_server** | example client of the WTM | two shell commands | user |

How they interact.  The WTM calls wiring admins and wiring endpoint listeners
through their services, with its own locks held; the listeners are node discovery
(which publishes the endpoint in etcd) and the remote service admin (which
learns which wire serves which service).  Node discovery calls listeners for the
endpoints of other nodes; the WTM is one of them, and imports.  The remote service
admin calls the WTM for every service it exports or imports and is told the
result through the listener call, often on the same thread.  Nothing is persistent
but etcd, whose keys expire.

The locks, in the order in which they are taken: `discoveredNodes` → node list →
`listenerReferences` of node discovery → `importedWiringEndpointsLock` of the WTM →
`waListLock`, or `listenerListLock` → the locks of the remote service admin and of
the own node; and `exportedWiringEndpointsLock` of the WTM → `waListLock`, the lock
of the wiring admin, or `listenerListLock` → the same.  The remote service admin
also calls the WTM with its own locks held (`wtmAdded`), which closes a cycle: a WTM that
was running before may be calling back meanwhile (`Early` in `RsaExport` and `RsaImport`).

What is hard here, and what each component has to get right:

* **WTM, export.**  Requests find no admin and wait; admins arrive in two steps
  (listed, then handled) and leave in three (stop, endpoints, list).  No request may
  be lost in between, no listener may be left with a destroyed endpoint, no open
  endpoint may be forgotten.
* **WTM, import.**  The same for announcements, requests and admins in every order,
  with the lists of importing admins and the admins' own send tables in step.
* **etcd watcher.**  A watch on an event history, a listing that is not atomic, keys
  that expire and requests that fail: what is discovered must follow the store.
* **node discovery, listeners.**  A listener is given what is known and
  entered in the references under two different locks; the bundle restarts.
* **wiring admin.**  A web server shared by endpoints, stopped with a lock held
  that its workers want.
* **remote service admin, export.**  Callbacks into code that holds locks, registrations
  that are closed and used again, a map read by HTTP workers without its lock.
* **remote service admin, import.**  Several imports share the factory of an interface;
  the map lock is released around the calls of the WTM in one place and not in another; a
  proxy sends over a service that its wiring admin may take away.
* **civetweb.**  A ring whose two indices grow and wrap, three condition variables, and a
  stop that has to find every thread wherever it is.
* **a remote call.**  Two locks are held across the network, bodies come in pieces, either
  side may give up or stop in the middle, and a service may call back.
* **reader and writer.**  Three text formats on top of each other, each with its own special
  characters.

`PROJECT.json` lists the hazards one by one, at their lines, with the properties that
cover them.

## 2. The modules

| module | models | proofs |
|---|---|---|
| `WtmExport` | export side of the WTM, listener tracker, export half of the admin tracker | `WtmExportProofs` |
| `WtmImport` | import side of the WTM, import half of the admin tracker, send tables of the admins, start and stop of the bundle | `WtmImportProofs` |
| `EtcdWatcher` | watcher thread, own wires, the etcd store and another node | `NodeDiscoveryProofs` |
| `NodeDiscovery` | discovered endpoints, listeners, the life of the bundle | `NodeDiscoveryProofs` |
| `WiringAdmin` | exported endpoints, web server, HTTP callback, start, stop and destruction | `WiringAdminProofs` |
| `RsaExport` | export side of the remote service admin: exports, announcements, receive services, trackers, requests, stop | `RsaExportProofs` |
| `RsaImport` | import side: imports, factories, proxies, WTMs, send services, start and stop of the bundle | `RsaImportProofs` |
| `Civetweb` | threads of the web server: master, workers, ring, `mg_start` and `mg_stop` | `CivetwebProofs` |
| `ServerPool` | abstract: what the pool of threads promises; `Civetweb` implements it | `CivetwebProofs` |
| `WireCall` | composition: a remote call through both remote service admins, the wiring admin's client and callback, and a connection of the web server | `WireCallProofs` |
| `RemoteCall` | abstract: what a remote call promises; `WireCall` implements it | `WireCallProofs` |
| `EndpointText` | the text and the key of an endpoint, how they are made and read, as pure operators | `NodeDiscoveryProofs` |
| `Announcement` | an endpoint on its way from one node to another, over these operators | `NodeDiscoveryProofs` |

`MC<module>` gives each its model values.  Conventions: variables and actions have
the names of the code's fields and functions; a mutex that is held over several
steps is a variable, one held inside a single handler is the atomicity of the action;
variables under "history" are written and never read by actions; `fault` records
undefined behaviour (use of a freed object, an out-of-range list access), after which
nothing is claimed and no action is enabled.  Definitions marked `mutant` are plausible
mistakes in the definition that follows them: each breaks the property it is listed
with in `PROJECT.json`, which shows the property depends on the code.

### WtmExport

An endpoint is a number, given in the order of creation, so a destroyed one is never created
again.  `key` and `wire` are the two levels of `exportedWiringEndpoints`: the C map is keyed
by the properties object of the first service and compared by value, so an entry is a class
in `Props` with the service that made it. `exportedWiringEndpointsLock` is the variable
`lock`: a request or a removal needs it free and is one step; `waAdded` and `waRemoved` hold
it over one step per entry. A request ends in re-use of a wire (`ReuseWire`), in waiting
(`WaitForWA`) or in a new wire (`NewWire`), which tries the listed admins in any order,
until one has an endpoint.  `Flaky` admins may fail, `Capable` says which admins match a
property class.  `waRemoved` announces the removal (`WaRemovedNotify`), then has the admin
destroy the endpoint; the admin leaves `waList` in a step of its own, after the lock is
released.  An export in between stores an endpoint of an admin that is gone; its removal
calls the freed admin, which is the `fault` of this module.  A listener is listed, then
given the endpoints.

### WtmImport

Every handler holds `importedWiringEndpointsLock` from its first to its last access and
is one step.  `imp[e][w]` counts how often an admin is in the list of an endpoint,
because `waAdded` adds without looking; `send` is the admin's own table of
registrations and `leaked` the registrations a `hashMap_put` has replaced.
`Survivors` is the code's loop over `waitingForImport`, which removes a request by index
once per endpoint usable for it.  `Usable` keeps the code's rule that the status of an
endpoint is that of the admin looked at last.  `ConfigOf` lets admins differ; the run
uses one configuration, as the HTTP admin is the only one in the repository.

`phase` is the life of the bundle in the steps of `wtm_activator.c`: the listener and the
service are registered, the listener tracker is opened, then that of the admins; the stop
closes the two trackers in the same order and unregisters last.  Announcements, requests and
admins go on around it, each as long as what it comes through is there.  An admin whose
removal comes from the close runs on (`released`) or goes too (`gone`).  On the export side
the close of a tracker is the removal of each of its services, which `WtmExport` has as
actions in any order.  `late` remembers the imports by an admin that has been handled as
removed and is still in `waList`, `early` those by an admin that `waAdded` has listed and
not told of the known endpoints yet.  `Unnamed` requests are those of the remote service
admin's `wtmAdded`, without `requested.service`: an endpoint that is there gets its wire
from them and nobody is told (`wtm.c:540`); when such a request waited, its NULL is written
into the endpoint's properties (`wtm.c:129`), a fault.

### EtcdWatcher

`log` is etcd's event history; a position in it is a modifiedIndex.  A key is set, expires,
or is deleted with the directory of its node (one event, with a key that has no wire id).
The thread's `pc` follows `etcdWatcher_run`: list, get one by one (no order), watch,
decide, refresh (own wires are set again, then a full sync). `highest` is `highestModified`
with all its values: -1 at the start of a sync, 0 after a failed request, the index of the
key fetched last otherwise.  `publish` is the own node's lock: the added handler sets the
keys one by one while it holds it.  The refresh walks the own list without that lock: a wire
removed meanwhile may be set once more (`RefreshSet`), or its description is read when it is
freed (`RefreshFreed`), which ends in `pc = "fault"`.

### NodeDiscovery

A description is a number, fresh for every `addNode`.  `phase` is how far the bundle has
been started or stopped, in the order of the activator: join and free the watcher, inform
the listeners, close the tracker, destroy.  `late` remembers the descriptions a listener
could not be told of because it was between the two steps of its registration, or was
given after the stop had informed the others.

### WiringAdmin

`lock` may be freed by anyone who unlocks it (a normal mutex of glibc, which does not check
its owner), because the HTTP callback unlocks it for requests that are not a POST without
having locked it.  `closing` says which server a thread waits for in `mg_stop`, `at` which
server a worker's request came in on.  `orphan`, `late` and `stray` remember the three ways
to lose a server: an export whose tracker did not open, an export after the stop, a broken
lock.  `Stop` closes the trackers, each of which takes its receive service off the list;
what is listed meanwhile is cleared when `mg_stop` has returned (`MgStopReturn`), so the
receive service of an export that a broken lock lets in between is lost.  The remote service
admin changes the lists without the lock: while a request walks over them (`"walking"`, from
the start of the walk to the call of the service) that is a fault.

### RsaExport

A service is in `exported` with its registrations (`RegsOf`); `lock` is
`exportedServicesLock`, held over several steps by `wtmAdded` and by an announcement that
tells the endpoint listeners.  `sPc` follows `exportService`: install the registrations, put
the service in the map, copy the list of WTMs, ask each.  A WTM answers with
`AddWiringEndpoint` on its own thread; the same wire may be announced again, as the WTM
announces the wire of an entry at every request for it.  A WTM that starts after the remote
service admin has nothing to say within `wtmAdded`, as it opens its trackers after it has
registered its service.  One that was running (`Early`) announces from the start, and when
it answers a request of `wtmAdded`, which holds the lock it needs, both are `"stuck"`
(`WtmAnswers`): a deadlock, on one thread or on two, which is a state of the model and no
step leads out of.  `Refused` wires may get no receive service (`AddWithoutReceive`), and
their services are `mute`.  `exportedWires` is searched by pointers into descriptions that
may be freed (`AddFreedWire`).  The stray unlock of `listenerListLock` at `:1132` changes
nothing here: what that lock protects elsewhere is one step, and a change of the list during
the walk is a fault anyway.  `StopTracking` is a helper of `Close` and `RemoveStop`, because
closing a tracker calls `endpointRemoved`, which takes the lock.  Walks over the map without
the lock (`ListenerTell`, between `ReceiveStart` and `ReceiveEnd`) and over the listeners
are steps, and a change of what is walked is a `fault`; so is the use of something freed and
a comparison with the wire id of a registration that has none.  An interface has one
endpoint service.  The races of two WTMs in `wiringReceiveServices`, which no lock protects,
are left out: each of its two users is one step.  `ahead` remembers the registrations whose
endpoint service went before the service was in the map.

The stop follows `remoteServiceAdmin_stop`: the registrations are collected under the lock
(`StopCollect`) and stopped one by one after its release (`StopOne`), so that a withdrawal in
between stops one of them twice (fault "freed tracker").  The trackers are never
closed and the listener is unregistered last; `UseAfterStop` is what a callback then does
to the freed admin.

### RsaImport

`imported` holds the keys of `importedServices`, `factory` the interfaces with a factory
that is not freed, `regs` how often an import is in its factory's list: the factory is freed
when the list gets empty, and `Drop` is that bookkeeping.  `bundle` is the proxy bundle,
whose stop takes the proxies with it.  `lock` is `importedServicesLock`: `importService` has
it from `ImportBegin`, but not during `ImportCall`, in which a WTM is asked; `wtmAdded` has
it from `WtmAddedLock` to `WtmAddedUnlock`, with the calls.  A WTM calls the listener with
its own lock held, so `adding` and `removing` say which WTM is inside a call (`Busy`); one
that was running first (`Early`) may be from the moment the listener is registered, and
`wtmAdded` waits for it with `importedServicesLock`.  On the thread of `wtmAdded` itself
nothing is announced: the request has no `requested.service` (`wtm.c:540`).  The WTM removes
requests by index (`wtm.c:126`), so an announcement may make it forget others that wait for
another wire (`forgotten`, and `lost` remembers them).  `sending` is a thread in `send`,
with `sendServicesLock`.  What the code forgets is kept in variables of their own: `stray`
(a proxy replaced by a `hashMap_put` stays registered), `fell` (proxies are not made again
after a restart of their bundle), `untracked` (closed while no factory was tracked: the
entry stays and leads to a freed description).

### Civetweb and ServerPool

`mg_start` ignores whether the master was created (`master = "never"`), and fails when a
worker was not.  Every access to the ring is under `thread_mutex`, which is held over more
than one step only between a worker's test of the condition and its wait (`aboutToWait`), so
`MutexFree` stands for the mutex.  The one exception is the broadcast of the stop, which is
sent without the mutex: `Broadcast` has no `MutexFree`, and `missed` remembers whom it did
not reach. `sq_head`, `sq_tail` and the array are as in the code, with the wrap.
`SignalWorker` wakes any one sleeper, as a condition variable may.

`ServerPool` has no threads and no indices: connections come in, wait in a queue, are taken
in order, each by one worker, and one may be lost only once the stop has begun.  The
refinement mapping reads the queue from the ring (`Waiting`) and the state from the stop
flag and `mg_stop`. `ImplementsPool` is the property that every step of `Civetweb` is one of
the pool or none.

### WireCall and RemoteCall

A request is a head and `Body` units, an answer a head and up to `MaxReply` units; `sent`,
`data_len`, `consumed` and `written` are the counters of the code in these units, so that
pieces may end anywhere and part of the body may be in the buffer with the head.  `sendLock`
and `exportLock` are the two mutexes that are held across the network.  A `Stop` needs
`exportLock` and holds it until every worker of the node has ended (`StopReturns`), as both
callers of `mg_stop` do: it meets a worker inside the callback only where the lock was
released under it (`CutOff`), and a worker that waits for the lock waits with it for ever.
A socket that is in the ring at that moment, or was just taken from it, is `"dropped"`:
nobody closes it.  `BeginNested` lets a service call another one: the calls form a circle
when two nodes call each other.  The client may give up at any moment of an exchange
(`Timeout`), the server may stop (`Stop`), after which reads and writes end where they are.
`Other` requests, those of a browser, are no calls: the callback releases the lock it has
not taken (`disturbed`) and hands them back; the server answers 404.

`RemoteCall` is a call as the two ends see it, without locks, pieces or connections: it is
made (`Invoke`, or `Nest` by a service), served (`Serve`), answered and returned, and a
server may be stopped (`Cut`).  Nothing in it is ever repeated, which is what a retry in the
client, a second connection or a callback that goes on to the receive services of another
wire would break.  It keeps what the code does promise and no more: a caller that has given
up may be served later (`Serve` has no upper bound), hearing nothing counts as success
(`MayGet`), and what a stop cuts off may be part of an answer.  The mapping reads a call as
returned when its client is done, a service as running while the connection is in it or in a
call it makes, and `Got(c)` from what `send` returns.

### EndpointText and Announcement

A text is a sequence of characters, of which those are told apart that the writer, the
reader or the form treat differently.  `Store`, `FormValue` and `Load` are the three
conversions, each a loop over the characters (`After`, a recursive function over the places
of a text).  The form decodes `%XX`; `"%"` stands for a percent sign with the digits behind
it, if there are two, and `FormValues` gives every text that may come out, one for each
character an escape may say (`Escaped`), or the empty text, for a value that etcd refuses.
`" "` stands for a blank and a tab, which the reader treats alike. `WireKey`,
`LocalNodePath` and `Parse` are the two ways from a root path to a key and back.  The three
steps of `Announcement` (`Publish`, `Discover`, `Withdraw`) put them together.

The definitions of `NodeDiscovery`, `EtcdWatcher` and `Announcement` have different names
(`Spec`, `WatchSpec`, `AnnounceSpec`; `TypeOK`, `WatchTypeOK`), so that one module can speak
of all three.

### What is external

The trackers, lists, maps and mutexes of Celix, libcurl, pthreads and etcd are modelled by
what the code relies on: `hashMap_put` keeps the key and replaces the value;
`arrayList_remove` past the end returns NULL; a map of descriptions is keyed by identity,
because `wiringEndpointDescription_equals` answers 0 for equal ids, which the map takes for
different; `mg_stop`, in `WiringAdmin`, waits for all workers (`Civetweb` is about how it
does); closing a tracker waits for the callbacks in flight; service properties never change
while the service is registered, so that `modified` callbacks do not fire.

## 3. The runs

| run | instance | states | shows |
|---|---|---|---|
| `wtm_export` | 3 services in 2 classes, 2 admins (one may fail, one cannot carry the second class), 1 listener, 7 endpoints | 2 050 910 | what the map holds is open and alive and what is open is stored; listeners know exactly that; no lost request |
| `wtm_export_live` | 2 services, 1 class, 2 admins, 4 endpoints | 117 239 | a waiting service is served once a capable, reliable admin arrives, unless a freed admin is called |
| `wtm_import` | 3 requests (1 without a service, 1 for a wire that never comes), 2 endpoints, 2 admins, symmetric | 2 962 913 | importer lists, send tables and what the RSA was told stay in step; a request or a registration is lost only by the two races named, from the start of the bundle on; its stop leaves no send service but those imported too late and those replaced by `waAdded` |
| `etcd_watcher` | 1 own wire, 1 of the other node, 4 events | 107 205 | the loop loses and reorders nothing and never waits beyond the next index; keys that last are discovered, own wires published, again and again |
| `node_discovery` | 2 wires, 2 listeners, 3 descriptions | 115 740 | nothing destroyed is held; listeners know exactly what is discovered, but for the two known gaps |
| `wiring_admin` | 2 workers, POST and GET, 3 wires, 2 servers | 672 238 | servers and lists follow the endpoints; the lock is released, unless its holder waits in `mg_stop` |
| `wiring_admin_stop` | 1 worker, 1 wire, 1 server | | violated: `mg_stop` and a request wait for each other |
| `rsa_export` | 1 service with 1 interface, 2 WTMs (1 running first), 2 wires (1 may get no receive service), 1 listener, 1 web server thread | 809 556 | every WTM is asked for every exported service; receive services are those of the wires in use; listeners know the current wire; a withdrawn or dead service is no longer exported |
| `rsa_import` | 2 imports of 1 interface over 1 wire, 2 WTMs (1 running first), 1 send service, 1 caller | 1 980 166 | no entry leads to a freed factory, no proxy without an entry; no import lost; no cycle of locks but that of `wtmAdded`; no send over a service that is gone |
| `civet_pool` | 3 workers, a ring of 2, 6 connections | 105 720 | the threads implement `ServerPool`; nothing is left when the context is freed; every connection is taken; `mg_stop` returns, but for four failures |
| `wire_call` | 2 nodes, 3 calls (1 from an application, 2 nested), 1 request that is no call, 3 of the 4 at most, a body of 2, a server that stops | 331 220 | what is taken for an answer is the answer; a service runs alone; the code implements `RemoteCall`; every call ends, but for what a stop leaves behind |
| `announcement` | names of 1 or 2 and values of up to 3 of 10 characters, escapes that say one of 3, 2 root paths | 3 656 122 | a property arrives exactly when it is portable; a key is understood exactly when stated |

*Bounds.*  The races are between at most three parties: a request, an admin coming or going,
and another request, listener or admin.  Two admins give one that leaves while another
arrives; two services of one class give re-use and replacement in the map, a third one gives
a second entry, so that the loops of the admin callbacks have more than one step.  Seven
endpoints let every service be exported at both admins and once more after a removal.  Of
the three import requests two match both endpoints, and one of these names no service; the
third matches none, which is what a request looks like when the index removal takes it
behind another one without a wire of its own.  The two endpoints are alike and so are the
two admins, so the run treats each pair as symmetric; it checks no liveness.  Four events
let a key be set, expire and be set again around a listing of two keys and the watch after
it; at the bound the re-set of a live key is not recorded and the rest of the behaviour goes
on for ever. Three descriptions let a wire come, go and come again beside another, across a
restart.  Three wires allow the last endpoint to go and the first one to come again, with a
second server.  Two WTMs give one whose announcements arrive while the other is handled, two
wires a service that moves from one to the other while the first is withdrawn; a second
interface or a second service makes millions of states more and adds no party to a race, and
the proofs of that module's invariants speak of any number of both. Two imports of one interface
share a factory, over one wire that both WTMs may bring.  With one wire no request waits for
another one, so `forgotten` is always empty in the run, and with one send service none
replaces another: for both, the proofs speak of any number.  In both modules of the remote
service admin one of the two WTMs was running first, so that one is new and one early.  With
three workers and a ring of two the ring is full while all workers serve, the indices wrap
more than once, and the broadcast reaches one worker, passes one that is about to wait and
finds one leaving; six connections are one more than ring and workers hold.  A body of two
units and a buffer of two let the body come with the head or behind it, whole, in two pieces
or in part.  Three calls are the least for a circle of nested calls that comes back to its
first node.  Values of three characters hold a marked character with a neighbour on either
side, and the reader looks no further than its last character and the run of backslashes
before it.  An escape may say an ordinary character or one of two that divide a line or a
text; the theorem lets it say any but those that are marked in the form. Where a bound is
reached, the action that would exceed it is disabled; no property depends on the behaviour
stopping there, and the liveness runs check only requests that the bound lets be served.

*Deadlock* is checked in `node_discovery`.  Elsewhere a behaviour may end: the node has
stopped (`etcd_watcher`), the admin has been destroyed (`wiring_admin`), the server has been
freed (`civet_pool`), all calls are made (`wire_call`), the endpoint is withdrawn
(`announcement`), or undefined behaviour has been reached (`wtm_export`, `wtm_export_live`,
`wtm_import`, `rsa_export`, `rsa_import`).  That nobody waits for ever is there stated by
`LockReleased`, `StopReturns`, `CallsEnd` and `NoLockCycle`.

*Fairness.*  In `WtmExport` the admin callbacks of the WTM run to their end: they wait for a
mutex only, which every holder releases.  No request, removal or registration is ever forced
to happen.  In `EtcdWatcher` the thread is weakly fair; strong fairness of `Refresh`,
`List`, `WatchEvent`, `Get` and `RefreshSet` says that a quarter of the time to live passes
again and again and that etcd does not fail every request.  Nothing is assumed of expiry, of
the other node or of the stop.  In `WiringAdmin` a request that is being answered goes on
and `mg_stop` notices idle workers; no request has to arrive.  In `Civetweb` every thread
keeps running and every handler returns; nobody has to connect, to stop the server, or to
fail.  In `WireCall` something that can run does run, a return of `mg_stop` included; no
step of a call is ever repeated, so this is fair to every call, and the time-out comes at
the latest when nothing else can.  Nobody has to call, to stop a server or to nest a call.

## 4. What the models say about the code

One comment of the source is refuted by a run of kind "violation": `civetweb.h:228-230`
says that `mg_stop` blocks until all threads are stopped; called with
`exportedWiringEndpointLock` held (`wiring_admin_impl.c:453` and `:224`) it waits for a
thread that waits for the lock, and never returns.

The properties of the passing runs carry exceptions, each of which names a failure of the
code; the exception is part of the statement, and says that nothing else goes wrong.

* `WiresExact`: slots of the map that a `hashMap_put` overwrites (`wtm_wadmin_tracker.c:59`,
  `:87`).  It speaks of admins that run: an endpoint of one that is gone may stay in the map
  (`:183`).
* `ListenersExact` of the WTM: endpoints destroyed by `removeExportedWiringEndpoint`, of
  which nobody is told (`wtm.c:399`).
* `ListedExact`, `LostOnlyByRace`: an admin that imports an endpoint twice, and requests
  removed by index (`wtm_wadmin_tracker.c:105`, `wtm.c:126`).  They speak of running admins,
  because `waRemoved` puts the leaving admin in the list of every endpoint
  (`wtm_wadmin_tracker.c:176`, a block copied from `waAdded`), from where it is called after
  it was freed.  A request that is withdrawn before it was imported stays in
  `waitingForImport` (`wtm.c:571`).
* `WaitingServed`: a removal may call an admin that was freed (`wtm.c:418`), which ends
  everything.
* `RequestsExact`, `StopClean`: the stop of the WTM closes the listener tracker first
  (`wtm_activator.c:137`), so the remote service admin keeps the wires that the second close
  removes; a request or an announcement that comes while an admin is still in `waList` but
  has been handled (`wtm_wadmin_tracker.c:183`) leaves it a send service that nobody
  removes; and a registration that `waAdded` has replaced stays registered (`:105`).
* `CaughtUpExact`: events that a full sync passes over, and the wires of a node that has
  stopped: it deletes its directory in one call, whose key the others do not understand
  (`etcd_watcher.c:386`, `:196`, and `KeyUnderstood`), and the full sync only adds.
* `DescriptionsExact`: registration in two steps (`node_discovery.c:463`), and the order of
  the stop (`node_discovery_activator.c:128`), which also frees the watcher while the own
  listener is still registered.
* `ServerExact`, `ReceiveAlone`: orphaned servers, and the lock that a request which is not
  a POST releases without holding it (`wiring_admin_impl.c:298`).
* `ListedExact` of the wiring admin: after such a request an export may run while the stop
  waits for the server, and the stop then clears its receive service
  (`wiring_admin_impl.c:224-234`).
* `AnnouncedExact`: a wire whose receive service could not be registered
  (`remote_service_admin_impl.c:298`), of which the registrations keep the id.
* `NoLockCycle`: the calls of `wtmAdded` with a lock held
  (`remote_service_admin_impl.c:1266`), when the WTM was running before and another one has
  had the admin's service published.  The same call on the export side (`:1315`) is
  `"stuck"` in `RsaExport`.
* `StaleOnlyEarly`: an endpoint service that goes while `exportService` runs
  (`export_registration_impl.c:153`).
* `NoLostImport`, `EntriesExact`: a new WTM is asked without `requested.service`
  (`remote_service_admin_impl.c:1257`), proxies of a restarted bundle are not made again, an
  import that is closed while no factory is tracked stays in the map, and a request is
  forgotten by the WTM behind another one (`wtm.c:126`).
* `StopReturns`: a master that was never made (`civetweb.c:10266`, whose result nobody looks
  at, so that `:10056` waits for ever), the broadcast of the stop without the mutex
  (`:9926`), the master that waits for room when every worker is on its way out (`:9774`),
  and the join of a worker that was never made (`:9938`).
* `CallsEnd`: a stop, which holds the lock of the callback, and a request that waits for it,
  wait for each other (`wiring_admin_impl.c:453`, `:224`, `:255`); a socket in the ring at
  the stop is never closed (`civetweb.c:9660`, `:9777`).  The callers return by the time-out
  of libcurl.
* `ContentTrue`: the result of `mg_read` is not looked at (`wiring_admin_impl.c:259`), so a
  service may be given memory that was never written; the answer has no length (`:284`), so
  one that is cut short looks complete (a stop cuts one only after a stray release of the
  lock it holds); without a status line the code 0 is returned, which is the code of success
  (`:560`).
* `ArrivesIfPortable`: blanks and tabs inside a text are doubled, some backslashes dropped,
  line ends, `;`, `+`, percent signs and a colon in the name not protected at all
  (`wiring_endpoint_writer.c:43`, `etcd.c:229`).

Undefined behaviour that the models reach and stop at (`fault`): the admin of the remote
services is freed while its trackers and its listener live
(`remote_service_admin_activator.c:150`), a factory that several imports share is freed once
for each at the stop, the wire id of a service that has none is compared
(`remote_service_admin_impl.c:378`, also when a remote wire is withdrawn), the ids of
withdrawn wires are compared after they were freed (`:266`), a wiring admin that is gone is
called (`wtm.c:418`, `:591`), the description of an own wire is read after it was freed
(`etcd_watcher.c:158`), maps are changed while they are walked.

## 5. The proofs

Eight modules prove theorems `Spec => []P`, for every value of the constants:

| module | properties proved | assumed |
|---|---|---|
| `WtmExportProofs` | `TypeOK`, `WiresExact`, `ListenersExact`, `NoLostExport` | `ExportAssumption` |
| `WtmImportProofs` | `TypeOK`, `ListedExact`, `RequestsExact`, `StopClean`, `LostOnlyByRace` | `ImportAssumption` |
| `NodeDiscoveryProofs` | `TypeOK`, `DescriptionsExact` | `DiscoveryAssumption` |
| `NodeDiscoveryProofs`, of `EtcdWatcher` | `WatchTypeOK`, `CaughtUpExact` | `EtcdAssumption` |
| `NodeDiscoveryProofs`, of `Announcement` | `ArrivesIfPortable`, `KeyUnderstood` | `AnnounceAssumption` |
| `WiringAdminProofs` | `TypeOK`, `ListedExact`, `ServerExact` | `WiringAdminAssumption` |
| `RsaExportProofs` | `TypeOK`, `NoLostRequest`, `AnnouncedExact`, `StaleOnlyEarly` | `RsaExportAssumption` |
| `RsaImportProofs` | `TypeOK`, `EntriesExact`, `NoLostImport`, `NoLockCycle`, `SendAlive` | `RsaImportAssumption` |
| `CivetwebProofs` | `TypeOK`, `FreedMeansAlone`, `ImplementsPool` | `PoolAssumption` |
| `WireCallProofs` | `TypeOK`, `ContentTrue`, `ReceiveAlone`, `ImplementsCall` | `CallAssumption` |

`LostOnlyByRace` is an action property, `ImplementsPool` and `ImplementsCall` are
refinements; the others are invariants.

The assumptions give the types of the constants and say that values such as `None` are
different from the others, that two nodes have no wire in common (their ids are UUIDs), and
that a pool, a ring, a body, a buffer or the name of a property is not of size zero.  Two
say more.  `ImportAssumption` wants finitely many endpoints, because the code removes a
waiting request as often as endpoints are usable for it; and `RsaImportAssumption` wants
finitely many imports and WTMs, which are different things, because a factory counts the
imports it is given.  Both hold of anything a program can have in its lists. `WtmImport`
assumes nothing of the configurations: the proofs hold for admins that differ, too.

In each module `IInv` is the inductive invariant, a lemma per action or per part shows that
`[Next]_vars` keeps it, `Inductive` states `Spec => []IInv`, and the theorems follow from it.

### WtmExportProofs

Two of the properties are also stated by their halves (`StoredWiresAlive`, `OpenWiresStored`;
`SettledListenersComplete`, `NoDanglingKnowledge`).

None of these is inductive as it stands.  `IInv` has seven parts:

* `StateTypeOK`, the types of the state (`TypeOK` adds the kinds of `fault`, of which there
  is one: `FaultKnown`);
* `LockInv`: the holder of the lock is where its `pc` says, and the loops have work only
  while it is held, which gives mutual exclusion of the callbacks;
* `FreshInv`: every endpoint mentioned anywhere is older than `nextEp` and carries a
  service, so a new one is in no set yet;
* `StoreInv`: slots of the map, the endpoint being closed and the destroyed ones
  are disjoint, and the slots are distinct, so that closing one endpoint cannot destroy
  another that is stored;
* `HeardInv`: a settled listener has heard of every stored endpoint, and of none
  that is being closed or destroyed, unless it was withdrawn;
* `WaitInv`: a waiting request has been tried at every tracked admin, and at an
  admin in its second loop unless it is still in `retry`.  This is where the lost wake-up
  would be: an admin that is only listed is not mentioned, and `waList = {}` in
  `WaitForWA` excludes every later stage;
* `OpenInv`: an endpoint open at an admin that has not been stopped is stored or was
  overwritten.

There is one lemma per action, with one step per part of the invariant it can disturb; lemmas
on `WiresOf`, `Wires` and the announcements turn the set operators into pointwise facts.

### WtmImportProofs

`SendInv` says that an admin that has not been handled as removed has a send service for
exactly the known endpoints whose lists it is in, while `fault` is `"none"`.  It needs
`CountInv`: an endpoint that is not known has an empty list, so one that is announced again
starts from nothing, and so does an admin that is not listed yet.  `CountInv` gives the
bound of two as well: an admin that is only `"listed"` is in each list at most once, its
second loop adds it once more, and after that only an admin that is in no list is added.
`ListInv` says `waList` has no repetitions, so `Without` takes an admin out of it entirely
(`WithoutRange`).  Of `StopClean`, the half about what was imported too late (`SentClean`)
is inductive with these; the half about the replaced registrations needs `EarlyInv`, that
whatever an admin imports before `waAdded` has told it of the known endpoints is in `early`,
because only that can be imported twice.

`RequestsExact` and `LostOnlyByRace` rest on `RInv`, which adds five parts to `IInv`:

* `TypeOK`, whose hard conjunct is `waiting \in Seq(Request)`;
* `PhaseInv`: nobody was told of anything and no admin is listed before their trackers were
  opened, which is why a request cannot leave the list unseen in the start of the bundle;
* `WaitInv`: a request that waits was asked for, and one that was served does not wait;
* `LateInv`: an admin that was handled as removed has a send service only for an endpoint
  whose list it is in.  Without it an announcement could, as far as `IInv` can tell, replace
  a registration of such an admin, and `LostOnlyByRace` would not follow;
* `RequestsExact` itself.

What `checkWaitingForImportServices` leaves of a list of any length is `SurvivorsAre`:
requests without a usable endpoint, and a request that has left had one, or another one had
two.  It is an induction over the places of the list, from the last to the first.  The
library's rules of induction are not usable here (they take an operator as a parameter);
`SetInduction` derives the rule for a *set* of naturals from their well-foundedness,
`LoopExists` uses it to show that the recursive function has a value at all, and
`SurvivorsAre` to carry its claim along the loop, one `Cut` at a time.

### NodeDiscoveryProofs

`HeldInv` makes descriptions held for different wires different, so that destroying one
frees no other.  `ToldInv` follows a listener through its registration: from the step that
gives it the descriptions to its removal it knows what is held except for `late`, and once
the stop has informed the listeners none knows anything but that.  Only with its phases,
which say when nothing is announced any more, is the second half of `ListenersExact`
inductive.  `DescriptionsExact` is the two together, and the theorems state each of them,
too.

The module proves about `EtcdWatcher`, too, the other half of node discovery.
`CaughtUpExact` speaks of a watch that has no event left, so `WatcherInv` says what holds
before that, at any place in the history (`PlaceInv`): a key that is not as it was
discovered has an event at the index of the watch or later, or went with its directory, or
was `missed`.  The step that consumes an event needs `LastInv`, that the last event of a key
tells whether the key is in the store; and the steps between two watches need `IndexInv`,
that the index of a watch is the one after `highestModified` unless there is none.
Everything others do is one step to this argument: `Grows`, an event is added, and it is
the last one of its keys (`GrowsKeeps`).

The largest part is about texts, and goes beyond the bounds of the run:
`ArrivesExactlyIfPortable` is the equivalence for names and values of *any* length, and
`DescriptionArrives` is `ArrivesIfPortable` as an invariant, by `AnnounceInv`, which says
what key, text, event and description are at each stage. What a loop makes of a text is the
end of a path (`AfterPath`), along which a claim is carried by `Upto`, an induction over the
numbers up to the length of the text that rests, like the one of `WtmImportProofs`, on their
well-foundedness.  `AfterConcat` takes a loop over a text apart into loops over its parts,
`AfterMark` one over a marked text into steps over the letters before they were marked.
With these:

* *A portable property arrives* (`PortableTravels`).  `Kept` is what the reader has put out
  of a part read so far, which is all of it but for a last backslash; `NextLetter` and
  `PrefixLetter` keep that up to the end, where `Closed` says there is no last backslash to
  lose.
* *What arrives was portable* (`TravelsPortable`) has three reasons.  Line ends, `;`, `+`
  and `%` cannot come out of the form and the lines at all, whatever an escape is read for
  (`FormWithin`, `LinesPlain`, `LoadPlain`).  Blanks are put out twice, so that a text with
  one would have become longer (`Stretched`, `LineStretched`). And the reader never gains a
  letter that is not blank (`LetterWeight`, `PartWeight`), so if all of them arrive, none
  was lost, neither a backslash nor the colon that ends a name (`LineWeight`).
* The wire id travels beside the property, as the first or the second of the two lines
  (`LoadTwo`, `BothTravel`, `EitherTravels`).

`KeyTakenApart` is the same for the key: `Parse` gives back zone, node and wire under every
root path that does not end in a slash, and nothing under one that does or of the key of a
whole node; `KeysUnderstood` is the invariant that follows.

### WiringAdminProofs

The lock is not kept for ever: the answer to a request that is not a POST unlocks what its
worker does not hold.  The history variable `stray` records that, and the discipline is
proved up to it: `LockInv` (a worker that reads or calls holds the lock, and so does who
waits in `mg_stop`) and `ServerInv` (the server that runs is that of `ctx`, or one that a
failed export left behind) are one conjunct `stray \/ ...`.  `LateInv` and `FaultInv` say in
which cases a freed admin or a freed server is used.

### RsaExportProofs

`AnnouncedExact` is what takes the work.  `TellInv` is its strengthening: a listener that is
being handled still has the service in `toTell`, was told, or is one that the announcement
going on has still to tell (`Covered`); only with the two other cases is it kept from step
to step.  The half about receive services needs `WireInv`, which says that a wire belongs to
one WTM and that wires are numbered in the order in which they are opened, so that closing
the receive service of a withdrawn wire takes none that another WTM still has.  `WalkInv` is
the lost wake-up: what the walk of a WTM has not passed it has still to do, or
`exportService` has it among its targets.  `FreshInv` keeps everybody else away from a
service that is not in the map yet, and `TrackInv` ties the endpoint service of a
registration to its tracker: both are needed to see that a stale endpoint service was lost
`early`.  `LockInv` separates the walk of `wtmAdded`, also one that is stuck, from the
announcements.

### RsaImportProofs

`CountInv` bounds the registrations of an import by the number of WTMs that have passed it
(`Passed`) and one for its own import; the type of `regs` depends on it, and the
cardinalities are where `FiniteSetTheorems` comes in.  `EntriesExact` goes through with
`DropFacts`, which says what remains of a factory that several imports share when one of
them goes. `AskedInv` is the strengthening of `NoLostImport`: a WTM that was asked and has
not brought the wire still has the request, with its `requested.service`, or has forgotten
it.  `WtmInv` (only a WTM that was handled, or was running first, calls the listener, and
nothing is imported before a WTM has been handled) and `LockInv` (the lock is held over
several steps only by a walk of `wtmAdded`) give `NoLockCycle`: a walk that has something to
ask needs an import, and so another WTM.  `SendInv`, that a send service is entered under
its own wire, gives `SendAlive`.

### WireCallProofs

`IInv` follows one connection at a time.  `ConnInv` says where it begins and that a body
ends early only when somebody gave up or the server stops; `ServiceInv` that a service has
run before there is an answer; `WrittenInv` that a connection is closed with all of its
answer written unless the server stops; and `ResultInv` what that makes of the caller's
result.  `HeldInv` says who is in the callback holds the lock of the node, unless it was
taken from it, and `ReceiveAlone` follows.  `StopInv` is the same for a stop: it holds the
lock until it returns, so it cuts off nobody in the callback but where the lock was
disturbed.  The sizes of body, buffer and answer are any numbers.

`CallImplemented` is the refinement of `RemoteCall`.  It needs two more parts: `PathInv`,
that nothing is executed before the callback has read the body (so `Receive` is the first
and only service of a call, and one of a call proper), and `NestInv`, that a service which
is not waiting for the calls it made has none on its way (so it answers after them).
`Unseen` is what an observer of the two ends sees of a step; `UnseenStep` and
`UnseenElsewhere` show that eleven of a call's steps are stutters and that no step of a call
shows in another, and there is one lemma for each step that is seen.  Where a call returns,
the invariants of the *next* state say what it may have got (`AnswerMayBeGot`): whole and
from the service, or in part with an error or from a server that stops.

### CivetwebProofs

`CountInv` equates `num_threads` with the number of workers that have started and not left,
`HandInv` says where a connection can be besides the ring, and `EndInv` gives the stages of
the stop; together they make `FreedMeansAlone` a consequence.

`PoolImplemented` is the refinement.  `WaitingQueue`, `ProduceAppends` and
`ConsumeTakesHead` show that the ring with its two indices is a queue (`Modulo` is the
arithmetic of its wrap), including the step in which `consume_socket` brings both indices
back into range.  Then each action is mapped: `Produce` to an arrival, or, with a full ring
in the stop, to a connection that is turned away, `Consume` to a worker that takes the
oldest connection, a worker that closes it or leaves to the end of the service, the two
steps of `mg_stop` to those of the pool, and all others to a stutter.

### Model-checked only

Every invariant that a run checks is proved, and so are the action property and the two
refinements. What is left to the runs is liveness under fairness, which is outside what the
prover handles: `KeptVisible`, `WaitingServed`, `LockReleased`, `ConnectionServed`,
`StopReturns` and `CallsEnd`; the violated `wiring_admin_stop` is a run by nature.

## 6. Not modelled

* A start of the WTM's bundle that fails (no memory, no framework id), and a second start:
  the trackers are destroyed with the stop.
* The lengths of buffers (keys, values, the arrays of fixed size in `etcd_getEndpoints`),
  memory exhaustion, the JSON of etcd's answers and of the requests to services.
* What wiring admins never use of civetweb: files and directories, CGI, SSL, Lua,
  websockets, authentication with its digests (`md5.inl`), the parsing of heads and options.
  The worker's exit when it has no memory is left out as well.
* The second of two WTMs in `wiringReceiveServices` and other containers no lock protects:
  each of their users is one step.
* A withdrawal by the WTM's `removeExportedWiringEndpoint`, which tells no listener, leaves
  a freed description in the own list of node discovery: `NoDanglingKnowledge` of
  `WtmExport` says so, `EtcdWatcher` has no such step.
* In `RsaImport` a WTM is what the remote service admin sees of it, not all of `WtmImport`:
  it answers, waits, and may forget a request behind another one.  That it stops while its
  own `wtmAdded` runs is left out.
* White space that is neither blank, tab nor line end (`\r`, `\v`, `\f`): only the trimming
  at the ends of a name or value treats it differently.  Of an escape in a form, the text
  that it gives is modelled and not its digits.
* The inside of Celix, curl, jansson and etcd.
* The echo server, an example client.  `export_command.c` registers its listener with the
  command as handle while `addImported` and `removeImported` take the handle for the
  listener, so the first announcement is undefined behaviour; its registration is not reset
  when it is unregistered, and the activator frees command services that are still
  registered.  There is no behaviour beyond the first announcement to state anything about.
* The build and deployment files.

## 7. Plan

What is left, in the order of what it adds:

1. The phases of the WTM bundle in `WtmExport` as well, whose admins and listeners now come
   and go at any time; its proofs have to follow.
2. The abstract protocol of announcements (told before forgotten, never told twice, nothing
   destroyed while known), with `WtmExport` and `NodeDiscovery` shown to implement it.
3. A composition of `EtcdWatcher` and `NodeDiscovery`: what listeners know of the store.
