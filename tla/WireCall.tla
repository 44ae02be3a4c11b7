------------------------------ MODULE WireCall ------------------------------
(***************************************************************************)
(* A remote call over a wire, from remoteServiceAdmin_send on the caller's *)
(* node through the send service of the wiring admin (libcurl), the        *)
(* connection code of the web server, the request callback of the wiring   *)
(* admin and remoteServiceAdmin_receive on the other node, and back.       *)
(*                                                                         *)
(* What is sent is counted in units: the head of a request is one, its     *)
(* body Body of them, the head of an answer one, its body up to MaxReply.  *)
(* A service may make a call of its own while it runs.  Two locks per node *)
(* are held across the network: sendServicesLock over the whole exchange   *)
(* on the caller's side, exportedWiringEndpointLock from before the body   *)
(* is read until the answer is written on the other.                       *)
(*                                                                         *)
(* The web server also takes requests that are no calls, of a browser or a *)
(* monitor say: Other, GET requests of a head alone.  The callback hands   *)
(* them back to the web server, which has no files and answers 404.        *)
(*                                                                         *)
(* Time is not modelled: the two seconds of CURLOPT_TIMEOUT may be over at *)
(* any moment of an exchange; the thirty of request_timeout_ms end a read  *)
(* only when the client has given up before.                               *)
(***************************************************************************)
EXTENDS Naturals, FiniteSets

CONSTANTS Node, Call, Free,
          Admin,         \* the thread of a wiring admin that stops its server
          From, To,      \* the nodes of each call
          Body,          \* units of the body of a request
          Buffer,        \* MAX_REQUEST_SIZE: units read together with the head
          MaxReply,      \* bound: units of the body of an answer
          App,           \* the calls that applications may begin
          Other,         \* the requests that are no calls
          MaxRequests,   \* bound: requests in one behaviour
          Stoppable      \* bound: the nodes whose server may be stopped

ASSUME CallAssumption == /\ From \in [Call -> Node] /\ To \in [Call -> Node]
                         /\ {Free, Admin} \cap Call = {} /\ Admin # Free
                         /\ Body \in Nat \ {0}
                         /\ Buffer \in Nat \ {0}
                         /\ MaxReply \in Nat \ {0} /\ MaxRequests \in Nat
                         /\ App \subseteq Call /\ Other \subseteq Call \ App
                         /\ Stoppable \subseteq Node

Head == 1                \* units of a head

Units(c) == IF c \in Other THEN Head ELSE Head + Body

VARIABLES
  stopping,      \* nodes whose web server has been told to stop (stop_flag)
  stopped,       \* those where mg_stop has returned
  sendLock,      \* sendServicesLock of each node: its holder, or Free
  exportLock,    \* exportedWiringEndpointLock of each node
  disturbed,     \* nodes where a request that is no call released that lock
                 \* while a call or the stop held it (only written)
  client,        \* where each call is on the caller's side
  parent,        \* the call whose service makes this one, or Free
  sent,          \* units of the request that are on their way or further
  server,        \* where the connection of the call is on the other side
  data_len,      \* units in the buffer of the connection
  consumed,      \* consumed_content: units of the body given to the callback
  executed,      \* what the service was given: "no", "whole", "garbage"
  answer,        \* units of the answer of the service, 0 for none
  written,       \* units of the answer that were written, head included
  result         \* what send returned to its caller

stopVars == <<stopping, stopped>>
clientVars == <<client, parent, sent, result, sendLock>>
exportLocks == <<exportLock, disturbed>>
serverVars == <<server, data_len, consumed, executed, answer, written, exportLocks>>
vars == <<stopVars, clientVars, serverVars>>

NoResult == [http |-> 0, curl |-> "none", reply |-> 0]

TypeOK ==
  /\ stopping \subseteq Node /\ stopped \subseteq stopping
  /\ sendLock \in [Node -> Call \cup {Free}]
  /\ exportLock \in [Node -> Call \cup {Free, Admin}]
  /\ disturbed \subseteq Node
  /\ client \in [Call -> {"idle", "locking", "exchange", "done"}]
  /\ parent \in [Call -> Call \cup {Free}]
  /\ sent \in [Call -> 0..(Head + Body)]
  /\ server \in [Call -> {"none", "reading", "locking", "body", "receive",
                          "running", "nested", "answer", "refuse", "closed",
                          "dropped"}]
  /\ data_len \in [Call -> 0..Buffer]
  /\ consumed \in [Call -> 0..Body]
  /\ executed \in [Call -> {"no", "whole", "garbage"}]
  /\ answer \in [Call -> 0..MaxReply]
  /\ written \in [Call -> 0..(Head + MaxReply)]
  /\ result \in [Call -> [http : {0, 200, 204, 404},
                          curl : {"none", "no wire", "ok", "failed", "timeout"},
                          reply : 0..MaxReply]]

Init ==
  /\ stopping = {} /\ stopped = {}
  /\ sendLock = [n \in Node |-> Free]
  /\ exportLock = [n \in Node |-> Free]
  /\ disturbed = {}
  /\ client = [c \in Call |-> "idle"]
  /\ parent = [c \in Call |-> Free]
  /\ sent = [c \in Call |-> 0]
  /\ server = [c \in Call |-> "none"]
  /\ data_len = [c \in Call |-> 0]
  /\ consumed = [c \in Call |-> 0]
  /\ executed = [c \in Call |-> "no"]
  /\ answer = [c \in Call |-> 0]
  /\ written = [c \in Call |-> 0]
  /\ result = [c \in Call |-> NoResult]

ClientGoes(c, pc) == client' = [client EXCEPT ![c] = pc]
ServerGoes(c, pc) == server' = [server EXCEPT ![c] = pc]
Stopping(c) == To[c] \in stopping

(***************************************************************************)
(* The caller: remoteServiceAdmin_send and wiringAdmin_send.               *)
(***************************************************************************)

MayBegin(c) ==
  /\ client[c] = "idle"
  /\ Cardinality({d \in Call : client[d] # "idle"}) < MaxRequests

\* A proxy is called by a thread of the application ...
Begin(c) ==
  /\ c \in App /\ MayBegin(c)
  /\ ClientGoes(c, "locking")
  /\ UNCHANGED <<stopVars, parent, sent, result, sendLock, serverVars>>

\* ... or by a service that serves the call d.
BeginNested(c, d) ==
  /\ c \notin Other /\ MayBegin(c)
  /\ server[d] = "running" /\ From[c] = To[d]
  /\ ClientGoes(c, "locking")
  /\ parent' = [parent EXCEPT ![c] = d]
  /\ ServerGoes(d, "nested")
  /\ UNCHANGED <<stopVars, sent, result, sendLock, data_len, consumed, executed,
                 answer, written, exportLocks>>

\* No send service for the wire: an error, and nothing is sent.
SendWithoutWire(c) ==
  /\ client[c] = "locking" /\ sendLock[From[c]] = Free
  /\ ClientGoes(c, "done")
  /\ result' = [result EXCEPT ![c].curl = "no wire"]
  /\ UNCHANGED <<stopVars, parent, sent, sendLock, serverVars>>

\* A browser sends a request that is no call: all of it at once.
OtherRequest(c) ==
  /\ c \in Other /\ MayBegin(c) /\ ~Stopping(c)
  /\ ClientGoes(c, "exchange") /\ ServerGoes(c, "reading")
  /\ sent' = [sent EXCEPT ![c] = Units(c)]
  /\ UNCHANGED <<stopVars, parent, result, sendLock, data_len, consumed, executed,
                 answer, written, exportLocks>>

\* A server that stops has closed its listening socket, sooner or later.
Connect(c) ==
  /\ client[c] = "locking" /\ sendLock[From[c]] = Free
  /\ sendLock' = [sendLock EXCEPT ![From[c]] = c]
  /\ ClientGoes(c, "exchange")
  /\ \/ To[c] \notin stopped /\ ServerGoes(c, "reading")
     \/ Stopping(c) /\ UNCHANGED server
  /\ UNCHANGED <<stopVars, parent, sent, result, data_len, consumed, executed,
                 answer, written, exportLocks>>

SendUnit(c) ==
  /\ client[c] = "exchange" /\ server[c] \notin {"none", "closed"}
  /\ sent[c] < Units(c)
  /\ sent' = [sent EXCEPT ![c] = @ + 1]
  /\ UNCHANGED <<stopVars, client, parent, result, sendLock, serverVars>>

\* The status line tells the code as soon as it is there; without one it is 0,
\* which the caller takes for the code of libcurl for success.
HttpCode(c, units) == IF units = 0 THEN 0
                      ELSE IF c \in Other THEN 404
                      ELSE IF answer[c] = 0 THEN 204 ELSE 200

ReplyStatus(r) == IF r.http = 200 THEN r.curl ELSE IF r.http = 0 THEN "ok" ELSE "http"

ExchangeEnds(c, units, curl) ==
  /\ client[c] = "exchange"
  /\ result' = [result EXCEPT ![c] = [http |-> HttpCode(c, units),
                                      curl |-> curl,
                                      reply |-> IF units > Head THEN units - Head ELSE 0]]
  /\ sendLock' = IF sendLock[From[c]] = c THEN [sendLock EXCEPT ![From[c]] = Free]
                                         ELSE sendLock
  /\ ClientGoes(c, "done")
  /\ UNCHANGED <<stopVars, parent, sent, serverVars>>

\* The answer has no length of its own: it ends where the server closes.
Complete(c) ==
  /\ server[c] \in {"none", "closed"}
  /\ ExchangeEnds(c, written[c], IF written[c] = 0 THEN "failed" ELSE "ok")

\* mutant: an exchange without CURLOPT_TIMEOUT
NeverTimeout(c) == FALSE /\ UNCHANGED vars

Timeout(c) ==
  /\ c \notin Other
  /\ \E units \in 0..written[c] : ExchangeEnds(c, units, "timeout")

(***************************************************************************)
(* The web server: one connection, one request, since keep-alive is off.   *)
(***************************************************************************)

\* read_request: recv until the head is there, with what has arrived of the
\* body behind it, as far as the buffer reaches.
Readable(c) == {n \in Head..Buffer : n <= sent[c]}

\* handle_request asks the callback before anything else.
HandleRequest(c) == ServerGoes(c, "locking")

\* getreq: the head is read and can be parsed.
ReadRequest(c) ==
  /\ server[c] = "reading" /\ ~Stopping(c)
  /\ \E n \in Readable(c) : data_len' = [data_len EXCEPT ![c] = n]
  /\ HandleRequest(c)
  /\ UNCHANGED <<stopVars, clientVars, consumed, executed, answer, written,
                 exportLocks>>

GivenUp(c) == client[c] = "done"

\* close_connection, and the counters of the connection back to zero for the
\* next one (reset_per_request_attributes); what is under way is lost.
CloseConnection(c) ==
  /\ ServerGoes(c, "closed")
  /\ data_len' = [data_len EXCEPT ![c] = 0]
  /\ consumed' = [consumed EXCEPT ![c] = 0]
  /\ sent' = [sent EXCEPT ![c] = 0]

\* No request: the connection is closed without an answer.
ReadNothing(c) ==
  /\ server[c] = "reading"
  /\ Stopping(c) \/ (GivenUp(c) /\ sent[c] = 0)
  /\ CloseConnection(c)
  /\ UNCHANGED <<stopVars, client, parent, result, sendLock, executed, answer,
                 written, exportLocks>>

\* A socket in the ring, or just taken from it, when the stop comes: no worker
\* looks at it any more, and nobody closes it.
DropSocket(c) ==
  /\ server[c] = "reading" /\ Stopping(c)
  /\ ServerGoes(c, "dropped")
  /\ UNCHANGED <<stopVars, clientVars, data_len, consumed, executed, answer,
                 written, exportLocks>>

Min(a, b) == IF a < b THEN a ELSE b

\* mutant: the lock is taken after the body was read
ReadWithoutLock(c) ==
  /\ server[c] = "locking" /\ c \notin Other
  /\ consumed' = [consumed EXCEPT ![c] = Min(data_len[c] - Head, Body)]
  /\ ServerGoes(c, "body")
  /\ UNCHANGED <<stopVars, clientVars, data_len, executed, answer, written,
                 exportLocks>>

\* The callback takes its lock, and mg_read gives it what is buffered.
LockAndRead(c) ==
  /\ server[c] = "locking" /\ c \notin Other /\ exportLock[To[c]] = Free
  /\ exportLock' = [exportLock EXCEPT ![To[c]] = c]
  /\ consumed' = [consumed EXCEPT ![c] = Min(data_len[c] - Head, Body)]
  /\ ServerGoes(c, "body")
  /\ UNCHANGED <<stopVars, clientVars, data_len, executed, answer, written,
                 disturbed>>

\* handle_request goes on: no handler is registered for the path, nobody has to
\* log in, there is no document root: 404.
Refuse(c) == ServerGoes(c, "refuse")

\* Any other request goes back to the web server, after the release of a lock
\* that this thread does not hold: it is taken from whoever does.
PassBack(c) ==
  /\ server[c] = "locking" /\ c \in Other
  /\ exportLock' = [exportLock EXCEPT ![To[c]] = Free]
  /\ disturbed' = IF exportLock[To[c]] = Free THEN disturbed
                                             ELSE disturbed \cup {To[c]}
  /\ Refuse(c)
  /\ UNCHANGED <<stopVars, clientVars, data_len, consumed, executed, answer,
                 written>>

Arrived(c) == sent[c] - Head - consumed[c]

\* pull_all reads the rest from the socket, piece by piece.
PullBody(c) ==
  /\ server[c] = "body" /\ ~Stopping(c)
  /\ \E n \in 1..Body : /\ n <= Arrived(c)
                        /\ consumed' = [consumed EXCEPT ![c] = @ + n]
  /\ UNCHANGED <<stopVars, clientVars, server, data_len, executed, answer,
                 written, exportLocks>>

\* mutant: pull takes the end of the stream for data that is not there yet
BodyEndsComplete(c) ==
  /\ server[c] = "body"
  /\ consumed[c] = Body \/ Stopping(c)
  /\ ServerGoes(c, "receive")
  /\ UNCHANGED <<stopVars, clientVars, data_len, consumed, executed, answer,
                 written, exportLocks>>

\* mutant: mg_read returns after one piece
BodyEndsEarly(c) ==
  /\ server[c] = "body"
  /\ ServerGoes(c, "receive")
  /\ UNCHANGED <<stopVars, clientVars, data_len, consumed, executed, answer,
                 written, exportLocks>>

\* The body is there, or the stop or the end of the stream ends the reading;
\* the callback does not look at what mg_read returns.
BodyEnds(c) ==
  /\ server[c] = "body"
  /\ \/ consumed[c] = Body
     \/ Stopping(c)
     \/ GivenUp(c) /\ Arrived(c) = 0
  /\ ServerGoes(c, "receive")
  /\ UNCHANGED <<stopVars, clientVars, data_len, consumed, executed, answer,
                 written, exportLocks>>

\* remoteServiceAdmin_receive: the service of the id in the request is called,
\* if the text can be parsed and the service is there.  The part of a body
\* that was not read is whatever the memory holds.
Receive(c) ==
  /\ server[c] = "receive"
  /\ \/ /\ executed' = [executed EXCEPT ![c] =
                          IF consumed[c] = Body THEN "whole" ELSE "garbage"]
        /\ ServerGoes(c, "running")
     \/ /\ ServerGoes(c, "answer")
        /\ UNCHANGED executed
  /\ UNCHANGED <<stopVars, clientVars, data_len, consumed, answer, written,
                 exportLocks>>

NestedReturns(c, d) ==
  /\ parent[c] = d /\ client[c] = "done" /\ server[d] = "nested"
  /\ \A e \in Call : parent[e] = d => client[e] = "done"
  /\ ServerGoes(d, "running")
  /\ UNCHANGED <<stopVars, clientVars, data_len, consumed, executed, answer,
                 written, exportLocks>>

\* mutant: the callback goes on to the receive services of the next wire
ServiceReturnsOn(c) ==
  /\ server[c] = "running"
  /\ \E n \in 0..MaxReply : answer' = [answer EXCEPT ![c] = n]
  /\ ServerGoes(c, "answer") \/ ServerGoes(c, "receive")
  /\ UNCHANGED <<stopVars, clientVars, data_len, consumed, executed, written,
                 exportLocks>>

\* The first receive service ends the callback's walk over the wires.
ServiceReturns(c) ==
  /\ server[c] = "running"
  /\ \E n \in 0..MaxReply : answer' = [answer EXCEPT ![c] = n]
  /\ ServerGoes(c, "answer")
  /\ UNCHANGED <<stopVars, clientVars, data_len, consumed, executed, written,
                 exportLocks>>

\* send_http_error: a head and the name of the error.
ErrorPage == Head + 1

ToWrite(c) == IF c \in Other THEN ErrorPage ELSE Head + answer[c]

\* push: one piece goes out.
Push(c) == written' = [written EXCEPT ![c] = @ + 1]

\* mutant: push_all does not count down what is left
WriteOn(c) ==
  /\ server[c] \in {"answer", "refuse"} /\ ~Stopping(c)
  /\ Push(c)
  /\ UNCHANGED <<stopVars, clientVars, server, data_len, consumed, executed,
                 answer, exportLocks>>

\* push_all goes on until all is written or the server stops.
Goes(c) == written[c] < ToWrite(c) /\ ~Stopping(c)

\* mg_write, of the callback and of the error page.
Write(c) ==
  /\ server[c] \in {"answer", "refuse"} /\ Goes(c)
  /\ Push(c)
  /\ UNCHANGED <<stopVars, clientVars, server, data_len, consumed, executed,
                 answer, exportLocks>>

\* mutant: push_all gives up after a partial send
CloseEarly(c) ==
  /\ server[c] = "answer"
  /\ written[c] > 0 \/ Stopping(c)
  /\ exportLock' = [exportLock EXCEPT ![To[c]] = Free]
  /\ CloseConnection(c)
  /\ UNCHANGED <<stopVars, client, parent, result, sendLock, executed, answer,
                 written, disturbed>>

\* The callback gives its lock back and the worker closes the connection.
Close(c) ==
  /\ server[c] = "answer"
  /\ written[c] = ToWrite(c) \/ Stopping(c)
  /\ exportLock' = [exportLock EXCEPT ![To[c]] = Free]
  /\ CloseConnection(c)
  /\ UNCHANGED <<stopVars, client, parent, result, sendLock, executed, answer,
                 written, disturbed>>

\* The error page is written: the connection is closed.
CloseRefused(c) ==
  /\ server[c] = "refuse"
  /\ written[c] = ToWrite(c) \/ Stopping(c)
  /\ CloseConnection(c)
  /\ UNCHANGED <<stopVars, client, parent, result, sendLock, executed, answer,
                 written, exportLocks>>

\* wiringAdmin_stop, or the removal of the last export, holds the lock from
\* before mg_stop sets stop_flag ...
Stop(n) ==
  /\ n \notin stopping /\ exportLock[n] = Free
  /\ stopping' = stopping \cup {n}
  /\ exportLock' = [exportLock EXCEPT ![n] = Admin]
  /\ UNCHANGED <<stopped, clientVars, server, data_len, consumed, executed, answer,
                 written, disturbed>>

\* ... until mg_stop returns, which waits for every worker to end.
StopReturns(n) ==
  /\ n \in stopping \ stopped
  /\ \A c \in Call : To[c] = n => server[c] \in {"none", "closed", "dropped"}
  /\ stopped' = stopped \cup {n}
  /\ exportLock' = [exportLock EXCEPT ![n] = Free]
  /\ UNCHANGED <<stopping, clientVars, server, data_len, consumed, executed, answer,
                 written, disturbed>>

ClientStep(c) == SendWithoutWire(c) \/ Connect(c) \/ SendUnit(c) \/ Complete(c)

Service(c) == \/ Receive(c) \/ ServiceReturns(c)
              \/ \E d \in Call : NestedReturns(d, c)

ServerStep(c) == \/ ReadRequest(c) \/ ReadNothing(c) \/ DropSocket(c) \/ LockAndRead(c)
                 \/ PullBody(c) \/ BodyEnds(c) \/ Service(c)
                 \/ PassBack(c) \/ Write(c) \/ Close(c) \/ CloseRefused(c)

Next == \/ \E c \in Call : \/ Begin(c) \/ OtherRequest(c) \/ ClientStep(c) \/ Timeout(c)
                           \/ ServerStep(c)
                           \/ \E d \in Call : BeginNested(c, d)
        \/ \E n \in Stoppable : Stop(n) \/ StopReturns(n)

Spec == Init /\ [][Next]_vars

\* Something that can run does run: libcurl ends an exchange after two
\* seconds, workers and services go on, mg_stop returns when they have ended.
\* No step of a call is ever repeated, so this is fair to each of them.  Nobody
\* has to call, to stop a server or to nest a call.
Progress == \/ \E c \in Call : ClientStep(c) \/ Timeout(c) \/ ServerStep(c)
            \/ \E n \in Stoppable : StopReturns(n)

Fairness == WF_vars(Progress)

FairSpec == Spec /\ Fairness

-----------------------------------------------------------------------------
(***************************************************************************)
(* Properties.                                                             *)
(***************************************************************************)

\* A server that stops cuts off what it is doing only where the lock that the
\* stop holds meanwhile was released by a request that is no call.
CutOff(c) == Stopping(c) /\ To[c] \in disturbed

\* A reply that the caller gets with HTTP status 200 comes from a service
\* that was called, and if libcurl reports success it is the whole answer to
\* the whole request: whatever the pieces in which both travelled, what was
\* buffered with the head, who else waited for the locks, and who stops the
\* server.  The exception is a stop that meets the callback after a stray
\* release of its lock: the answer has no length, so the caller takes what was
\* written until then for all of it.
ReplyTrue ==
  \A c \in Call :
    result[c].http = 200 =>
      /\ executed[c] # "no"
      /\ result[c].reply <= answer[c]
      /\ ReplyStatus(result[c]) = "ok" /\ ~CutOff(c) =>
           executed[c] = "whole" /\ result[c].reply = answer[c]

\* A service is given memory that was never read from the wire only when the
\* caller has given up, or such a stop comes, in the middle of the body
\* (mg_read's result is not looked at).
GarbageOnlyWhenCut ==
  \A c \in Call :
    executed[c] = "garbage" => GivenUp(c) \/ CutOff(c)

\* What a service is given and what a caller gets back.
ContentTrue == ReplyTrue /\ GarbageOnlyWhenCut

InCallback(c) == server[c] \in {"body", "receive", "running", "nested", "answer"}

\* The callback serves one call at a time on each node, from the first byte of
\* the body to the last of the answer, so the receive service of a node is never
\* called twice at once.  (It does not keep the lists of receive services from
\* changing under the callback: their tracker takes no lock.)  Only a request
\* that is no call breaks it: the callback releases its lock on that path too,
\* where it has not taken it.
ReceiveAlone ==
  \A c, d \in Call :
    c # d /\ To[c] = To[d] /\ InCallback(c) /\ InCallback(d) => To[c] \in disturbed

\* What the caller makes of its result; the reply is there with HTTP status 200.
Got(c) ==
  IF client[c] # "done" THEN [status |-> "none", reply |-> 0]
  ELSE [status |-> IF result[c].curl # "no wire" /\ ReplyStatus(result[c]) = "ok"
                   THEN "ok" ELSE "error",
        reply |-> IF result[c].http = 200 THEN result[c].reply ELSE 0]

\* The calls proper, seen from outside: nothing of locks, pieces and connections.
Proper == Call \ Other

CallState(c) == CASE client[c] = "idle" -> "new"
                  [] client[c] = "done" -> "returned"
                  [] OTHER -> "calling"

ServiceState(c) == CASE executed[c] = "no" -> "idle"
                     [] server[c] \in {"running", "nested"} -> "running"
                     [] OTHER -> "answered"

Remote == INSTANCE RemoteCall WITH
            Call <- Proper, None <- Free,
            state <- [c \in Proper |-> CallState(c)],
            parent <- [c \in Proper |-> parent[c]],
            cut <- {c \in Proper : CutOff(c)},
            service <- [c \in Proper |-> ServiceState(c)],
            given <- [c \in Proper |-> executed[c]],
            answer <- [c \in Proper |-> answer[c]],
            got <- [c \in Proper |-> Got(c)]

\* The two admins, the client and the web server implement a remote call: its
\* service runs at most once and never before the call, it answers once, after
\* the calls it makes have returned, and the result of the caller is final.
ImplementsCall == Remote!Spec

\* A call is over: its caller has a result and its connection is closed.
Over(c) == client[c] \in {"idle", "done"} /\ server[c] \in {"none", "closed"}

\* What a stop leaves behind: a socket that nobody closes, which a call gives up
\* and a browser may wait for; and a request whose worker waits for the lock
\* that the stop holds, while the stop waits for that worker.
LeftBehind(c) ==
  /\ Stopping(c)
  /\ \/ server[c] = "dropped" /\ (client[c] = "done" \/ c \in Other)
     \/ server[c] = "locking" /\ client[c] = "done" /\ exportLock[To[c]] = Admin

\* Every call returns, its connection is closed and the locks are given back:
\* also when services call back and forth until two calls wait for the locks
\* of each other (then the time-out of libcurl opens the circle), and when the
\* client goes away in the middle of its request.  A stop may leave connections
\* open, and keeps its lock for ever if a request waits for it; the callers
\* return all the same.
CallsEnd ==
  []<>( /\ \A c \in Call : Over(c) \/ LeftBehind(c)
        /\ \A n \in Node :
             /\ sendLock[n] = Free
             /\ exportLock[n] # Free =>
                  /\ exportLock[n] = Admin
                  /\ \E c \in Call : To[c] = n /\ server[c] = "locking")
=============================================================================
