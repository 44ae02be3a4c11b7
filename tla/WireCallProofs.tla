---------------------------- MODULE WireCallProofs ----------------------------
(***************************************************************************)
(* Proofs about WireCall, for any nodes, calls and requests that are no    *)
(* calls, and bodies, buffers and answers of any size: the types, what a   *)
(* service is given and what its caller gets back, and that the callback   *)
(* of the wiring admin serves one call at a time.                          *)
(***************************************************************************)
EXTENDS WireCall, TLAPS

(***************************************************************************)
(* The inductive invariant.                                                *)
(***************************************************************************)

\* a connection begins with its exchange; the head is read before the callback
\* runs, and a body ends early only when somebody cut it off
ConnInv(c) ==
  /\ client[c] \in {"idle", "locking"} => server[c] = "none"
  /\ server[c] = "locking" => data_len[c] >= Head
  /\ server[c] = "receive" => consumed[c] = Body \/ GivenUp(c) \/ CutOff(c)
  /\ server[c] = "refuse" => c \in Other

\* the service runs before it answers, and answers before anything is written
ServiceInv(c) ==
  /\ server[c] \in {"running", "nested"} => executed[c] # "no"
  /\ answer[c] # 0 => server[c] \in {"answer", "closed"} /\ executed[c] # "no"
  /\ executed[c] = "garbage" => GivenUp(c) \/ CutOff(c)

\* what is written is of the answer; all of it, unless the server stops
WrittenInv(c) ==
  /\ written[c] # 0 => server[c] \in {"answer", "refuse", "closed", "dropped"}
  /\ c \notin Other => written[c] <= Head + answer[c]
  /\ server[c] = "closed" /\ written[c] # 0 /\ c \notin Other =>
       written[c] = Head + answer[c] \/ CutOff(c)

\* what the caller has got
ResultInv(c) ==
  result[c].http = 200 =>
    /\ answer[c] # 0 /\ executed[c] # "no" /\ result[c].reply <= answer[c]
    /\ result[c].curl = "ok" =>
         (executed[c] = "whole" /\ result[c].reply = answer[c]) \/ CutOff(c)

\* nothing is given to a service before the callback has read the body, and a
\* request that is no call never comes that far
PathInv(c) ==
  /\ server[c] \in {"none", "reading", "locking", "body", "receive", "refuse"} =>
       executed[c] = "no"
  /\ c \in Other => server[c] \in {"none", "reading", "locking", "refuse", "closed",
                                   "dropped"}

CallInv(c) == ConnInv(c) /\ ServiceInv(c) /\ WrittenInv(c) /\ ResultInv(c) /\ PathInv(c)

\* a call in the callback holds the lock of its node, or has been disturbed
HeldInv == \A c \in Call : InCallback(c) => exportLock[To[c]] = c \/ To[c] \in disturbed

\* a stop holds the lock until it returns, so it meets nobody in the callback
StopInv ==
  /\ \A c \in Call : InCallback(c) /\ Stopping(c) => To[c] \in disturbed
  /\ \A n \in stopping \ stopped : exportLock[n] = Admin \/ n \in disturbed
  /\ \A c \in Call : To[c] \in stopped => server[c] \in {"none", "closed", "dropped"}

\* a service that is not waiting for the calls it made has none on its way
NestInv ==
  \A c, d \in Call : parent[c] = d /\ server[d] # "nested" => client[c] = "done"

IInv == TypeOK /\ HeldInv /\ StopInv /\ NestInv /\ \A c \in Call : CallInv(c)

USE DEF stopVars, clientVars, exportLocks, serverVars

-----------------------------------------------------------------------------
(***************************************************************************)
(* The types.                                                              *)
(***************************************************************************)

LEMMA Sizes ==
  /\ Head = 1 /\ Body \in Nat /\ Buffer \in Nat /\ MaxReply \in Nat
  /\ Body >= 1 /\ Buffer >= 1 /\ MaxReply >= 1
  /\ \A c \in Call : From[c] \in Node /\ To[c] \in Node
BY CallAssumption DEF Head

\* where the two sides are
LEMMA PlaceType ==
  ASSUME TypeOK, [Next]_vars
  PROVE  /\ client' \in [Call -> {"idle", "locking", "exchange", "done"}]
         /\ server' \in [Call -> {"none", "reading", "locking", "body", "receive",
                                  "running", "nested", "answer", "refuse",
                                  "closed", "dropped"}]
<1>1. /\ client \in [Call -> {"idle", "locking", "exchange", "done"}]
      /\ server \in [Call -> {"none", "reading", "locking", "body", "receive",
                              "running", "nested", "answer", "refuse",
                              "closed", "dropped"}]
  BY DEF TypeOK
<1>2. client' \in [Call -> {"idle", "locking", "exchange", "done"}]
  <2>1. \/ UNCHANGED client
        \/ \E c \in Call, pc \in {"locking", "exchange", "done"} :
             client' = [client EXCEPT ![c] = pc]
    BY DEF Next, Begin, OtherRequest, ClientStep, SendWithoutWire, Connect, SendUnit,
       Complete, Timeout, ExchangeEnds, ServerStep, ReadRequest, ReadNothing,
       DropSocket, LockAndRead, PullBody, BodyEnds, Service, Receive, ServiceReturns,
       NestedReturns, PassBack, Write, Close, CloseRefused, BeginNested, Stop,
       StopReturns, ClientGoes, vars
  <2> QED
    BY <1>1, <2>1
<1>3. server' \in [Call -> {"none", "reading", "locking", "body", "receive",
                            "running", "nested", "answer", "refuse",
                            "closed", "dropped"}]
  <2>1. \/ UNCHANGED server
        \/ \E c \in Call, pc \in {"reading", "locking", "body", "receive", "running",
                                  "nested", "answer", "refuse", "closed", "dropped"} :
             server' = [server EXCEPT ![c] = pc]
    BY DEF Next, Begin, OtherRequest, ClientStep, SendWithoutWire, Connect, SendUnit,
       Complete, Timeout, ExchangeEnds, ServerStep, ReadRequest, ReadNothing,
       DropSocket, LockAndRead, PullBody, BodyEnds, Service, Receive, ServiceReturns,
       NestedReturns, PassBack, Write, Close, CloseRefused, BeginNested, Stop,
       StopReturns, HandleRequest, Refuse, CloseConnection, ServerGoes, vars
  <2> QED
    BY <1>1, <2>1
<1> QED
  BY <1>2, <1>3

\* who holds the locks, and who makes a nested call
LEMMA HolderType ==
  ASSUME TypeOK, [Next]_vars
  PROVE  /\ stopping' \subseteq Node /\ stopped' \subseteq stopping'
         /\ disturbed' \subseteq Node
         /\ sendLock' \in [Node -> Call \cup {Free}]
         /\ exportLock' \in [Node -> Call \cup {Free, Admin}]
         /\ parent' \in [Call -> Call \cup {Free}]
<1>1. /\ stopping \subseteq Node /\ stopped \subseteq stopping /\ disturbed \subseteq Node
      /\ sendLock \in [Node -> Call \cup {Free}]
      /\ exportLock \in [Node -> Call \cup {Free, Admin}]
      /\ parent \in [Call -> Call \cup {Free}]
  BY DEF TypeOK
<1>2. stopping' \subseteq Node /\ stopped' \subseteq stopping'
  <2>1. \/ UNCHANGED <<stopping, stopped>>
        \/ \E n \in Stoppable : stopping' = stopping \cup {n} /\ UNCHANGED stopped
        \/ \E n \in stopping : stopped' = stopped \cup {n} /\ UNCHANGED stopping
    <3>1. CASE \E n \in Stoppable : Stop(n) \/ StopReturns(n)
      BY <3>1 DEF Stop, StopReturns
    <3>2. CASE ~ \E n \in Stoppable : Stop(n) \/ StopReturns(n)
      BY <3>2 DEF Next, Begin, OtherRequest, ClientStep, SendWithoutWire, Connect,
         SendUnit, Complete, Timeout, ExchangeEnds, ServerStep, ReadRequest,
         ReadNothing, DropSocket, LockAndRead, PullBody, BodyEnds, Service, Receive,
         ServiceReturns, NestedReturns, PassBack, Write, Close, CloseRefused,
         BeginNested, vars
    <3> QED
      BY <3>1, <3>2
  <2> QED
    <3>1. CASE UNCHANGED <<stopping, stopped>>
      BY <1>1, <3>1
    <3>2. CASE \E n \in Stoppable : stopping' = stopping \cup {n} /\ UNCHANGED stopped
      BY <1>1, <3>2, CallAssumption
    <3>3. CASE \E n \in stopping : stopped' = stopped \cup {n} /\ UNCHANGED stopping
      BY <1>1, <3>3
    <3> QED
      BY <2>1, <3>1, <3>2, <3>3
<1>3. disturbed' \subseteq Node
  <2>1. UNCHANGED disturbed \/ \E c \in Call : disturbed' = disturbed \cup {To[c]}
    BY DEF Next, Begin, OtherRequest, ClientStep, SendWithoutWire, Connect, SendUnit,
       Complete, Timeout, ExchangeEnds, ServerStep, ReadRequest, ReadNothing,
       DropSocket, LockAndRead, PullBody, BodyEnds, Service, Receive, ServiceReturns,
       NestedReturns, PassBack, Write, Close, CloseRefused, BeginNested, Stop,
       StopReturns, vars
  <2> QED
    BY <1>1, <2>1, Sizes
<1>4. sendLock' \in [Node -> Call \cup {Free}]
  <2>1. \/ UNCHANGED sendLock
        \/ \E c \in Call, h \in Call \cup {Free} : sendLock' = [sendLock EXCEPT ![From[c]] = h]
    BY DEF Next, Begin, OtherRequest, ClientStep, SendWithoutWire, Connect, SendUnit,
       Complete, Timeout, ExchangeEnds, ServerStep, ReadRequest, ReadNothing,
       DropSocket, LockAndRead, PullBody, BodyEnds, Service, Receive, ServiceReturns,
       NestedReturns, PassBack, Write, Close, CloseRefused, BeginNested, Stop,
       StopReturns, vars
  <2> QED
    BY <1>1, <2>1
<1>5. exportLock' \in [Node -> Call \cup {Free, Admin}]
  <2>1. \/ UNCHANGED exportLock
        \/ \E c \in Call, h \in Call \cup {Free} :
             exportLock' = [exportLock EXCEPT ![To[c]] = h]
        \/ \E n \in Stoppable, h \in {Free, Admin} :
             exportLock' = [exportLock EXCEPT ![n] = h]
    BY DEF Next, Begin, OtherRequest, ClientStep, SendWithoutWire, Connect, SendUnit,
       Complete, Timeout, ExchangeEnds, ServerStep, ReadRequest, ReadNothing,
       DropSocket, LockAndRead, PullBody, BodyEnds, Service, Receive, ServiceReturns,
       NestedReturns, PassBack, Write, Close, CloseRefused, BeginNested, Stop,
       StopReturns, vars
  <2> QED
    BY <1>1, <2>1, Sizes, CallAssumption
<1>6. parent' \in [Call -> Call \cup {Free}]
  <2>1. UNCHANGED parent \/ \E c, d \in Call : parent' = [parent EXCEPT ![c] = d]
    BY DEF Next, Begin, OtherRequest, ClientStep, SendWithoutWire, Connect, SendUnit,
       Complete, Timeout, ExchangeEnds, ServerStep, ReadRequest, ReadNothing,
       DropSocket, LockAndRead, PullBody, BodyEnds, Service, Receive, ServiceReturns,
       NestedReturns, PassBack, Write, Close, CloseRefused, BeginNested, Stop,
       StopReturns, vars
  <2> QED
    BY <1>1, <2>1
<1> QED
  BY <1>2, <1>3, <1>4, <1>5, <1>6

\* how much of the request is on its way
LEMMA SentType == ASSUME TypeOK, [Next]_vars PROVE sent' \in [Call -> 0..(Head + Body)]
<1>1. sent \in [Call -> 0..(Head + Body)]
  BY DEF TypeOK
<1>2. ASSUME NEW c \in Call, OtherRequest(c) \/ SendUnit(c)
      PROVE  \E n \in 0..(Head + Body) : sent' = [sent EXCEPT ![c] = n]
  <2>1. Units(c) \in 0..(Head + Body)
    BY Sizes DEF Units
  <2>2. CASE OtherRequest(c)
    BY <2>1, <2>2 DEF OtherRequest
  <2>3. CASE SendUnit(c)
    <3>1. sent[c] \in Nat /\ sent[c] < Units(c)
      BY <1>1, <2>3, Sizes DEF SendUnit
    <3>2. sent[c] + 1 \in 0..(Head + Body)
      BY <2>1, <3>1, Sizes
    <3> QED
      BY <2>3, <3>2 DEF SendUnit
  <2> QED
    BY <1>2, <2>2, <2>3
<1>3. ASSUME NEW c \in Call, ReadNothing(c) \/ Close(c) \/ CloseRefused(c)
      PROVE  \E n \in 0..(Head + Body) : sent' = [sent EXCEPT ![c] = n]
  <2>1. 0 \in 0..(Head + Body)
    BY Sizes
  <2> QED
    BY <1>3, <2>1 DEF ReadNothing, Close, CloseRefused, CloseConnection
<1>4. CASE ~ \E c \in Call : \/ OtherRequest(c) \/ SendUnit(c) \/ ReadNothing(c)
                             \/ Close(c) \/ CloseRefused(c)
  <2>1. UNCHANGED sent
    BY <1>4 DEF Next, Begin, ClientStep, SendWithoutWire, Connect, Complete, Timeout,
       ExchangeEnds, ServerStep, ReadRequest, DropSocket, LockAndRead, PullBody,
       BodyEnds, Service, Receive, ServiceReturns, NestedReturns, PassBack, Write,
       BeginNested, Stop, StopReturns, vars
  <2> QED
    BY <1>1, <2>1
<1>5. CASE \E c \in Call : \/ OtherRequest(c) \/ SendUnit(c) \/ ReadNothing(c)
                           \/ Close(c) \/ CloseRefused(c)
  <2>1. PICK c \in Call, n \in 0..(Head + Body) : sent' = [sent EXCEPT ![c] = n]
    BY <1>2, <1>3, <1>5
  <2> QED
    BY <1>1, <2>1
<1> QED
  BY <1>4, <1>5

\* what is buffered with the head
LEMMA BufferedType == ASSUME TypeOK, [Next]_vars PROVE data_len' \in [Call -> 0..Buffer]
<1>1. data_len \in [Call -> 0..Buffer]
  BY DEF TypeOK
<1>2. \/ UNCHANGED data_len
      \/ \E c \in Call : data_len' = [data_len EXCEPT ![c] = 0]
      \/ \E c \in Call, n \in Head..Buffer : data_len' = [data_len EXCEPT ![c] = n]
  <2>1. ASSUME NEW c \in Call, ReadRequest(c)
        PROVE  \E n \in Head..Buffer : data_len' = [data_len EXCEPT ![c] = n]
    BY <2>1 DEF ReadRequest, Readable
  <2>2. ASSUME NEW c \in Call, ReadNothing(c) \/ Close(c) \/ CloseRefused(c)
        PROVE  data_len' = [data_len EXCEPT ![c] = 0]
    BY <2>2 DEF ReadNothing, Close, CloseRefused, CloseConnection
  <2>3. CASE ~ \E c \in Call : \/ ReadRequest(c) \/ ReadNothing(c) \/ Close(c)
                               \/ CloseRefused(c)
    BY <2>3 DEF Next, Begin, OtherRequest, ClientStep, SendWithoutWire, Connect,
       SendUnit, Complete, Timeout, ExchangeEnds, ServerStep, DropSocket, LockAndRead,
       PullBody, BodyEnds, Service, Receive, ServiceReturns, NestedReturns, PassBack,
       Write, BeginNested, Stop, StopReturns, vars
  <2> QED
    BY <2>1, <2>2, <2>3
<1>3. 0 \in 0..Buffer /\ \A n \in Head..Buffer : n \in 0..Buffer
  BY Sizes
<1> QED
  BY <1>1, <1>2, <1>3

LEMMA Least == ASSUME NEW m \in Nat, NEW n \in Nat PROVE Min(m, n) \in 0..n
BY DEF Min

\* how much of the body the callback was given
LEMMA ConsumedType ==
  ASSUME TypeOK, \A c \in Call : ConnInv(c), [Next]_vars
  PROVE  consumed' \in [Call -> 0..Body]
<1>1. /\ consumed \in [Call -> 0..Body] /\ sent \in [Call -> 0..(Head + Body)]
      /\ data_len \in [Call -> 0..Buffer]
  BY DEF TypeOK
<1>2. ASSUME NEW c \in Call, LockAndRead(c)
      PROVE  \E n \in 0..Body : consumed' = [consumed EXCEPT ![c] = n]
  <2>1. data_len[c] \in Nat /\ data_len[c] >= Head
    BY <1>1, <1>2, Sizes DEF LockAndRead, ConnInv
  <2>2. data_len[c] - Head \in Nat
    BY <2>1, Sizes
  <2>3. Min(data_len[c] - Head, Body) \in 0..Body
    BY <2>2, Sizes, Least
  <2> QED
    BY <1>2, <2>3 DEF LockAndRead
<1>3. ASSUME NEW c \in Call, PullBody(c)
      PROVE  \E n \in 0..Body : consumed' = [consumed EXCEPT ![c] = n]
  <2>1. PICK n \in 1..Body : n <= Arrived(c) /\ consumed' = [consumed EXCEPT ![c] = @ + n]
    BY <1>3 DEF PullBody
  <2>2. n \in Nat /\ consumed[c] \in Nat /\ sent[c] \in Nat /\ sent[c] <= Head + Body
    BY <1>1, Sizes
  <2>3. consumed[c] + n \in 0..Body
    BY <2>1, <2>2, Sizes DEF Arrived
  <2> QED
    BY <2>1, <2>3
<1>4. ASSUME NEW c \in Call, ReadNothing(c) \/ Close(c) \/ CloseRefused(c)
      PROVE  \E n \in 0..Body : consumed' = [consumed EXCEPT ![c] = n]
  <2>1. 0 \in 0..Body
    BY Sizes
  <2> QED
    BY <1>4, <2>1 DEF ReadNothing, Close, CloseRefused, CloseConnection
<1>5. CASE ~ \E c \in Call : \/ LockAndRead(c) \/ PullBody(c) \/ ReadNothing(c)
                             \/ Close(c) \/ CloseRefused(c)
  <2>1. UNCHANGED consumed
    BY <1>5 DEF Next, Begin, OtherRequest, ClientStep, SendWithoutWire, Connect,
       SendUnit, Complete, Timeout, ExchangeEnds, ServerStep, ReadRequest, DropSocket,
       BodyEnds, Service, Receive, ServiceReturns, NestedReturns, PassBack, Write,
       BeginNested, Stop, StopReturns, vars
  <2> QED
    BY <1>1, <2>1
<1>6. CASE \E c \in Call : \/ LockAndRead(c) \/ PullBody(c) \/ ReadNothing(c)
                           \/ Close(c) \/ CloseRefused(c)
  <2>1. PICK c \in Call, n \in 0..Body : consumed' = [consumed EXCEPT ![c] = n]
    BY <1>2, <1>3, <1>4, <1>6
  <2> QED
    BY <1>1, <2>1
<1> QED
  BY <1>5, <1>6

\* what the service was given, what it answers and how much of that is written
LEMMA AnswerType ==
  ASSUME TypeOK, [Next]_vars
  PROVE  /\ executed' \in [Call -> {"no", "whole", "garbage"}]
         /\ answer' \in [Call -> 0..MaxReply]
         /\ written' \in [Call -> 0..(Head + MaxReply)]
<1>1. /\ executed \in [Call -> {"no", "whole", "garbage"}]
      /\ answer \in [Call -> 0..MaxReply]
      /\ written \in [Call -> 0..(Head + MaxReply)]
  BY DEF TypeOK
<1>2. executed' \in [Call -> {"no", "whole", "garbage"}]
  <2>1. \/ UNCHANGED executed
        \/ \E c \in Call, x \in {"whole", "garbage"} : executed' = [executed EXCEPT ![c] = x]
    BY DEF Next, Begin, OtherRequest, ClientStep, SendWithoutWire, Connect, SendUnit,
       Complete, Timeout, ExchangeEnds, ServerStep, ReadRequest, ReadNothing,
       DropSocket, LockAndRead, PullBody, BodyEnds, Service, Receive, ServiceReturns,
       NestedReturns, PassBack, Write, Close, CloseRefused, BeginNested, Stop,
       StopReturns, vars
  <2> QED
    BY <1>1, <2>1
<1>3. answer' \in [Call -> 0..MaxReply]
  <2>1. \/ UNCHANGED answer
        \/ \E c \in Call, n \in 0..MaxReply : answer' = [answer EXCEPT ![c] = n]
    BY DEF Next, Begin, OtherRequest, ClientStep, SendWithoutWire, Connect, SendUnit,
       Complete, Timeout, ExchangeEnds, ServerStep, ReadRequest, ReadNothing,
       DropSocket, LockAndRead, PullBody, BodyEnds, Service, Receive, ServiceReturns,
       NestedReturns, PassBack, Write, Close, CloseRefused, BeginNested, Stop,
       StopReturns, vars
  <2> QED
    BY <1>1, <2>1
<1>4. written' \in [Call -> 0..(Head + MaxReply)]
  <2>1. ASSUME NEW c \in Call, Write(c)
        PROVE  \E n \in 0..(Head + MaxReply) : written' = [written EXCEPT ![c] = n]
    <3>1. written[c] < ToWrite(c) /\ written' = [written EXCEPT ![c] = @ + 1]
      BY <2>1 DEF Write, Goes, Push
    <3>2. written[c] \in Nat /\ answer[c] \in Nat /\ answer[c] <= MaxReply
      BY <1>1, Sizes
    <3>3. ToWrite(c) \in Nat /\ ToWrite(c) <= Head + MaxReply
      BY <3>2, Sizes DEF ToWrite, ErrorPage
    <3>4. written[c] + 1 \in 0..(Head + MaxReply)
      BY <3>1, <3>2, <3>3, Sizes
    <3> QED
      BY <3>1, <3>4
  <2>2. CASE ~ \E c \in Call : Write(c)
    <3>1. UNCHANGED written
      BY <2>2 DEF Next, Begin, OtherRequest, ClientStep, SendWithoutWire, Connect,
         SendUnit, Complete, Timeout, ExchangeEnds, ServerStep, ReadRequest,
         ReadNothing, DropSocket, LockAndRead, PullBody, BodyEnds, Service, Receive,
         ServiceReturns, NestedReturns, PassBack, Close, CloseRefused, BeginNested,
         Stop, StopReturns, vars
    <3> QED
      BY <1>1, <3>1
  <2> QED
    BY <1>1, <2>1, <2>2
<1> QED
  BY <1>2, <1>3, <1>4

\* what send returns
Results == [http : {0, 200, 204, 404},
            curl : {"none", "no wire", "ok", "failed", "timeout"}, reply : 0..MaxReply]

LEMMA ResultType == ASSUME TypeOK, [Next]_vars PROVE result' \in [Call -> Results]
<1>1. result \in [Call -> Results] /\ written \in [Call -> 0..(Head + MaxReply)]
  BY DEF TypeOK, Results
<1>2. ASSUME NEW c \in Call, NEW units \in 0..(Head + MaxReply),
             NEW curl \in {"ok", "failed", "timeout"}, ExchangeEnds(c, units, curl)
      PROVE  result' \in [Call -> Results]
  <2>1. HttpCode(c, units) \in {0, 200, 204, 404}
    BY DEF HttpCode
  <2>2. (IF units > Head THEN units - Head ELSE 0) \in 0..MaxReply
    BY Sizes
  <2> DEFINE R == [http |-> HttpCode(c, units), curl |-> curl,
                   reply |-> IF units > Head THEN units - Head ELSE 0]
  <2>3. R \in Results
    BY <2>1, <2>2 DEF Results
  <2>4. result' = [result EXCEPT ![c] = R]
    BY <1>2 DEF ExchangeEnds
  <2> HIDE DEF R, Results
  <2> QED
    BY <1>1, <2>3, <2>4
<1>3. CASE \E c \in Call : Complete(c)
  <2>1. PICK c \in Call : Complete(c)
    BY <1>3
  <2>2. PICK curl \in {"ok", "failed", "timeout"} : ExchangeEnds(c, written[c], curl)
    BY <2>1 DEF Complete
  <2> QED
    BY <1>1, <1>2, <2>2
<1>4. CASE \E c \in Call : Timeout(c)
  <2>1. PICK c \in Call : Timeout(c)
    BY <1>4
  <2>2. PICK units \in 0..written[c] : ExchangeEnds(c, units, "timeout")
    BY <2>1 DEF Timeout
  <2>3. units \in 0..(Head + MaxReply)
    BY <1>1, Sizes
  <2> QED
    BY <1>2, <2>2, <2>3
<1>5. CASE \E c \in Call : SendWithoutWire(c)
  <2>1. PICK c \in Call : result' = [result EXCEPT ![c].curl = "no wire"]
    BY <1>5 DEF SendWithoutWire
  <2> DEFINE R == [result[c] EXCEPT !.curl = "no wire"]
  <2>2. R \in Results
    <3>1. result[c] \in Results
      BY <1>1
    <3> QED
      BY <3>1 DEF Results
  <2>3. result' = [result EXCEPT ![c] = R]
    BY <2>1
  <2> HIDE DEF R, Results
  <2> QED
    BY <1>1, <2>2, <2>3
<1>6. CASE ~ \E c \in Call : Complete(c) \/ Timeout(c) \/ SendWithoutWire(c)
  <2>1. UNCHANGED result
    BY <1>6 DEF Next, Begin, OtherRequest, ClientStep, Connect, SendUnit, ServerStep,
       ReadRequest, ReadNothing, DropSocket, LockAndRead, PullBody, BodyEnds, Service,
       Receive, ServiceReturns, NestedReturns, PassBack, Write, Close, CloseRefused,
       BeginNested, Stop, StopReturns, vars
  <2> QED
    BY <1>1, <2>1
<1> QED
  BY <1>3, <1>4, <1>5, <1>6

LEMMA TypeStep == ASSUME TypeOK, \A c \in Call : ConnInv(c), [Next]_vars PROVE TypeOK'
BY PlaceType, HolderType, SentType, BufferedType, ConsumedType, AnswerType, ResultType
   DEF TypeOK, Results

-----------------------------------------------------------------------------
(***************************************************************************)
(* Each call: what its service is given, and what its caller gets.         *)
(***************************************************************************)

\* a step leaves a call alone
Same(e) ==
  /\ client'[e] = client[e] /\ result'[e] = result[e]
  /\ server'[e] = server[e] /\ data_len'[e] = data_len[e] /\ consumed'[e] = consumed[e]
  /\ executed'[e] = executed[e] /\ answer'[e] = answer[e] /\ written'[e] = written[e]

LEMMA CutGrows == ASSUME [Next]_vars, NEW c \in Call PROVE CutOff(c) => CutOff(c)'
<1>1. stopping \subseteq stopping' /\ disturbed \subseteq disturbed'
  BY DEF Next, Begin, OtherRequest, ClientStep, SendWithoutWire, Connect, SendUnit,
     Complete, Timeout, ExchangeEnds, ServerStep, ReadRequest, ReadNothing, DropSocket,
     LockAndRead, PullBody, BodyEnds, Service, Receive, ServiceReturns, NestedReturns,
     PassBack, Write, Close, CloseRefused, BeginNested, Stop, StopReturns, vars
<1> QED
  BY <1>1 DEF CutOff, Stopping

LEMMA Frame ==
  ASSUME NEW e \in Call, CallInv(e), CutOff(e) => CutOff(e)', Same(e)
  PROVE  CallInv(e)'
BY DEF CallInv, ConnInv, ServiceInv, WrittenInv, ResultInv, PathInv, GivenUp, Same

\* the types of what one call has
LEMMA CallType ==
  ASSUME TypeOK, NEW c \in Call
  PROVE  /\ data_len[c] \in Nat /\ consumed[c] \in Nat /\ answer[c] \in Nat
         /\ written[c] \in Nat /\ sent[c] \in Nat /\ result[c].reply \in Nat
         /\ executed[c] \in {"no", "whole", "garbage"}
<1>1. result[c] \in Results
  BY DEF TypeOK, Results
<1>2. result[c].reply \in 0..MaxReply
  BY <1>1 DEF Results
<1>3. /\ data_len[c] \in 0..Buffer /\ consumed[c] \in 0..Body /\ answer[c] \in 0..MaxReply
      /\ written[c] \in 0..(Head + MaxReply) /\ sent[c] \in 0..(Head + Body)
      /\ executed[c] \in {"no", "whole", "garbage"}
  <2>1. /\ data_len \in [Call -> 0..Buffer] /\ consumed \in [Call -> 0..Body]
        /\ answer \in [Call -> 0..MaxReply] /\ written \in [Call -> 0..(Head + MaxReply)]
        /\ sent \in [Call -> 0..(Head + Body)]
        /\ executed \in [Call -> {"no", "whole", "garbage"}]
    BY DEF TypeOK
  <2> QED
    BY <2>1
<1> QED
  BY <1>2, <1>3, Sizes

\* what the caller is told when the exchange is over
LEMMA EndsStep ==
  ASSUME TypeOK, NEW c \in Call, CallInv(c), CutOff(c) => CutOff(c)',
         NEW units \in Nat, units <= written[c], NEW curl \in {"ok", "failed", "timeout"},
         ExchangeEnds(c, units, curl),
         curl = "ok" => units = written[c] /\ server[c] \in {"none", "closed"}
  PROVE  CallInv(c)'
<1>1. /\ client[c] = "exchange" /\ client'[c] = "done"
      /\ UNCHANGED <<stopping, serverVars>>
      /\ result'[c] = [http |-> HttpCode(c, units), curl |-> curl,
                       reply |-> IF units > Head THEN units - Head ELSE 0]
  <2>1. client \in [Call -> {"idle", "locking", "exchange", "done"}] /\ result \in [Call -> Results]
    BY DEF TypeOK, Results
  <2> DEFINE R == [http |-> HttpCode(c, units), curl |-> curl,
                   reply |-> IF units > Head THEN units - Head ELSE 0]
  <2>2. /\ client[c] = "exchange" /\ client' = [client EXCEPT ![c] = "done"]
        /\ UNCHANGED <<stopping, serverVars>> /\ result' = [result EXCEPT ![c] = R]
    BY DEF ExchangeEnds, ClientGoes
  <2> HIDE DEF R, Results
  <2>3. result'[c] = R /\ client'[c] = "done"
    BY <2>1, <2>2
  <2> QED
    BY <2>2, <2>3 DEF R
<1>2. /\ result'[c].http = HttpCode(c, units) /\ result'[c].curl = curl
      /\ result'[c].reply = IF units > Head THEN units - Head ELSE 0
  BY <1>1
<1>3. ConnInv(c)' /\ ServiceInv(c)' /\ WrittenInv(c)' /\ PathInv(c)'
  BY <1>1 DEF CallInv, ConnInv, ServiceInv, WrittenInv, PathInv, GivenUp
<1>4. ASSUME result'[c].http = 200 PROVE c \notin Other /\ units # 0 /\ answer[c] # 0
  BY <1>2, <1>4 DEF HttpCode
<1>5. ResultInv(c)'
  <2>1. SUFFICES ASSUME result'[c].http = 200
                 PROVE  /\ answer[c] # 0 /\ executed[c] # "no"
                        /\ result'[c].reply <= answer[c]
                        /\ curl = "ok" => \/ executed[c] = "whole" /\ result'[c].reply = answer[c]
                                          \/ CutOff(c)
    BY <1>1, <1>2 DEF ResultInv
  <2>2. /\ c \notin Other /\ units >= 1 /\ written[c] >= units /\ written[c] # 0
        /\ answer[c] # 0 /\ answer[c] >= 1
    BY <1>4, <2>1, CallType
  <2>3. executed[c] # "no" /\ written[c] <= Head + answer[c]
    BY <2>2 DEF CallInv, ServiceInv, WrittenInv
  <2>4. result'[c].reply <= answer[c]
    BY <1>2, <2>2, <2>3, CallType, Sizes
  <2>5. ASSUME curl = "ok", ~CutOff(c)
        PROVE  executed[c] = "whole" /\ result'[c].reply = answer[c]
    <3>1. written[c] = Head + answer[c]
      BY <2>2, <2>5 DEF CallInv, WrittenInv
    <3>2. executed[c] = "whole"
      BY <1>1, <2>3, <2>5, CallType DEF CallInv, ServiceInv, GivenUp
    <3> QED
      BY <1>2, <2>2, <2>5, <3>1, <3>2, CallType, Sizes
  <2> QED
    BY <2>2, <2>3, <2>4, <2>5
<1> QED
  BY <1>3, <1>5 DEF CallInv

LEMMA Domains ==
  ASSUME TypeOK
  PROVE  /\ client \in [Call -> {"idle", "locking", "exchange", "done"}]
         /\ server \in [Call -> {"none", "reading", "locking", "body", "receive",
                                 "running", "nested", "answer", "refuse",
                                 "closed", "dropped"}]
         /\ data_len \in [Call -> 0..Buffer] /\ consumed \in [Call -> 0..Body]
         /\ executed \in [Call -> {"no", "whole", "garbage"}]
         /\ answer \in [Call -> 0..MaxReply] /\ written \in [Call -> 0..(Head + MaxReply)]
         /\ result \in [Call -> Results]
BY DEF TypeOK, Results

\* a step of one call leaves the others alone
LEMMA Elsewhere ==
  ASSUME TypeOK, NEW c \in Call, NEW e \in Call, e # c,
         \/ Begin(c) \/ OtherRequest(c) \/ ClientStep(c) \/ Timeout(c)
         \/ ReadRequest(c) \/ ReadNothing(c) \/ DropSocket(c) \/ LockAndRead(c)
         \/ PullBody(c) \/ BodyEnds(c) \/ Receive(c) \/ ServiceReturns(c)
         \/ PassBack(c) \/ Write(c) \/ Close(c) \/ CloseRefused(c)
  PROVE  Same(e)
<1> USE Domains
<1> HIDE DEF Results
<1>1. CASE Begin(c) \/ OtherRequest(c) \/ SendWithoutWire(c) \/ Connect(c) \/ SendUnit(c)
  BY <1>1 DEF Begin, OtherRequest, SendWithoutWire, Connect, SendUnit, ClientGoes,
     ServerGoes, Same
<1>2. CASE Complete(c) \/ Timeout(c)
  BY <1>2 DEF Complete, Timeout, ExchangeEnds, ClientGoes, Same
<1>3. CASE \/ ReadRequest(c) \/ ReadNothing(c) \/ DropSocket(c) \/ LockAndRead(c)
           \/ PullBody(c) \/ BodyEnds(c)
  BY <1>3 DEF ReadRequest, ReadNothing, DropSocket, LockAndRead, PullBody, BodyEnds,
     HandleRequest, CloseConnection, ServerGoes, Same
<1>4. CASE Receive(c) \/ ServiceReturns(c) \/ PassBack(c) \/ Write(c) \/ Close(c)
           \/ CloseRefused(c)
  BY <1>4 DEF Receive, ServiceReturns, PassBack, Refuse, Write, Push, Close,
     CloseRefused, CloseConnection, ServerGoes, Same
<1> QED
  BY <1>1, <1>2, <1>3, <1>4 DEF ClientStep

LEMMA CurlOnly ==
  ASSUME NEW r \in Results, NEW q, q = [r EXCEPT !.curl = "no wire"]
  PROVE  q.http = r.http /\ q.reply = r.reply
BY DEF Results

\* the caller and the arrival of its request
LEMMA ArriveStep ==
  ASSUME TypeOK, NEW c \in Call, CallInv(c), CutOff(c) => CutOff(c)',
         Begin(c) \/ OtherRequest(c) \/ SendWithoutWire(c) \/ Connect(c) \/ SendUnit(c)
  PROVE  CallInv(c)'
<1> USE Domains
<1> HIDE DEF Results
<1>1. UNCHANGED <<data_len, consumed, executed, answer, written>>
  BY DEF Begin, OtherRequest, SendWithoutWire, Connect, SendUnit
<1>2. /\ client[c] \in {"idle", "locking"} \/ client'[c] = client[c]
      /\ client'[c] \in {"idle", "locking"} => client[c] \in {"idle", "locking"}
      /\ client[c] = "done" => client'[c] = "done"
  BY DEF Begin, OtherRequest, SendWithoutWire, Connect, SendUnit, MayBegin, ClientGoes
<1>3. \/ server'[c] = server[c]
      \/ /\ client[c] \in {"idle", "locking"} /\ server'[c] = "reading"
         /\ client'[c] = "exchange"
  BY DEF Begin, OtherRequest, SendWithoutWire, Connect, SendUnit, MayBegin, ClientGoes,
     ServerGoes
<1>4. result'[c].http = result[c].http /\ result'[c].reply = result[c].reply
  <2>1. CASE SendWithoutWire(c)
    <3>1. result' = [result EXCEPT ![c] = [result[c] EXCEPT !.curl = "no wire"]]
      BY <2>1 DEF SendWithoutWire
    <3>2. result[c] \in Results
      OBVIOUS
    <3>3. result'[c] = [result[c] EXCEPT !.curl = "no wire"]
      BY <3>1
    <3> QED
      BY <3>2, <3>3, CurlOnly
  <2>2. CASE ~SendWithoutWire(c)
    BY <2>2 DEF Begin, OtherRequest, Connect, SendUnit
  <2> QED
    BY <2>1, <2>2
<1>5. answer[c] # 0 => UNCHANGED result
  <2>1. client[c] = "locking" => answer[c] = 0
    BY DEF CallInv, ConnInv, ServiceInv
  <2> QED
    BY <2>1 DEF Begin, OtherRequest, SendWithoutWire, Connect, SendUnit
<1>6. ConnInv(c)'
  BY <1>1, <1>2, <1>3 DEF CallInv, ConnInv, GivenUp
<1>7. ServiceInv(c)'
  BY <1>1, <1>2, <1>3 DEF CallInv, ConnInv, ServiceInv, GivenUp
<1>8. WrittenInv(c)'
  BY <1>1, <1>2, <1>3 DEF CallInv, ConnInv, WrittenInv
<1>9. ResultInv(c)'
  BY <1>1, <1>4, <1>5 DEF CallInv, ResultInv
<1>10. PathInv(c)'
  BY <1>1, <1>3 DEF CallInv, ConnInv, PathInv
<1> QED
  BY <1>6, <1>7, <1>8, <1>9, <1>10 DEF CallInv

\* the head and the body are read
LEMMA ReadStep ==
  ASSUME TypeOK, StopInv, NEW c \in Call, CallInv(c), CutOff(c) => CutOff(c)',
         ReadRequest(c) \/ LockAndRead(c) \/ PullBody(c) \/ BodyEnds(c) \/ PassBack(c)
  PROVE  CallInv(c)'
<1> USE Domains
<1> HIDE DEF Results
<1>1. /\ UNCHANGED <<stopping, client, result, executed, answer, written>>
      /\ server[c] \in {"reading", "locking", "body"}
      /\ server'[c] \in {"locking", "body", "receive", "refuse"}
  BY DEF ReadRequest, LockAndRead, PullBody, BodyEnds, PassBack, HandleRequest, Refuse,
     ServerGoes
<1>2. answer[c] = 0 /\ written[c] = 0 /\ client[c] \notin {"idle", "locking"}
  BY <1>1 DEF CallInv, ConnInv, ServiceInv, WrittenInv
<1>3. server'[c] = "locking" => data_len'[c] >= Head
  BY <1>1, Sizes DEF ReadRequest, LockAndRead, PullBody, BodyEnds, PassBack,
     HandleRequest, Refuse, ServerGoes, Readable
<1>4. server'[c] = "receive" => consumed'[c] = Body \/ GivenUp(c) \/ CutOff(c)
  BY <1>1 DEF StopInv, InCallback, CutOff, ReadRequest, LockAndRead, PullBody,
     BodyEnds, PassBack, HandleRequest, Refuse, ServerGoes
<1>5. server'[c] = "refuse" => c \in Other
  BY DEF ReadRequest, LockAndRead, PullBody, BodyEnds, PassBack, HandleRequest, Refuse,
     ServerGoes
<1>6. ConnInv(c)'
  BY <1>1, <1>2, <1>3, <1>4, <1>5 DEF ConnInv, GivenUp
<1>7. ServiceInv(c)' /\ WrittenInv(c)' /\ ResultInv(c)'
  BY <1>1, <1>2, Sizes DEF CallInv, ServiceInv, WrittenInv, ResultInv, GivenUp
<1>8. c \in Other => server'[c] \in {"locking", "refuse"}
  BY DEF ReadRequest, LockAndRead, PullBody, BodyEnds, PassBack, HandleRequest, Refuse,
     ServerGoes, CallInv, PathInv
<1>9. PathInv(c)'
  BY <1>1, <1>8 DEF CallInv, PathInv
<1> QED
  BY <1>6, <1>7, <1>9 DEF CallInv

\* the service runs
LEMMA ServeStep ==
  ASSUME TypeOK, NEW c \in Call, CallInv(c), CutOff(c) => CutOff(c)',
         Receive(c) \/ ServiceReturns(c)
  PROVE  CallInv(c)'
<1> USE Domains
<1> HIDE DEF Results
<1>1. /\ UNCHANGED <<stopping, client, result, data_len, consumed, written>>
      /\ server[c] \in {"receive", "running"} /\ server'[c] \in {"running", "answer"}
  BY DEF Receive, ServiceReturns, ServerGoes
<1>2. answer[c] = 0 /\ written[c] = 0 /\ client[c] \notin {"idle", "locking"}
  BY <1>1 DEF CallInv, ConnInv, ServiceInv, WrittenInv
<1>3. answer'[c] \in Nat
  BY Sizes DEF Receive, ServiceReturns
<1>4. /\ server'[c] = "running" => executed'[c] # "no"
      /\ answer'[c] # 0 => server'[c] = "answer" /\ executed'[c] # "no"
  BY <1>1, <1>2 DEF Receive, ServiceReturns, ServerGoes, CallInv, ServiceInv
<1>5. executed'[c] = "garbage" => GivenUp(c) \/ CutOff(c)
  BY DEF Receive, ServiceReturns, CallInv, ConnInv, ServiceInv
<1>6. ConnInv(c)'
  BY <1>1, <1>2 DEF ConnInv
<1>7. ServiceInv(c)'
  BY <1>1, <1>4, <1>5 DEF ServiceInv, GivenUp
<1>8. WrittenInv(c)'
  BY <1>1, <1>2, <1>3, Sizes DEF WrittenInv
<1>9. ResultInv(c)'
  BY <1>1, <1>2 DEF CallInv, ResultInv
<1>10. PathInv(c)'
  BY <1>1 DEF CallInv, PathInv
<1> QED
  BY <1>6, <1>7, <1>8, <1>9, <1>10 DEF CallInv

\* the answer is written and the connection closed
LEMMA AnswerStep ==
  ASSUME TypeOK, StopInv, NEW c \in Call, CallInv(c), CutOff(c) => CutOff(c)',
         Write(c) \/ Close(c) \/ CloseRefused(c) \/ ReadNothing(c) \/ DropSocket(c)
  PROVE  CallInv(c)'
<1> USE Domains
<1> HIDE DEF Results
<1>1. /\ UNCHANGED <<stopping, client, result, executed, answer>>
      /\ server[c] \in {"reading", "answer", "refuse"}
  BY DEF Write, Close, CloseRefused, ReadNothing, DropSocket
<1>5. server[c] = "reading" => answer[c] = 0 /\ written[c] = 0
  BY DEF CallInv, ServiceInv, WrittenInv
<1>2. client[c] \notin {"idle", "locking"} /\ written[c] \in Nat /\ answer[c] \in Nat
  BY <1>1, CallType DEF CallInv, ConnInv
<1>3. CASE Write(c)
  <2>1. /\ UNCHANGED <<server, data_len, consumed>> /\ written'[c] = written[c] + 1
        /\ written[c] < ToWrite(c) /\ server[c] \in {"answer", "refuse"}
    BY <1>3 DEF Write, Goes, Push
  <2>2. c \notin Other => written'[c] <= Head + answer[c]
    BY <1>2, <2>1, Sizes DEF ToWrite
  <2>3. ConnInv(c)' /\ ServiceInv(c)' /\ ResultInv(c)' /\ PathInv(c)'
    BY <1>1, <2>1 DEF CallInv, ConnInv, ServiceInv, ResultInv, PathInv, GivenUp
  <2>4. WrittenInv(c)'
    BY <1>1, <2>1, <2>2 DEF WrittenInv
  <2> QED
    BY <2>3, <2>4 DEF CallInv
<1>4. CASE Close(c) \/ CloseRefused(c) \/ ReadNothing(c) \/ DropSocket(c)
  <2>1. /\ UNCHANGED written /\ server'[c] \in {"closed", "dropped"}
        /\ server'[c] = "dropped" => answer[c] = 0 /\ written[c] = 0
    BY <1>4, <1>5 DEF Close, CloseRefused, ReadNothing, DropSocket, CloseConnection,
       ServerGoes
  <2>2. written[c] # 0 /\ c \notin Other => written[c] = Head + answer[c] \/ CutOff(c)
    <3>1. CASE Close(c)
      BY <3>1 DEF Close, ToWrite, StopInv, InCallback, CutOff
    <3>2. CASE CloseRefused(c)
      BY <3>2 DEF CloseRefused, CallInv, ConnInv
    <3>3. CASE ReadNothing(c) \/ DropSocket(c)
      BY <3>3 DEF ReadNothing, DropSocket, CallInv, WrittenInv
    <3> QED
      BY <1>4, <3>1, <3>2, <3>3
  <2>3. ConnInv(c)' /\ ServiceInv(c)' /\ ResultInv(c)' /\ PathInv(c)'
    BY <1>1, <1>2, <2>1 DEF CallInv, ConnInv, ServiceInv, ResultInv, PathInv, GivenUp
  <2>4. WrittenInv(c)'
    BY <1>1, <2>1, <2>2 DEF CallInv, WrittenInv
  <2> QED
    BY <2>3, <2>4 DEF CallInv
<1> QED
  BY <1>3, <1>4

\* a service makes a call of its own, and goes on when it is over
LEMMA NestStep ==
  ASSUME TypeOK, NEW c \in Call, NEW d \in Call, NEW e \in Call, CallInv(c), CallInv(e),
         CutOff(e) => CutOff(e)',
         BeginNested(c, d) \/ NestedReturns(c, d)
  PROVE  CallInv(e)'
<1> USE Domains
<1> HIDE DEF Results
<1>1. UNCHANGED <<stopping, result, data_len, consumed, executed, answer, written>>
  BY DEF BeginNested, NestedReturns
<1>2. /\ server[d] \in {"running", "nested"}
      /\ \E pc \in {"running", "nested"} : server' = [server EXCEPT ![d] = pc]
      /\ \/ UNCHANGED client
         \/ client[c] = "idle" /\ client' = [client EXCEPT ![c] = "locking"]
  BY DEF BeginNested, NestedReturns, MayBegin, ClientGoes, ServerGoes
<1>3. client[c] = "idle" => c # d
  BY <1>2 DEF CallInv, ConnInv
<1>4. \/ server'[e] = server[e]
      \/ /\ server[e] \in {"running", "nested"} /\ server'[e] \in {"running", "nested"}
         /\ client'[e] = client[e]
  BY <1>2, <1>3
<1>5. \/ client'[e] = client[e]
      \/ client[e] = "idle" /\ client'[e] = "locking" /\ server'[e] = server[e]
  BY <1>2, <1>3
<1>6. ConnInv(e)' /\ ServiceInv(e)' /\ PathInv(e)'
  BY <1>1, <1>4, <1>5 DEF CallInv, ConnInv, ServiceInv, PathInv, GivenUp
<1>7. WrittenInv(e)' /\ ResultInv(e)'
  BY <1>1, <1>4 DEF CallInv, WrittenInv, ResultInv
<1> QED
  BY <1>6, <1>7 DEF CallInv

LEMMA CallStep ==
  ASSUME TypeOK, StopInv, \A c \in Call : CallInv(c), [Next]_vars
  PROVE  \A c \in Call : CallInv(c)'
<1> TAKE e \in Call
<1>1. (CutOff(e) => CutOff(e)') /\ CallInv(e)
  BY CutGrows
<1>2. ASSUME NEW c \in Call,
             \/ Begin(c) \/ OtherRequest(c) \/ ClientStep(c) \/ Timeout(c)
             \/ ReadRequest(c) \/ ReadNothing(c) \/ DropSocket(c) \/ LockAndRead(c)
             \/ PullBody(c) \/ BodyEnds(c) \/ Receive(c) \/ ServiceReturns(c)
             \/ PassBack(c) \/ Write(c) \/ Close(c) \/ CloseRefused(c)
      PROVE  CallInv(e)'
  <2>1. CASE e # c
    <3>1. Same(e)
      BY <1>2, <2>1, Elsewhere
    <3> QED
      BY <1>1, <3>1, Frame
  <2>2. CASE e = c /\ \/ Begin(c) \/ OtherRequest(c) \/ SendWithoutWire(c) \/ Connect(c)
                      \/ SendUnit(c)
    BY <1>1, <2>2, ArriveStep
  <2>3. CASE e = c /\ Complete(c)
    <3>1. PICK curl \in {"ok", "failed"} : /\ ExchangeEnds(c, written[c], curl)
                                           /\ server[c] \in {"none", "closed"}
      BY <2>3 DEF Complete
    <3>2. written[c] \in Nat
      BY CallType
    <3>3. written[c] <= written[c]
      BY <3>2
    <3> QED
      BY <1>1, <2>3, <3>1, <3>2, <3>3, EndsStep
  <2>4. CASE e = c /\ Timeout(c)
    <3>1. PICK units \in 0..written[c] : ExchangeEnds(c, units, "timeout")
      BY <2>4 DEF Timeout
    <3>2. units \in Nat /\ units <= written[c]
      BY <3>1, CallType
    <3> QED
      BY <1>1, <2>4, <3>1, <3>2, EndsStep
  <2>5. CASE e = c /\ \/ ReadRequest(c) \/ LockAndRead(c) \/ PullBody(c) \/ BodyEnds(c)
                      \/ PassBack(c)
    BY <1>1, <2>5, ReadStep
  <2>6. CASE e = c /\ (Receive(c) \/ ServiceReturns(c))
    BY <1>1, <2>6, ServeStep
  <2>7. CASE e = c /\ \/ Write(c) \/ Close(c) \/ CloseRefused(c) \/ ReadNothing(c)
                      \/ DropSocket(c)
    BY <1>1, <2>7, AnswerStep
  <2> QED
    BY <1>2, <2>1, <2>2, <2>3, <2>4, <2>5, <2>6, <2>7 DEF ClientStep
<1>3. CASE \E c, d \in Call : BeginNested(c, d) \/ NestedReturns(c, d)
  BY <1>1, <1>3, NestStep
<1>4. CASE UNCHANGED vars \/ \E n \in Stoppable : Stop(n) \/ StopReturns(n)
  <2>1. Same(e)
    BY <1>4 DEF Stop, StopReturns, Same, vars
  <2> QED
    BY <1>1, <2>1, Frame
<1> QED
  BY <1>2, <1>3, <1>4 DEF Next, ServerStep, Service

-----------------------------------------------------------------------------
(***************************************************************************)
(* The lock of the callback.                                               *)
(***************************************************************************)

LEMMA AloneFromHeld ==
  ASSUME HeldInv, NEW c \in Call, NEW d \in Call, c # d, To[c] = To[d],
         InCallback(c), InCallback(d)
  PROVE  To[c] \in disturbed
BY DEF HeldInv

LEMMA HeldStep == ASSUME TypeOK, HeldInv, StopInv, [Next]_vars PROVE HeldInv'
<1>1. /\ server \in [Call -> {"none", "reading", "locking", "body", "receive",
                              "running", "nested", "answer", "refuse",
                              "closed", "dropped"}]
      /\ exportLock \in [Node -> Call \cup {Free, Admin}] /\ Free \notin Call
  BY CallAssumption DEF TypeOK
<1>2. ASSUME NEW c \in Call, LockAndRead(c) PROVE HeldInv'
  <2>1. /\ exportLock[To[c]] = Free /\ exportLock' = [exportLock EXCEPT ![To[c]] = c]
        /\ server' = [server EXCEPT ![c] = "body"] /\ UNCHANGED disturbed
    BY <1>2 DEF LockAndRead, ServerGoes
  <2>2. ASSUME NEW e \in Call, InCallback(e)'
        PROVE  exportLock'[To[e]] = e \/ To[e] \in disturbed
    <3>1. CASE e = c
      BY <1>1, <2>1, <3>1, Sizes
    <3>2. CASE e # c
      <4>1. InCallback(e)
        BY <1>1, <2>1, <2>2, <3>2 DEF InCallback
      <4>2. exportLock[To[e]] = e \/ To[e] \in disturbed
        BY <4>1 DEF HeldInv
      <4> QED
        BY <1>1, <2>1, <4>2, Sizes
    <3> QED
      BY <3>1, <3>2
  <2> QED
    BY <2>1, <2>2 DEF HeldInv, InCallback
<1>3. ASSUME NEW c \in Call, PassBack(c) PROVE HeldInv'
  <2>1. /\ exportLock' = [exportLock EXCEPT ![To[c]] = Free]
        /\ disturbed \subseteq disturbed'
        /\ exportLock[To[c]] # Free => To[c] \in disturbed'
        /\ server' = [server EXCEPT ![c] = "refuse"]
    BY <1>3 DEF PassBack, Refuse, ServerGoes
  <2>2. ASSUME NEW e \in Call, InCallback(e)'
        PROVE  exportLock'[To[e]] = e \/ To[e] \in disturbed'
    <3>1. InCallback(e)
      BY <1>1, <2>1, <2>2 DEF InCallback
    <3>2. exportLock[To[e]] = e \/ To[e] \in disturbed
      BY <3>1 DEF HeldInv
    <3> QED
      BY <1>1, <2>1, <3>2, Sizes
  <2> QED
    BY <2>2 DEF HeldInv, InCallback
<1>4. ASSUME NEW c \in Call, Close(c) PROVE HeldInv'
  <2>1. /\ exportLock' = [exportLock EXCEPT ![To[c]] = Free]
        /\ server[c] = "answer" /\ server' = [server EXCEPT ![c] = "closed"]
        /\ UNCHANGED disturbed
    BY <1>4 DEF Close, CloseConnection, ServerGoes
  <2>2. ASSUME NEW e \in Call, InCallback(e)'
        PROVE  exportLock'[To[e]] = e \/ To[e] \in disturbed
    <3>1. InCallback(e) /\ e # c
      BY <1>1, <2>1, <2>2 DEF InCallback
    <3>2. exportLock[To[e]] = e \/ To[e] \in disturbed
      BY <3>1 DEF HeldInv
    <3>3. To[e] = To[c] => To[e] \in disturbed
      <4>1. InCallback(c)
        BY <2>1 DEF InCallback
      <4> QED
        BY <3>1, <4>1, AloneFromHeld
    <3> QED
      BY <1>1, <2>1, <3>2, <3>3, Sizes
  <2> QED
    BY <2>1, <2>2 DEF HeldInv, InCallback
<1>6. ASSUME NEW n \in Node, Stop(n) PROVE HeldInv'
  <2>1. /\ exportLock[n] = Free /\ exportLock' = [exportLock EXCEPT ![n] = Admin]
        /\ UNCHANGED <<server, disturbed>>
    BY <1>6 DEF Stop
  <2>2. ASSUME NEW e \in Call, InCallback(e)
        PROVE  exportLock'[To[e]] = e \/ To[e] \in disturbed
    <3>1. exportLock[To[e]] = e \/ To[e] \in disturbed
      BY <2>2 DEF HeldInv
    <3> QED
      BY <1>1, <2>1, <3>1, Sizes
  <2> QED
    BY <2>1, <2>2 DEF HeldInv, InCallback
<1>7. ASSUME NEW n \in Node, StopReturns(n) PROVE HeldInv'
  <2>1. /\ exportLock' = [exportLock EXCEPT ![n] = Free] /\ UNCHANGED <<server, disturbed>>
        /\ \A c \in Call : To[c] = n => ~InCallback(c)
    BY <1>7 DEF StopReturns, InCallback
  <2>2. ASSUME NEW e \in Call, InCallback(e)
        PROVE  exportLock'[To[e]] = e \/ To[e] \in disturbed
    <3>1. /\ exportLock[To[e]] = e \/ To[e] \in disturbed
          /\ To[e] # n
      BY <2>1, <2>2 DEF HeldInv
    <3> QED
      BY <1>1, <2>1, <3>1, Sizes
  <2> QED
    BY <2>1, <2>2 DEF HeldInv, InCallback
<1>5. CASE ~ \/ \E c \in Call : LockAndRead(c) \/ PassBack(c) \/ Close(c)
             \/ \E n \in Stoppable : Stop(n) \/ StopReturns(n)
  <2>1. UNCHANGED exportLocks
    BY <1>5 DEF Next, Begin, OtherRequest, ClientStep, SendWithoutWire, Connect,
       SendUnit, Complete, Timeout, ExchangeEnds, ServerStep, ReadRequest, ReadNothing,
       DropSocket, PullBody, BodyEnds, Service, Receive, ServiceReturns, NestedReturns,
       Write, CloseRefused, BeginNested, Stop, StopReturns, vars
  <2>2. \A e \in Call : InCallback(e)' => InCallback(e)
    <3>1. \/ UNCHANGED server
          \/ \E c \in Call, pc \in {"reading", "locking", "refuse", "closed", "dropped"} :
               server' = [server EXCEPT ![c] = pc]
          \/ \E c \in Call, pc \in {"receive", "running", "nested", "answer"} :
               InCallback(c) /\ server' = [server EXCEPT ![c] = pc]
      BY <1>5 DEF Next, Begin, OtherRequest, ClientStep, SendWithoutWire, Connect,
         SendUnit, Complete, Timeout, ExchangeEnds, ServerStep, ReadRequest,
         ReadNothing, DropSocket, PullBody, BodyEnds, Service, Receive, ServiceReturns,
         NestedReturns, Write, CloseRefused, BeginNested, Stop, StopReturns,
         HandleRequest, CloseConnection, ServerGoes, InCallback, vars
    <3> QED
      BY <1>1, <3>1 DEF InCallback
  <2> QED
    BY <2>1, <2>2 DEF HeldInv, InCallback
<1> QED
  BY <1>2, <1>3, <1>4, <1>5, <1>6, <1>7, CallAssumption

LEMMA StopStep == ASSUME TypeOK, HeldInv, StopInv, [Next]_vars PROVE StopInv'
<1>1. /\ server \in [Call -> {"none", "reading", "locking", "body", "receive", "running",
                              "nested", "answer", "refuse", "closed", "dropped"}]
      /\ exportLock \in [Node -> Call \cup {Free, Admin}] /\ Free \notin Call
      /\ stopping \subseteq Node /\ stopped \subseteq stopping
      /\ Admin \notin Call /\ Admin # Free
  BY CallAssumption DEF TypeOK
<1>2. ASSUME NEW c \in Call, LockAndRead(c) PROVE StopInv'
  <2>1. /\ exportLock[To[c]] = Free /\ exportLock' = [exportLock EXCEPT ![To[c]] = c]
        /\ server[c] = "locking" /\ server' = [server EXCEPT ![c] = "body"]
        /\ UNCHANGED <<stopping, stopped, disturbed>>
    BY <1>2 DEF LockAndRead, ServerGoes
  <2>2. To[c] \notin stopped /\ (To[c] \in stopping => To[c] \in disturbed)
    BY <1>1, <2>1 DEF StopInv
  <2>3. \A e \in Call : InCallback(e)' /\ Stopping(e)' => To[e] \in disturbed
    BY <1>1, <2>1, <2>2 DEF StopInv, InCallback, Stopping
  <2>4. \A n \in stopping \ stopped : exportLock'[n] = Admin \/ n \in disturbed
    BY <1>1, <2>1, <2>2 DEF StopInv
  <2>5. \A e \in Call : To[e] \in stopped => server'[e] \in {"none", "closed", "dropped"}
    BY <1>1, <2>1, <2>2 DEF StopInv
  <2> QED
    BY <2>1, <2>3, <2>4, <2>5 DEF StopInv
<1>3. ASSUME NEW c \in Call, PassBack(c) PROVE StopInv'
  <2>1. /\ exportLock' = [exportLock EXCEPT ![To[c]] = Free]
        /\ disturbed \subseteq disturbed'
        /\ exportLock[To[c]] # Free => To[c] \in disturbed'
        /\ server[c] = "locking" /\ server' = [server EXCEPT ![c] = "refuse"]
        /\ UNCHANGED <<stopping, stopped>>
    BY <1>3 DEF PassBack, Refuse, ServerGoes
  <2>2. To[c] \notin stopped
    BY <1>1, <2>1 DEF StopInv
  <2>3. \A e \in Call : InCallback(e)' /\ Stopping(e)' => To[e] \in disturbed'
    BY <1>1, <2>1 DEF StopInv, InCallback, Stopping
  <2>4. \A n \in stopping \ stopped : exportLock'[n] = Admin \/ n \in disturbed'
    BY <1>1, <2>1 DEF StopInv
  <2>5. \A e \in Call : To[e] \in stopped => server'[e] \in {"none", "closed", "dropped"}
    BY <1>1, <2>1, <2>2 DEF StopInv
  <2> QED
    BY <2>1, <2>3, <2>4, <2>5 DEF StopInv
<1>4. ASSUME NEW c \in Call, Close(c) PROVE StopInv'
  <2>1. /\ exportLock' = [exportLock EXCEPT ![To[c]] = Free]
        /\ server[c] = "answer" /\ server' = [server EXCEPT ![c] = "closed"]
        /\ UNCHANGED <<stopping, stopped, disturbed>>
    BY <1>4 DEF Close, CloseConnection, ServerGoes
  <2>2. To[c] \in stopping => To[c] \in disturbed
    BY <2>1 DEF StopInv, InCallback, Stopping
  <2>3. \A e \in Call : InCallback(e)' /\ Stopping(e)' => To[e] \in disturbed
    BY <1>1, <2>1 DEF StopInv, InCallback, Stopping
  <2>4. \A n \in stopping \ stopped : exportLock'[n] = Admin \/ n \in disturbed
    BY <1>1, <2>1, <2>2 DEF StopInv
  <2>5. \A e \in Call : To[e] \in stopped => server'[e] \in {"none", "closed", "dropped"}
    BY <1>1, <2>1 DEF StopInv
  <2> QED
    BY <2>1, <2>3, <2>4, <2>5 DEF StopInv
<1>5. ASSUME NEW n \in Node, Stop(n) PROVE StopInv'
  <2>1. /\ exportLock[n] = Free /\ exportLock' = [exportLock EXCEPT ![n] = Admin]
        /\ n \notin stopping /\ stopping' = stopping \cup {n}
        /\ UNCHANGED <<server, stopped, disturbed>>
    BY <1>5 DEF Stop
  <2>2. ASSUME NEW e \in Call, InCallback(e), To[e] = n PROVE n \in disturbed
    BY <1>1, <2>1, <2>2 DEF HeldInv
  <2>3. \A e \in Call : InCallback(e)' /\ Stopping(e)' => To[e] \in disturbed
    BY <2>1, <2>2 DEF StopInv, InCallback, Stopping
  <2>4. \A m \in stopping' \ stopped : exportLock'[m] = Admin \/ m \in disturbed
    BY <1>1, <2>1 DEF StopInv
  <2> QED
    BY <2>1, <2>3, <2>4 DEF StopInv
<1>6. ASSUME NEW n \in Node, StopReturns(n) PROVE StopInv'
  <2>1. /\ exportLock' = [exportLock EXCEPT ![n] = Free]
        /\ stopped' = stopped \cup {n}
        /\ \A c \in Call : To[c] = n => server[c] \in {"none", "closed", "dropped"}
        /\ UNCHANGED <<server, stopping, disturbed>>
    BY <1>6 DEF StopReturns
  <2>2. \A e \in Call : InCallback(e)' /\ Stopping(e)' => To[e] \in disturbed
    BY <2>1 DEF StopInv, InCallback, Stopping
  <2>3. \A m \in stopping \ stopped' : exportLock'[m] = Admin \/ m \in disturbed
    BY <1>1, <2>1 DEF StopInv
  <2>4. \A e \in Call : To[e] \in stopped' => server[e] \in {"none", "closed", "dropped"}
    BY <2>1 DEF StopInv
  <2> QED
    BY <2>1, <2>2, <2>3, <2>4 DEF StopInv
<1>7. CASE ~ \/ \E c \in Call : LockAndRead(c) \/ PassBack(c) \/ Close(c)
             \/ \E n \in Stoppable : Stop(n) \/ StopReturns(n)
  <2>1. UNCHANGED <<stopping, stopped, exportLock, disturbed>>
    BY <1>7 DEF Next, Begin, OtherRequest, ClientStep, SendWithoutWire, Connect,
       SendUnit, Complete, Timeout, ExchangeEnds, ServerStep, ReadRequest, ReadNothing,
       DropSocket, PullBody, BodyEnds, Service, Receive, ServiceReturns, NestedReturns,
       Write, CloseRefused, BeginNested, vars
  <2>2. \/ UNCHANGED server
        \/ \E c \in Call, pc \in {"reading", "locking", "refuse", "closed", "dropped"} :
             /\ server' = [server EXCEPT ![c] = pc]
             /\ \/ server[c] \notin {"none", "closed", "dropped"}
                \/ To[c] \notin stopped
        \/ \E c \in Call, pc \in {"receive", "running", "nested", "answer"} :
             InCallback(c) /\ server' = [server EXCEPT ![c] = pc]
    BY <1>1, <1>7 DEF Next, Begin, OtherRequest, ClientStep, SendWithoutWire, Connect,
       SendUnit, Complete, Timeout, ExchangeEnds, ServerStep, ReadRequest, ReadNothing,
       DropSocket, PullBody, BodyEnds, Service, Receive, ServiceReturns, NestedReturns,
       Write, CloseRefused, BeginNested, HandleRequest, CloseConnection, ServerGoes,
       InCallback, Stopping, vars
  <2>3. \A e \in Call : InCallback(e)' => InCallback(e)
    BY <1>1, <2>2 DEF InCallback
  <2>4. \A e \in Call : To[e] \in stopped => server'[e] \in {"none", "closed", "dropped"}
    BY <1>1, <2>2 DEF StopInv, InCallback
  <2> QED
    BY <2>1, <2>3, <2>4 DEF StopInv, Stopping
<1> QED
  BY <1>2, <1>3, <1>4, <1>5, <1>6, <1>7, CallAssumption

-----------------------------------------------------------------------------
(***************************************************************************)
(* The calls that a service makes.                                         *)
(***************************************************************************)

LEMMA NestedStep ==
  ASSUME TypeOK, NestInv, \A c \in Call : CallInv(c), [Next]_vars
  PROVE  NestInv'
<1>1. /\ client \in [Call -> {"idle", "locking", "exchange", "done"}]
      /\ server \in [Call -> {"none", "reading", "locking", "body", "receive",
                              "running", "nested", "answer", "refuse",
                              "closed", "dropped"}]
      /\ parent \in [Call -> Call \cup {Free}]
  BY DEF TypeOK
<1>2. ASSUME NEW c \in Call, NEW d \in Call, BeginNested(c, d) PROVE NestInv'
  <2>1. /\ server' = [server EXCEPT ![d] = "nested"] /\ parent' = [parent EXCEPT ![c] = d]
        /\ client[c] = "idle" /\ client' = [client EXCEPT ![c] = "locking"]
    BY <1>2 DEF BeginNested, MayBegin, ClientGoes, ServerGoes
  <2>2. ASSUME NEW e \in Call, NEW f \in Call, parent'[e] = f, server'[f] # "nested"
        PROVE  client'[e] = "done"
    <3>1. f # d /\ e # c
      BY <1>1, <2>1, <2>2
    <3> QED
      BY <1>1, <2>1, <2>2, <3>1 DEF NestInv
  <2> QED
    BY <2>2 DEF NestInv
<1>3. ASSUME NEW c \in Call, NEW d \in Call, NestedReturns(c, d) PROVE NestInv'
  <2>1. /\ server' = [server EXCEPT ![d] = "running"] /\ UNCHANGED <<parent, client>>
        /\ \A e \in Call : parent[e] = d => client[e] = "done"
    BY <1>3 DEF NestedReturns, ServerGoes
  <2> QED
    BY <1>1, <2>1 DEF NestInv
<1>4. CASE ~ \E c, d \in Call : BeginNested(c, d) \/ NestedReturns(c, d)
  <2>1. UNCHANGED parent
    BY <1>4 DEF Next, Begin, OtherRequest, ClientStep, SendWithoutWire, Connect,
       SendUnit, Complete, Timeout, ExchangeEnds, ServerStep, ReadRequest, ReadNothing,
       DropSocket, LockAndRead, PullBody, BodyEnds, Service, Receive, ServiceReturns,
       PassBack, Write, Close, CloseRefused, Stop, StopReturns, vars
  <2>2. \/ UNCHANGED client
        \/ \E c \in Call, pc \in {"locking", "exchange", "done"} :
             client[c] # "done" /\ client' = [client EXCEPT ![c] = pc]
    BY <1>4 DEF Next, Begin, OtherRequest, ClientStep, SendWithoutWire, Connect,
       SendUnit, Complete, Timeout, ExchangeEnds, ServerStep, ReadRequest, ReadNothing,
       DropSocket, LockAndRead, PullBody, BodyEnds, Service, Receive, ServiceReturns,
       PassBack, Write, Close, CloseRefused, Stop, StopReturns, MayBegin, ClientGoes,
       vars
  <2>3. \/ UNCHANGED server
        \/ \E c \in Call, pc \in {"reading", "locking", "body", "receive", "running",
                                  "answer", "refuse", "closed", "dropped"} :
             server[c] # "nested" /\ server' = [server EXCEPT ![c] = pc]
    <3>1. \A c \in Call : client[c] \in {"idle", "locking"} => server[c] = "none"
      BY DEF CallInv, ConnInv
    <3> QED
      BY <1>4, <3>1 DEF Next, Begin, OtherRequest, ClientStep, SendWithoutWire,
         Connect, SendUnit, Complete, Timeout, ExchangeEnds, ServerStep, ReadRequest,
         ReadNothing, DropSocket, LockAndRead, PullBody, BodyEnds, Service, Receive,
         ServiceReturns, PassBack, Write, Close, CloseRefused, Stop, StopReturns,
         MayBegin, HandleRequest, Refuse, CloseConnection, ServerGoes, vars
  <2>4. ASSUME NEW e \in Call, NEW f \in Call, parent'[e] = f, server'[f] # "nested"
        PROVE  client'[e] = "done"
    <3>1. server[f] # "nested"
      BY <1>1, <2>3, <2>4
    <3>2. client[e] = "done"
      BY <2>1, <2>4, <3>1 DEF NestInv
    <3> QED
      BY <1>1, <2>2, <3>2
  <2> QED
    BY <2>4 DEF NestInv
<1> QED
  BY <1>2, <1>3, <1>4

-----------------------------------------------------------------------------
(***************************************************************************)
(* The inductive invariant, and what follows from it.                      *)
(***************************************************************************)

LEMMA InitInv == ASSUME Init PROVE IInv
<1>1. TypeOK
  <2>1. /\ 0 \in 0..(Head + Body) /\ 0 \in 0..Buffer /\ 0 \in 0..Body /\ 0 \in 0..MaxReply
        /\ 0 \in 0..(Head + MaxReply)
    BY Sizes
  <2>2. NoResult \in Results
    BY <2>1 DEF NoResult, Results
  <2>3. result \in [Call -> Results]
    BY <2>2 DEF Init
  <2>4. /\ sent \in [Call -> 0..(Head + Body)] /\ data_len \in [Call -> 0..Buffer]
        /\ consumed \in [Call -> 0..Body] /\ answer \in [Call -> 0..MaxReply]
        /\ written \in [Call -> 0..(Head + MaxReply)]
    BY <2>1 DEF Init
  <2>5. /\ stopping \subseteq Node /\ stopped \subseteq stopping /\ disturbed \subseteq Node
        /\ sendLock \in [Node -> Call \cup {Free}]
        /\ exportLock \in [Node -> Call \cup {Free, Admin}]
        /\ client \in [Call -> {"idle", "locking", "exchange", "done"}]
        /\ parent \in [Call -> Call \cup {Free}]
        /\ server \in [Call -> {"none", "reading", "locking", "body", "receive",
                                "running", "nested", "answer", "refuse",
                                "closed", "dropped"}]
        /\ executed \in [Call -> {"no", "whole", "garbage"}]
    BY DEF Init
  <2> QED
    BY <2>3, <2>4, <2>5 DEF TypeOK, Results
<1>2. HeldInv /\ StopInv
  BY DEF Init, HeldInv, StopInv, InCallback
<1>3. ASSUME NEW c \in Call PROVE CallInv(c)
  <2>1. /\ client[c] = "idle" /\ server[c] = "none" /\ answer[c] = 0 /\ written[c] = 0
        /\ executed[c] = "no" /\ result[c] = NoResult
    BY DEF Init
  <2> QED
    BY <2>1, Sizes DEF CallInv, ConnInv, ServiceInv, WrittenInv, ResultInv, PathInv,
       NoResult
<1>4. NestInv
  BY CallAssumption DEF Init, NestInv
<1> QED
  BY <1>1, <1>2, <1>3, <1>4 DEF IInv

LEMMA NextInv == ASSUME IInv, [Next]_vars PROVE IInv'
<1>1. TypeOK'
  BY TypeStep DEF IInv, CallInv
<1>2. HeldInv' /\ StopInv' /\ NestInv' /\ \A c \in Call : CallInv(c)'
  BY HeldStep, StopStep, NestedStep, CallStep DEF IInv
<1> QED
  BY <1>1, <1>2 DEF IInv

LEMMA Inductive == Spec => []IInv
BY InitInv, NextInv, PTL DEF Spec

(* Every variable keeps its type: no count of what was sent, buffered, read *)
(* or written leaves its bounds, however the pieces arrive.                 *)
THEOREM TypeCorrect == Spec => []TypeOK
<1>1. IInv => TypeOK
  BY DEF IInv
<1> QED
  BY <1>1, Inductive, PTL

(* Whatever the pieces in which request and answer travel, and whoever      *)
(* gives up: a reply with HTTP status 200 comes from a service that was     *)
(* called, and if libcurl reports success it is the whole answer to the     *)
(* whole request; and a service is given a part of a body only when its     *)
(* caller gave up.  A stop of the server cuts neither, unless the lock that *)
(* it holds was released by a request that is no call.                      *)
THEOREM ContentIsTrue == Spec => []ContentTrue
<1>1. ASSUME IInv, NEW c \in Call, result[c].http = 200
      PROVE  /\ executed[c] # "no" /\ result[c].reply <= answer[c]
             /\ ReplyStatus(result[c]) = "ok" /\ ~CutOff(c) =>
                  executed[c] = "whole" /\ result[c].reply = answer[c]
  <2>1. ResultInv(c)
    BY <1>1 DEF IInv, CallInv
  <2> QED
    BY <1>1, <2>1 DEF ResultInv, ReplyStatus
<1>2. IInv => GarbageOnlyWhenCut
  BY DEF IInv, CallInv, ServiceInv, GarbageOnlyWhenCut
<1>3. IInv => ContentTrue
  BY <1>1, <1>2 DEF ContentTrue, ReplyTrue
<1> QED
  BY <1>3, Inductive, PTL

(* The callback of the wiring admin, which walks over the receive services, *)
(* serves one call at a time on each node, with every interleaving of the   *)
(* workers: only a request that is no call, whose thread releases a lock it *)
(* does not hold, breaks it.                                                *)
THEOREM ReceivesAlone == Spec => []ReceiveAlone
<1>1. IInv => ReceiveAlone
  BY AloneFromHeld DEF IInv, ReceiveAlone
<1> QED
  BY <1>1, Inductive, PTL

-----------------------------------------------------------------------------
(***************************************************************************)
(* The refinement of RemoteCall.                                           *)
(***************************************************************************)

\* a step that is not seen in a call from outside
Unseen(e) ==
  /\ CallState(e)' = CallState(e) /\ parent'[e] = parent[e]
  /\ ServiceState(e)' = ServiceState(e) /\ executed'[e] = executed[e]
  /\ answer'[e] = answer[e] /\ Got(e)' = Got(e)

LEMMA SameUnseen == ASSUME NEW e, Same(e), parent'[e] = parent[e] PROVE Unseen(e)
BY DEF Same, Unseen, CallState, ServiceState, Got

LEMMA RemoteStutters ==
  ASSUME UNCHANGED <<stopping, disturbed>>, \A e \in Proper : Unseen(e)
  PROVE  UNCHANGED Remote!vars
<1>1. /\ [e \in Proper |-> CallState(e)]' = [e \in Proper |-> CallState(e)]
      /\ [e \in Proper |-> parent[e]]' = [e \in Proper |-> parent[e]]
      /\ {e \in Proper : CutOff(e)}' = {e \in Proper : CutOff(e)}
  BY DEF Unseen, CutOff, Stopping
<1>2. /\ [e \in Proper |-> ServiceState(e)]' = [e \in Proper |-> ServiceState(e)]
      /\ [e \in Proper |-> executed[e]]' = [e \in Proper |-> executed[e]]
  BY DEF Unseen
<1>3. /\ [e \in Proper |-> answer[e]]' = [e \in Proper |-> answer[e]]
      /\ [e \in Proper |-> Got(e)]' = [e \in Proper |-> Got(e)]
  BY DEF Unseen
<1> QED
  BY <1>1, <1>2, <1>3 DEF Remote!vars

\* the steps of a call that nobody sees from outside
LEMMA UnseenStep ==
  ASSUME IInv, NEW c \in Call,
         \/ Connect(c) \/ SendUnit(c)
         \/ ReadRequest(c) \/ ReadNothing(c) \/ DropSocket(c) \/ LockAndRead(c)
         \/ PullBody(c) \/ BodyEnds(c) \/ Write(c) \/ Close(c) \/ CloseRefused(c)
  PROVE  Unseen(c)
<1>1. UNCHANGED <<parent, result, executed, answer>>
  BY DEF Connect, SendUnit, ReadRequest, ReadNothing, DropSocket, LockAndRead,
     PullBody, BodyEnds, Write, Close, CloseRefused
<1>2. TypeOK /\ CallInv(c)
  BY DEF IInv
<1>3. \/ client'[c] = client[c]
      \/ client[c] = "locking" /\ client'[c] = "exchange"
  BY <1>2, Domains DEF Connect, SendUnit, ReadRequest, ReadNothing, DropSocket,
     LockAndRead, PullBody, BodyEnds, Write, Close, CloseRefused, ClientGoes
<1>4. \/ server'[c] = server[c]
      \/ executed[c] = "no"
      \/ server[c] \notin {"running", "nested"} /\ server'[c] \notin {"running", "nested"}
  BY <1>2, Domains DEF Connect, SendUnit, ReadRequest, ReadNothing, DropSocket,
     LockAndRead, PullBody, BodyEnds, Write, Close, CloseRefused, HandleRequest,
     Refuse, CloseConnection, ServerGoes, CallInv, ConnInv, PathInv
<1>5. CallState(c)' = CallState(c) /\ Got(c)' = Got(c)
  BY <1>1, <1>3 DEF CallState, Got
<1>6. ServiceState(c)' = ServiceState(c)
  BY <1>1, <1>4 DEF ServiceState
<1> QED
  BY <1>1, <1>5, <1>6 DEF Unseen

\* a step of one call is not seen in the others
LEMMA UnseenElsewhere ==
  ASSUME IInv, NEW c \in Call, NEW e \in Call, e # c,
         \/ Begin(c) \/ OtherRequest(c) \/ ClientStep(c) \/ Timeout(c)
         \/ ReadRequest(c) \/ ReadNothing(c) \/ DropSocket(c) \/ LockAndRead(c)
         \/ PullBody(c) \/ BodyEnds(c) \/ Receive(c) \/ ServiceReturns(c)
         \/ PassBack(c) \/ Write(c) \/ Close(c) \/ CloseRefused(c)
  PROVE  Unseen(e)
<1>1. TypeOK
  BY DEF IInv
<1>2. Same(e)
  BY <1>1, Elsewhere
<1>3. UNCHANGED parent
  BY DEF Begin, OtherRequest, ClientStep, SendWithoutWire, Connect, SendUnit, Complete,
     Timeout, ExchangeEnds, ReadRequest, ReadNothing, DropSocket, LockAndRead,
     PullBody, BodyEnds, Receive, ServiceReturns, PassBack, Write, Close, CloseRefused
<1> QED
  BY <1>2, <1>3, SameUnseen

LEMMA BeginInvokes == ASSUME IInv, NEW c \in Call, Begin(c) PROVE c \in Proper /\ Remote!Invoke(c)
<1>1. /\ c \in Proper /\ UNCHANGED <<stopping, disturbed, parent, server>>
      /\ UNCHANGED <<executed, answer, result>>
      /\ client[c] = "idle" /\ client'[c] = "locking"
  BY Domains, CallAssumption DEF IInv, Begin, MayBegin, ClientGoes, Proper
<1>2. /\ CallState(c) = "new" /\ CallState(c)' = "calling" /\ Got(c)' = Got(c)
      /\ ServiceState(c)' = ServiceState(c)
  BY <1>1 DEF CallState, Got, ServiceState
<1>3. \A e \in Proper : e # c => Unseen(e)
  BY UnseenElsewhere DEF Proper
<1>4. [e \in Proper |-> CallState(e)]' = [[e \in Proper |-> CallState(e)] EXCEPT ![c] = "calling"]
  BY <1>1, <1>2, <1>3 DEF Unseen
<1>5. /\ [e \in Proper |-> parent[e]]' = [e \in Proper |-> parent[e]]
      /\ {e \in Proper : CutOff(e)}' = {e \in Proper : CutOff(e)}
      /\ [e \in Proper |-> executed[e]]' = [e \in Proper |-> executed[e]]
      /\ [e \in Proper |-> answer[e]]' = [e \in Proper |-> answer[e]]
  BY <1>1 DEF CutOff, Stopping
<1>6. /\ [e \in Proper |-> ServiceState(e)]' = [e \in Proper |-> ServiceState(e)]
      /\ [e \in Proper |-> Got(e)]' = [e \in Proper |-> Got(e)]
  BY <1>2, <1>3 DEF Unseen
<1> QED
  BY <1>1, <1>2, <1>4, <1>5, <1>6 DEF Remote!Invoke

LEMMA NestedNests ==
  ASSUME IInv, NEW c \in Call, NEW d \in Call, BeginNested(c, d)
  PROVE  c \in Proper /\ d \in Proper /\ Remote!Nest(c, d)
<1>1. /\ UNCHANGED <<stopping, disturbed, executed, answer, result>>
      /\ client[c] = "idle" /\ client' = [client EXCEPT ![c] = "locking"]
      /\ server[d] = "running" /\ server' = [server EXCEPT ![d] = "nested"]
      /\ parent' = [parent EXCEPT ![c] = d] /\ c \notin Other
  BY DEF BeginNested, MayBegin, ClientGoes, ServerGoes
<1>2. /\ client \in [Call -> {"idle", "locking", "exchange", "done"}]
      /\ server \in [Call -> {"none", "reading", "locking", "body", "receive",
                              "running", "nested", "answer", "refuse",
                              "closed", "dropped"}]
      /\ parent \in [Call -> Call \cup {Free}]
  BY DEF IInv, TypeOK
<1>3. c \in Proper /\ d \in Proper /\ executed[d] # "no"
  BY <1>1 DEF IInv, CallInv, ServiceInv, PathInv, Proper
<1>4. CallState(c) = "new" /\ ServiceState(d) = "running"
  BY <1>1, <1>3 DEF CallState, ServiceState
<1>5. CallState(c)' = "calling" /\ \A e \in Proper : e # c => CallState(e)' = CallState(e)
  BY <1>1, <1>2 DEF CallState, Proper
<1>6. \A e \in Proper : ServiceState(e)' = ServiceState(e)
  BY <1>1, <1>2, <1>3 DEF ServiceState, Proper
<1>7. \A e \in Proper : Got(e)' = Got(e)
  BY <1>1, <1>2 DEF Got, Proper
<1>8. /\ [e \in Proper |-> CallState(e)]'
           = [[e \in Proper |-> CallState(e)] EXCEPT ![c] = "calling"]
      /\ [e \in Proper |-> parent[e]]' = [[e \in Proper |-> parent[e]] EXCEPT ![c] = d]
  BY <1>1, <1>2, <1>3, <1>5 DEF Proper
<1>9. /\ [e \in Proper |-> ServiceState(e)]' = [e \in Proper |-> ServiceState(e)]
      /\ [e \in Proper |-> Got(e)]' = [e \in Proper |-> Got(e)]
      /\ {e \in Proper : CutOff(e)}' = {e \in Proper : CutOff(e)}
  BY <1>1, <1>6, <1>7 DEF CutOff, Stopping
<1> QED
  BY <1>1, <1>3, <1>4, <1>8, <1>9 DEF Remote!Nest

\* a caller that has given up is served all the same; a request that cannot be
\* parsed, or whose service is gone, is not
LEMMA ReceiveServes ==
  ASSUME IInv, NEW c \in Call, Receive(c)
  PROVE  c \in Proper /\ (Remote!Serve(c) \/ UNCHANGED Remote!vars)
<1>1. /\ server[c] = "receive" /\ executed[c] = "no" /\ c \in Proper
      /\ client[c] \notin {"idle", "locking"}
      /\ consumed[c] = Body \/ GivenUp(c) \/ CutOff(c)
  BY DEF IInv, CallInv, ConnInv, PathInv, Receive, Proper
<1>2. \A e \in Proper : e # c => Unseen(e)
  BY UnseenElsewhere DEF Proper
<1>3. UNCHANGED <<stopping, disturbed, client, parent, answer, result>>
  BY DEF Receive
<1>4. TypeOK
  BY DEF IInv
<1>5. \A e \in Proper : CallState(e)' = CallState(e) /\ Got(e)' = Got(e)
  BY <1>3 DEF CallState, Got
<1>6. CASE UNCHANGED executed
  <2>1. CallState(c)' = CallState(c) /\ Got(c)' = Got(c)
    BY <1>1, <1>3, <1>5 DEF CallState, Got
  <2>2. ServiceState(c)' = ServiceState(c)
    <3>1. executed[c] = "no" /\ executed'[c] = "no"
      BY <1>1, <1>6
    <3> QED
      BY <3>1 DEF ServiceState
  <2>3. Unseen(c)
    BY <1>3, <1>6, <2>1, <2>2 DEF Unseen
  <2> QED
    BY <1>1, <1>2, <1>3, <2>3, RemoteStutters
<1>7. CASE ~UNCHANGED executed
  <2> DEFINE g == IF consumed[c] = Body THEN "whole" ELSE "garbage"
  <2>1. executed' = [executed EXCEPT ![c] = g] /\ server' = [server EXCEPT ![c] = "running"]
    BY <1>7 DEF Receive, ServerGoes
  <2>2. executed'[c] = g /\ server'[c] = "running"
    BY <1>4, <2>1, Domains
  <2>3. g \in {"whole", "garbage"} /\ (g = "garbage" => GivenUp(c) \/ CutOff(c))
    BY <1>1
  <2> HIDE DEF g
  <2>4. ServiceState(c) = "idle" /\ ServiceState(c)' = "running"
    BY <1>1, <2>2, <2>3 DEF ServiceState
  <2>5. CallState(c) # "new" /\ (GivenUp(c) => CallState(c) = "returned")
    BY <1>1 DEF CallState, GivenUp
  <2>6. /\ [e \in Proper |-> ServiceState(e)]'
             = [[e \in Proper |-> ServiceState(e)] EXCEPT ![c] = "running"]
        /\ [e \in Proper |-> executed[e]]' = [[e \in Proper |-> executed[e]] EXCEPT ![c] = g]
    BY <1>1, <1>2, <2>2, <2>4 DEF Unseen
  <2>7. /\ [e \in Proper |-> CallState(e)]' = [e \in Proper |-> CallState(e)]
        /\ [e \in Proper |-> parent[e]]' = [e \in Proper |-> parent[e]]
        /\ [e \in Proper |-> answer[e]]' = [e \in Proper |-> answer[e]]
        /\ [e \in Proper |-> Got(e)]' = [e \in Proper |-> Got(e)]
        /\ {e \in Proper : CutOff(e)}' = {e \in Proper : CutOff(e)}
    BY <1>3, <1>5 DEF CutOff, Stopping
  <2> QED
    BY <1>1, <2>3, <2>4, <2>5, <2>6, <2>7 DEF Remote!Serve
<1> QED
  BY <1>1, <1>6, <1>7

LEMMA ServiceAnswers ==
  ASSUME IInv, NEW c \in Call, ServiceReturns(c)
  PROVE  c \in Proper /\ Remote!Answer(c)
<1>1. /\ server[c] = "running" /\ server' = [server EXCEPT ![c] = "answer"]
      /\ UNCHANGED <<stopping, disturbed, client, parent, executed, result>>
  BY DEF ServiceReturns, ServerGoes
<1>2. PICK n \in 0..MaxReply : answer' = [answer EXCEPT ![c] = n]
  BY DEF ServiceReturns
<1>3. TypeOK /\ c \in Proper /\ executed[c] # "no"
  BY <1>1 DEF IInv, CallInv, ServiceInv, PathInv, Proper
<1>4. server'[c] = "answer" /\ answer'[c] = n
  BY <1>1, <1>2, <1>3, Domains
<1>5. ServiceState(c) = "running" /\ ServiceState(c)' = "answered"
  BY <1>1, <1>3, <1>4 DEF ServiceState
<1>6. \A e \in Proper : parent[e] = c => CallState(e) = "returned"
  BY <1>1 DEF IInv, NestInv, CallState, Proper
<1>7. \A e \in Proper : e # c => Unseen(e)
  BY UnseenElsewhere DEF Proper
<1>8. /\ [e \in Proper |-> ServiceState(e)]'
           = [[e \in Proper |-> ServiceState(e)] EXCEPT ![c] = "answered"]
      /\ [e \in Proper |-> answer[e]]' = [[e \in Proper |-> answer[e]] EXCEPT ![c] = n]
  BY <1>3, <1>4, <1>5, <1>7 DEF Unseen
<1>9. \A e \in Proper : CallState(e)' = CallState(e) /\ Got(e)' = Got(e)
  BY <1>1 DEF CallState, Got
<1>10. /\ [e \in Proper |-> CallState(e)]' = [e \in Proper |-> CallState(e)]
       /\ [e \in Proper |-> parent[e]]' = [e \in Proper |-> parent[e]]
       /\ [e \in Proper |-> executed[e]]' = [e \in Proper |-> executed[e]]
       /\ [e \in Proper |-> Got(e)]' = [e \in Proper |-> Got(e)]
       /\ {e \in Proper : CutOff(e)}' = {e \in Proper : CutOff(e)}
  BY <1>1, <1>9 DEF CutOff, Stopping
<1> QED
  BY <1>3, <1>5, <1>6, <1>8, <1>10 DEF Remote!Answer

\* what a caller may make of its result
LEMMA MayBeGot ==
  ASSUME NEW c \in Proper, answer[c] \in Nat, NEW n \in 0..answer[c],
         NEW status \in {"ok", "error"},
         status = "ok" =>
           \/ n = 0 \/ CutOff(c)
           \/ n = answer[c] /\ ServiceState(c) = "answered" /\ executed[c] = "whole"
  PROVE  [status |-> status, reply |-> n] \in Remote!MayGet(c)
<1>1. /\ [e \in Proper |-> answer[e]][c] = answer[c]
      /\ [e \in Proper |-> ServiceState(e)][c] = ServiceState(c)
      /\ [e \in Proper |-> executed[e]][c] = executed[c]
      /\ c \in {e \in Proper : CutOff(e)} <=> CutOff(c)
  OBVIOUS
<1> DEFINE Whole == {m \in 0..answer[c] :
                       \/ m = 0 \/ CutOff(c)
                       \/ m = answer[c] /\ ServiceState(c) = "answered" /\ executed[c] = "whole"}
<1>2. Remote!MayGet(c) = {[status |-> "error", reply |-> m] : m \in 0..answer[c]}
                           \cup {[status |-> "ok", reply |-> m] : m \in Whole}
  BY <1>1 DEF Remote!MayGet
<1>3. status = "ok" => n \in Whole
  OBVIOUS
<1> HIDE DEF Whole
<1> QED
  BY <1>2, <1>3

\* what ends a call without an answer
LEMMA NothingMayBeGot ==
  ASSUME NEW c \in Proper, answer[c] \in Nat, client'[c] = "done", result'[c].http # 200
  PROVE  Got(c)' \in Remote!MayGet(c)
<1> DEFINE status == IF result'[c].curl # "no wire" /\ ReplyStatus(result[c])' = "ok"
                     THEN "ok" ELSE "error"
<1>1. Got(c)' = [status |-> status, reply |-> 0]
  BY DEF Got
<1>3. status \in {"ok", "error"}
  OBVIOUS
<1> HIDE DEF status
<1>2. 0 \in 0..answer[c]
  OBVIOUS
<1> QED
  BY <1>1, <1>2, <1>3, MayBeGot

LEMMA AnswerMayBeGot ==
  ASSUME IInv, IInv', NEW c \in Proper, client'[c] = "done", result'[c].http = 200,
         UNCHANGED <<stopping, disturbed, server, executed, answer>>
  PROVE  Got(c)' \in Remote!MayGet(c)
<1>1. c \in Call /\ TypeOK /\ TypeOK' /\ ResultInv(c)' /\ ServiceInv(c)
  BY DEF IInv, CallInv, Proper
<1>2. answer[c] \in Nat /\ result'[c].reply \in Nat
  <2>1. answer[c] \in Nat
    BY <1>1, CallType
  <2>2. result'[c] \in Results
    BY <1>1 DEF TypeOK, Results
  <2>3. result'[c].reply \in 0..MaxReply
    BY <2>2 DEF Results
  <2> QED
    BY <2>1, <2>3, Sizes
<1> DEFINE n == result'[c].reply
           curl == result'[c].curl
<1>3. /\ answer[c] # 0 /\ executed[c] # "no" /\ n <= answer[c]
      /\ curl = "ok" => (executed[c] = "whole" /\ n = answer[c]) \/ CutOff(c)
  BY <1>1 DEF ResultInv, CutOff, Stopping
<1>4. ServiceState(c) = "answered"
  BY <1>1, <1>3 DEF ServiceInv, ServiceState
<1>5. Got(c)' = [status |-> IF curl = "ok" THEN "ok" ELSE "error", reply |-> n]
  BY DEF Got, ReplyStatus
<1>6. n \in Nat
  BY <1>2
<1> HIDE DEF n, curl
<1>7. n \in 0..answer[c]
  BY <1>2, <1>3, <1>6
<1>8. CASE curl = "ok"
  <2>1. [status |-> "ok", reply |-> n] \in Remote!MayGet(c)
    BY <1>2, <1>3, <1>4, <1>7, <1>8, MayBeGot
  <2> QED
    BY <1>5, <1>8, <2>1
<1>9. CASE curl # "ok"
  <2>1. [status |-> "error", reply |-> n] \in Remote!MayGet(c)
    BY <1>2, <1>7, MayBeGot
  <2> QED
    BY <1>5, <1>9, <2>1
<1> QED
  BY <1>8, <1>9

LEMMA EndsReturn ==
  ASSUME IInv, IInv', NEW c \in Call, c \notin Other,
         SendWithoutWire(c) \/ Complete(c) \/ Timeout(c)
  PROVE  c \in Proper /\ Remote!Return(c)
<1>1. /\ client[c] \in {"locking", "exchange"} /\ client' = [client EXCEPT ![c] = "done"]
      /\ UNCHANGED <<stopping, disturbed, parent, server, executed, answer>>
  BY DEF SendWithoutWire, Complete, Timeout, ExchangeEnds, ClientGoes
<1>2. c \in Proper /\ TypeOK /\ answer[c] \in Nat
  BY CallType DEF IInv, Proper
<1>3. client'[c] = "done"
  BY <1>1, <1>2, Domains
<1>4. Got(c)' \in Remote!MayGet(c)
  BY <1>1, <1>2, <1>3, NothingMayBeGot, AnswerMayBeGot
<1>5. CallState(c) = "calling" /\ CallState(c)' = "returned"
  BY <1>1, <1>3 DEF CallState
<1>6. \A e \in Proper : e # c => Unseen(e)
  BY UnseenElsewhere DEF Proper, ClientStep
<1>7. \A e \in Proper : ServiceState(e)' = ServiceState(e)
  BY <1>1 DEF ServiceState
<1>8. /\ [e \in Proper |-> CallState(e)]'
           = [[e \in Proper |-> CallState(e)] EXCEPT ![c] = "returned"]
      /\ [e \in Proper |-> Got(e)]' = [[e \in Proper |-> Got(e)] EXCEPT ![c] = Got(c)']
  BY <1>2, <1>5, <1>6 DEF Unseen
<1>9. /\ [e \in Proper |-> parent[e]]' = [e \in Proper |-> parent[e]]
      /\ [e \in Proper |-> ServiceState(e)]' = [e \in Proper |-> ServiceState(e)]
      /\ [e \in Proper |-> executed[e]]' = [e \in Proper |-> executed[e]]
      /\ [e \in Proper |-> answer[e]]' = [e \in Proper |-> answer[e]]
      /\ {e \in Proper : CutOff(e)}' = {e \in Proper : CutOff(e)}
  BY <1>1, <1>7 DEF CutOff, Stopping
<1> QED
  BY <1>2, <1>4, <1>5, <1>8, <1>9 DEF Remote!Return

\* what makes a stop, or a stray release of its lock, cut something off
LEMMA OnlyCuts ==
  ASSUME \A e \in Proper : Unseen(e), \A e \in Proper : CutOff(e) => CutOff(e)'
  PROVE  Remote!Cut
<1> DEFINE S == {e \in Proper : CutOff(e)'}
<1>1. {e \in Proper : CutOff(e)}' = {e \in Proper : CutOff(e)} \cup S
  OBVIOUS
<1>2. S \in SUBSET Proper
  OBVIOUS
<1> HIDE DEF S
<1>3. /\ [e \in Proper |-> CallState(e)]' = [e \in Proper |-> CallState(e)]
      /\ [e \in Proper |-> parent[e]]' = [e \in Proper |-> parent[e]]
      /\ [e \in Proper |-> ServiceState(e)]' = [e \in Proper |-> ServiceState(e)]
      /\ [e \in Proper |-> executed[e]]' = [e \in Proper |-> executed[e]]
      /\ [e \in Proper |-> answer[e]]' = [e \in Proper |-> answer[e]]
      /\ [e \in Proper |-> Got(e)]' = [e \in Proper |-> Got(e)]
  BY DEF Unseen
<1> QED
  BY <1>1, <1>2, <1>3 DEF Remote!Cut

LEMMA StopCuts == ASSUME [Next]_vars, NEW n, Stop(n) \/ StopReturns(n) PROVE Remote!Cut
<1>1. UNCHANGED <<clientVars, server, executed, answer>>
  BY DEF Stop, StopReturns
<1>2. \A e \in Proper : Unseen(e)
  BY <1>1 DEF Unseen, CallState, ServiceState, Got
<1> QED
  BY <1>2, OnlyCuts, CutGrows DEF Proper

LEMMA PassBackCuts ==
  ASSUME IInv, [Next]_vars, NEW c \in Call, PassBack(c) PROVE Remote!Cut
<1>1. \A e \in Proper : Unseen(e)
  BY UnseenElsewhere DEF Proper, PassBack
<1> QED
  BY <1>1, OnlyCuts, CutGrows DEF Proper

\* the service goes on: it was running all the time
LEMMA NestedUnseen ==
  ASSUME IInv, NEW c \in Call, NEW d \in Call, NestedReturns(c, d)
  PROVE  UNCHANGED Remote!vars
<1>1. /\ server[d] = "nested" /\ server' = [server EXCEPT ![d] = "running"]
      /\ UNCHANGED <<stopping, disturbed, client, parent, executed, answer, result>>
  BY DEF NestedReturns, ServerGoes
<1>2. server'[d] = "running" /\ \A e \in Call : e # d => server'[e] = server[e]
  BY <1>1, Domains DEF IInv
<1>3. \A e \in Proper : ServiceState(e)' = ServiceState(e)
  BY <1>1, <1>2 DEF ServiceState, Proper
<1>4. \A e \in Proper : CallState(e)' = CallState(e) /\ Got(e)' = Got(e)
  BY <1>1 DEF CallState, Got
<1> QED
  BY <1>1, <1>3, <1>4, RemoteStutters DEF Unseen

\* a request that is no call is not seen, whatever it does
LEMMA OtherUnseen ==
  ASSUME IInv, NEW c \in Other,
         \/ OtherRequest(c) \/ SendWithoutWire(c) \/ Complete(c) \/ Timeout(c)
  PROVE  UNCHANGED Remote!vars
<1>1. c \in Call /\ UNCHANGED <<stopping, disturbed>>
  BY CallAssumption DEF OtherRequest, SendWithoutWire, Complete, Timeout, ExchangeEnds
<1>2. \A e \in Proper : Unseen(e)
  BY <1>1, UnseenElsewhere DEF Proper, ClientStep
<1> QED
  BY <1>1, <1>2, RemoteStutters

LEMMA CallUnseen ==
  ASSUME IInv, NEW c \in Call,
         \/ Connect(c) \/ SendUnit(c)
         \/ ReadRequest(c) \/ ReadNothing(c) \/ DropSocket(c) \/ LockAndRead(c)
         \/ PullBody(c) \/ BodyEnds(c) \/ Write(c) \/ Close(c) \/ CloseRefused(c)
  PROVE  UNCHANGED Remote!vars
<1>1. UNCHANGED <<stopping, disturbed>>
  BY DEF Connect, SendUnit, ReadRequest, ReadNothing, DropSocket, LockAndRead,
     PullBody, BodyEnds, Write, Close, CloseRefused
<1>2. \A e \in Proper : Unseen(e)
  BY UnseenStep, UnseenElsewhere DEF Proper, ClientStep
<1> QED
  BY <1>1, <1>2, RemoteStutters

LEMMA RemoteInit == ASSUME Init PROVE Remote!Init
<1>1. \A c \in Proper : /\ CallState(c) = "new" /\ parent[c] = Free /\ ~CutOff(c)
                        /\ ServiceState(c) = "idle" /\ executed[c] = "no" /\ answer[c] = 0
                        /\ Got(c) = [status |-> "none", reply |-> 0]
  BY DEF Init, CallState, ServiceState, Got, CutOff, Stopping, Proper
<1> QED
  BY <1>1 DEF Remote!Init, Remote!Nothing

LEMMA RemoteStep ==
  ASSUME IInv, IInv', [Next]_vars
  PROVE  [Remote!Next]_(Remote!vars)
<1>1. ASSUME NEW c \in Call, Begin(c) \/ ServiceReturns(c) PROVE Remote!Next
  BY <1>1, BeginInvokes, ServiceAnswers DEF Remote!Next
<1>2. ASSUME NEW c \in Call, NEW d \in Call, BeginNested(c, d) PROVE Remote!Next
  BY <1>2, NestedNests DEF Remote!Next
<1>3. ASSUME NEW c \in Call, Receive(c) PROVE [Remote!Next]_(Remote!vars)
  BY <1>3, ReceiveServes DEF Remote!Next
<1>4. ASSUME NEW c \in Call, \/ OtherRequest(c) \/ SendWithoutWire(c) \/ Complete(c)
                             \/ Timeout(c)
      PROVE  [Remote!Next]_(Remote!vars)
  <2>1. CASE c \in Other
    BY <1>4, <2>1, OtherUnseen
  <2>2. CASE c \notin Other
    BY <1>4, <2>2, EndsReturn DEF OtherRequest, Remote!Next
  <2> QED
    BY <2>1, <2>2
<1>5. ASSUME NEW c \in Call, NEW d \in Call, NestedReturns(c, d)
      PROVE  UNCHANGED Remote!vars
  BY <1>5, NestedUnseen
<1>6. ASSUME NEW n \in Stoppable, Stop(n) \/ StopReturns(n) PROVE Remote!Next
  BY <1>6, StopCuts DEF Remote!Next
<1>8. ASSUME NEW c \in Call, PassBack(c) PROVE Remote!Next
  BY <1>8, PassBackCuts DEF Remote!Next
<1>7. CASE UNCHANGED vars
  <2>1. \A e \in Proper : Unseen(e)
    BY <1>7 DEF vars, Unseen, CallState, ServiceState, Got
  <2> QED
    BY <1>7, <2>1, RemoteStutters DEF vars
<1> QED
  BY <1>1, <1>2, <1>3, <1>4, <1>5, <1>6, <1>7, <1>8, CallUnseen DEF Next, ClientStep,
     ServerStep, Service

(* A remote call is what its two admins, libcurl and the web server make of *)
(* it: its service runs at most once and not before the call, answers once, *)
(* after the calls it makes itself have returned, and the caller gets that  *)
(* answer or none, for any nodes, calls, nestings and sizes.                *)
THEOREM CallImplemented == Spec => ImplementsCall
<1>1. Init => Remote!Init
  BY RemoteInit
<1>2. IInv /\ IInv' /\ [Next]_vars => [Remote!Next]_(Remote!vars)
  BY RemoteStep
<1> QED
  BY <1>1, <1>2, Inductive, PTL DEF Spec, ImplementsCall, Remote!Spec
=============================================================================
