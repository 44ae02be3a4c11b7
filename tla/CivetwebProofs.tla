--------------------------- MODULE CivetwebProofs ---------------------------
(***************************************************************************)
(* Proofs about Civetweb, for any number of workers, any size of the ring  *)
(* and any number of connections: the types, that nothing is left when the *)
(* context is freed, and that the threads implement ServerPool.            *)
(***************************************************************************)
EXTENDS Civetweb, FiniteSetTheorems, SequenceTheorems, TLAPS

(***************************************************************************)
(* The inductive invariant.                                                *)
(***************************************************************************)

\* num_threads counts the workers that have been created and have not left
Running(f) == {w \in Worker : f[w] \notin {"unborn", "gone"}}
CountInv == num_threads = Cardinality(Running(worker))

\* where a connection can be: with a worker only from the ring to the end of
\* its service, with the master only on the way to the ring
HandInv ==
  /\ \A w \in Worker : client[w] # Nothing => worker[w] \in {"took", "serving"}
  /\ master \in {"produce", "full"} => socket = arrived /\ arrived # Nothing
  /\ master \notin {"produce", "full"} => socket = Nothing

\* the three stages of the stop
EndInv ==
  /\ stop_flag = 2 => /\ master = "gone"
                      /\ \A w \in Worker : worker[w] = "gone"
  /\ stopper = "freed" => stop_flag = 2
  /\ stopper = "none" => stop_flag = 0
  /\ stop_flag = 0 => master \in {"never", "accept", "produce", "full"}

IInv == TypeOK /\ CountInv /\ HandInv /\ EndInv

-----------------------------------------------------------------------------
(***************************************************************************)
(* Counting the running workers.                                           *)
(***************************************************************************)

LEMMA RunningFinite ==
  ASSUME NEW f
  PROVE  /\ IsFiniteSet(Running(f))
         /\ Cardinality(Running(f)) \in 0..NumWorkers
<1>1. IsFiniteSet(Worker) /\ Cardinality(Worker) = NumWorkers
  BY PoolAssumption, FS_Interval DEF Worker
<1>2. Running(f) \in SUBSET Worker
  BY DEF Running
<1>3. IsFiniteSet(Running(f)) /\ Cardinality(Running(f)) <= NumWorkers
  BY <1>1, <1>2, FS_Subset
<1>4. Cardinality(Running(f)) \in Nat
  BY <1>3, FS_CardinalityType
<1> QED
  BY <1>3, <1>4, PoolAssumption

\* A worker that changes from one running stage to another is counted on.
LEMMA RunningSame ==
  ASSUME TypeOK, CountInv, UNCHANGED num_threads,
         \A w \in Worker : worker'[w] \in {"unborn", "gone"} <=>
                           worker[w] \in {"unborn", "gone"}
  PROVE  CountInv'
<1>1. Running(worker') = Running(worker)
  BY DEF Running
<1> QED
  BY <1>1 DEF CountInv

LEMMA CountStart ==
  ASSUME TypeOK, CountInv, NEW w \in Worker, StartWorker(w)
  PROVE  CountInv'
<1>1. /\ worker[w] = "unborn"
      /\ worker' = [worker EXCEPT ![w] = "idle"]
      /\ num_threads' = num_threads + 1
  BY DEF StartWorker, Unborn, Goes
<1>2. /\ Running(worker') = Running(worker) \cup {w}
      /\ w \notin Running(worker)
  BY <1>1 DEF TypeOK, Running
<1>3. Cardinality(Running(worker')) = Cardinality(Running(worker)) + 1
  BY <1>2, RunningFinite, FS_AddElement
<1> QED
  BY <1>1, <1>3 DEF CountInv

LEMMA CountExit ==
  ASSUME TypeOK, CountInv, NEW w \in Worker, ExitWorker(w)
  PROVE  CountInv'
<1>1. /\ worker[w] = "leaving"
      /\ worker' = [worker EXCEPT ![w] = "gone"]
      /\ num_threads' = num_threads - 1
  BY DEF ExitWorker, Goes
<1>2. /\ Running(worker') = Running(worker) \ {w}
      /\ w \in Running(worker)
  BY <1>1 DEF TypeOK, Running
<1>3. Cardinality(Running(worker')) = Cardinality(Running(worker)) - 1
  BY <1>2, RunningFinite, FS_RemoveElement
<1> QED
  BY <1>1, <1>3 DEF CountInv

LEMMA CountStep == ASSUME TypeOK, CountInv, [Next]_vars PROVE CountInv'
<1>1. ASSUME NEW w \in Worker, StartWorker(w) PROVE CountInv'
  BY <1>1, CountStart
<1>2. ASSUME NEW w \in Worker, ExitWorker(w) PROVE CountInv'
  BY <1>2, CountExit
<1>3. ASSUME NEW w \in Worker,
             \/ FindNothing(w) \/ Sleep(w) \/ Consume(w) \/ Serve(w)
             \/ Leave(w) \/ Finish(w)
      PROVE  CountInv'
  <2>1. \E from, to \in {"idle", "aboutToWait", "asleep", "took", "serving", "leaving"} :
          worker[w] = from /\ worker' = [worker EXCEPT ![w] = to]
    BY <1>3 DEF FindNothing, Sleep, Consume, Serve, Leave, Finish, Goes
  <2>2. UNCHANGED num_threads
    BY <1>3 DEF FindNothing, Sleep, Consume, Serve, Leave, Finish
  <2> QED
    BY <2>1, <2>2, RunningSame DEF TypeOK
<1>4. CASE Produce
  <2>1. \A w \in Worker : \/ worker'[w] = worker[w]
                          \/ worker[w] = "asleep" /\ worker'[w] = "idle"
    BY <1>4 DEF Produce, SignalWorker, Asleep, Goes, TypeOK
  <2> QED
    BY <1>4, <2>1, RunningSame DEF Produce
<1>5. CASE Broadcast
  BY <1>5, RunningSame DEF Broadcast, Asleep
<1>6. CASE \/ StartWorkerFails \/ Accept \/ ProduceWaits \/ CloseListeners \/ Join
           \/ JoinThreads \/ StopCall \/ StopReturn \/ UNCHANGED vars
  BY <1>6, RunningSame
  DEF StartWorkerFails, Accept, ProduceWaits, CloseListeners, Join, JoinThreads,
      StopCall, StopReturn, vars
<1> QED
  BY <1>1, <1>2, <1>3, <1>4, <1>5, <1>6 DEF Next, WorkerStep, MasterStep, MasterEnds

-----------------------------------------------------------------------------
(***************************************************************************)
(* The types.                                                              *)
(***************************************************************************)

LEMMA Modulo ==
  ASSUME NEW i \in 0..(2 * QueueSize - 1)
  PROVE  /\ i % QueueSize = (IF i < QueueSize THEN i ELSE i - QueueSize)
         /\ i % QueueSize \in 0..(QueueSize - 1)
<1>1. CASE i < QueueSize
  BY <1>1, PoolAssumption
<1>2. CASE i >= QueueSize
  BY <1>2, PoolAssumption
<1> QED
  BY <1>1, <1>2, PoolAssumption

LEMMA RingTypes ==
  ASSUME TypeOK
  PROVE  /\ QueueSize \in Nat /\ QueueSize > 0
         /\ sq_tail \in Nat /\ sq_tail <= QueueSize
         /\ sq_head \in Nat /\ sq_tail <= sq_head /\ sq_head <= sq_tail + QueueSize
<1>1. sq_tail \in 0..QueueSize /\ sq_head \in sq_tail..(sq_tail + QueueSize)
  BY DEF TypeOK
<1> QED
  BY <1>1, PoolAssumption

\* A socket that is taken keeps the indices in their range.
LEMMA ConsumeRing ==
  ASSUME TypeOK, NEW w \in Worker, Consume(w)
  PROVE  /\ sq_tail' \in 0..QueueSize
         /\ sq_head' \in sq_tail'..(sq_tail' + QueueSize)
         /\ client' \in [Worker -> Connection \cup {Nothing}]
<1>1. CASE Queued > 0
  <2>1. sq_tail \in 0..(2 * QueueSize - 1)
    BY RingTypes
  <2>2. queue[sq_tail % QueueSize] \in Connection \cup {Nothing}
    BY <2>1, Modulo DEF TypeOK
  <2>3. client' \in [Worker -> Connection \cup {Nothing}]
    BY <1>1, <2>2 DEF Consume, TypeOK
  <2>4. sq_tail' = Wrap(sq_tail + 1) /\ sq_head' = Wrap(sq_head) /\ sq_head > sq_tail
    BY <1>1, RingTypes DEF Consume, Queued
  <2> QED
    BY <2>3, <2>4, RingTypes DEF Wrap
<1>2. CASE ~(Queued > 0)
  BY <1>2 DEF Consume, TypeOK
<1> QED
  BY <1>1, <1>2

\* Steps of a worker and of mg_start and mg_stop that leave the ring alone.
LEMMA TypeThreads ==
  ASSUME TypeOK, num_threads' \in 0..NumWorkers,
         \/ \E w \in Worker : \/ StartWorker(w) \/ FindNothing(w) \/ Sleep(w) \/ Serve(w)
                             \/ Leave(w) \/ Finish(w) \/ ExitWorker(w)
         \/ StartWorkerFails \/ StopCall \/ StopReturn
  PROVE  TypeOK'
<1>1. ASSUME NEW w \in Worker, StartWorker(w) PROVE TypeOK'
  BY <1>1 DEF StartWorker, Goes, ring, TypeOK
<1>2. ASSUME NEW w \in Worker, FindNothing(w) \/ Sleep(w) \/ Serve(w)
      PROVE  TypeOK'
  BY <1>2 DEF FindNothing, Sleep, Serve, Goes, ring, TypeOK
<1>3. ASSUME NEW w \in Worker, Leave(w) \/ Finish(w) PROVE TypeOK'
  BY <1>3 DEF Leave, Finish, Goes, ring, TypeOK
<1>4. ASSUME NEW w \in Worker, ExitWorker(w) PROVE TypeOK'
  BY <1>4 DEF ExitWorker, SignalMaster, Goes, ring, TypeOK
<1>5. CASE StartWorkerFails
  BY <1>5 DEF StartWorkerFails, ring, TypeOK
<1>6. CASE StopCall \/ StopReturn
  <2>1. stop_flag' \in {1, 2}
    BY <1>6 DEF StopCall, StopReturn
  <2>2. stop_flag' \in 0..2
    BY <2>1
  <2> QED
    BY <1>6, <2>2 DEF StopCall, StopReturn, ring, TypeOK
<1> QED
  BY <1>1, <1>2, <1>3, <1>4, <1>5, <1>6

\* Steps of the master.
LEMMA TypeMaster ==
  ASSUME TypeOK, num_threads' \in 0..NumWorkers, Accept \/ MasterStep
  PROVE  TypeOK'
<1>1. CASE Accept
  <2>1. arrived \in 0..MaxConnections
    BY DEF TypeOK
  <2>2. arrived < MaxConnections /\ arrived' = arrived + 1 /\ socket' = arrived'
    BY <1>1 DEF Accept
  <2>3. arrived' \in 0..MaxConnections /\ socket' \in Connection
    BY <2>1, <2>2, PoolAssumption DEF Connection
  <2> QED
    BY <1>1, <2>3 DEF Accept, ring, TypeOK
<1>2. CASE Produce
  <2>1. CASE Full
    BY <1>2, <2>1 DEF Produce, SignalWorker, Asleep, Goes, Nothing, TypeOK
  <2>2. CASE ~Full
    <3>1. sq_head' \in sq_tail..(sq_tail + QueueSize)
      BY <1>2, <2>2, RingTypes DEF Produce, Full, Queued
    <3>2. queue' \in [0..(QueueSize - 1) -> Connection \cup {Nothing}]
      BY <1>2, <2>2 DEF Produce, TypeOK
    <3> QED
      BY <1>2, <3>1, <3>2 DEF Produce, SignalWorker, Asleep, Goes, Nothing, TypeOK
  <2> QED
    BY <2>1, <2>2
<1>3. CASE Broadcast
  BY <1>3 DEF Broadcast, Asleep, ring, TypeOK
<1>4. CASE ProduceWaits \/ CloseListeners \/ Join
  BY <1>4 DEF ProduceWaits, CloseListeners, Join, ring, TypeOK
<1>5. CASE JoinThreads
  <2>1. stop_flag' \in {stop_flag, 2}
    BY <1>5 DEF JoinThreads
  <2>2. stop_flag \in 0..2
    BY DEF TypeOK
  <2>3. stop_flag' \in 0..2
    BY <2>1, <2>2
  <2> QED
    BY <1>5, <2>3 DEF JoinThreads, ring, TypeOK
<1> QED
  BY <1>1, <1>2, <1>3, <1>4, <1>5 DEF MasterStep, MasterEnds

LEMMA TypeStep == ASSUME TypeOK, CountInv, [Next]_vars PROVE TypeOK'
<1>1. num_threads' \in 0..NumWorkers
  BY CountStep, RunningFinite DEF CountInv
<1>2. ASSUME NEW w \in Worker, Consume(w) PROVE TypeOK'
  <2>1. UNCHANGED <<stop_flag, queue, socket, arrived, starter, stopper, missed, fault>>
    BY <1>2 DEF Consume
  <2>2. worker' \in [Worker -> {"unborn", "idle", "aboutToWait", "asleep",
                               "took", "serving", "leaving", "gone"}]
    BY <1>2 DEF Consume, Goes, TypeOK
  <2>3. master' \in {"never", "accept", "produce", "full", "broadcast", "join",
                    "joinWait", "joining", "gone"}
    BY <1>2 DEF Consume, SignalMaster, TypeOK
  <2> QED
    BY <1>1, <1>2, <2>1, <2>2, <2>3, ConsumeRing DEF TypeOK
<1>3. CASE UNCHANGED vars
  BY <1>3 DEF vars, ring, TypeOK
<1> QED
  BY <1>1, <1>2, <1>3, TypeThreads, TypeMaster DEF Next, WorkerStep

-----------------------------------------------------------------------------
(***************************************************************************)
(* The connections in hand and the stages of the stop.                     *)
(***************************************************************************)

LEMMA HandStep == ASSUME TypeOK, HandInv, [Next]_vars PROVE HandInv'
<1>1. ASSUME NEW w \in Worker, StartWorker(w) PROVE HandInv'
  BY <1>1 DEF StartWorker, Unborn, Goes, HandInv, TypeOK
<1>2. ASSUME NEW w \in Worker,
             FindNothing(w) \/ Sleep(w) \/ Serve(w) \/ Leave(w) \/ Finish(w)
      PROVE  HandInv'
  BY <1>2 DEF FindNothing, Sleep, Serve, Leave, Finish, Goes, HandInv, TypeOK
<1>3. ASSUME NEW w \in Worker, Consume(w) PROVE HandInv'
  <2>1. \A v \in Worker \ {w} : client'[v] = client[v] /\ worker'[v] = worker[v]
    BY <1>3 DEF Consume, Goes, TypeOK
  <2>2. worker'[w] = "took"
    BY <1>3 DEF Consume, Goes, TypeOK
  <2>3. master' \in {"produce", "full"} <=> master \in {"produce", "full"}
    BY <1>3 DEF Consume, SignalMaster
  <2> QED
    BY <1>3, <2>1, <2>2, <2>3 DEF Consume, HandInv
<1>4. ASSUME NEW w \in Worker, ExitWorker(w) PROVE HandInv'
  <2>1. \A v \in Worker \ {w} : worker'[v] = worker[v]
    BY <1>4 DEF ExitWorker, Goes, TypeOK
  <2>2. master' \in {"produce", "full"} <=> master \in {"produce", "full"}
    BY <1>4 DEF ExitWorker, SignalMaster
  <2> QED
    BY <1>4, <2>1, <2>2 DEF ExitWorker, HandInv
<1>5. CASE Accept
  <2>1. arrived \in 0..MaxConnections /\ arrived' = arrived + 1
    BY <1>5 DEF Accept, TypeOK
  <2>2. arrived' # Nothing
    BY <2>1 DEF Nothing
  <2> QED
    BY <1>5, <2>2 DEF Accept, HandInv
<1>6. CASE Produce
  <2>1. \A w \in Worker : \/ worker'[w] = worker[w]
                          \/ worker[w] = "asleep" /\ worker'[w] = "idle"
    BY <1>6 DEF Produce, SignalWorker, Asleep, Goes, TypeOK
  <2> QED
    BY <1>6, <2>1 DEF Produce, HandInv
<1>7. CASE Broadcast
  BY <1>7 DEF Broadcast, Asleep, HandInv
<1>8. CASE \/ StartWorkerFails \/ ProduceWaits \/ CloseListeners \/ Join \/ JoinThreads
           \/ StopCall \/ StopReturn \/ UNCHANGED vars
  BY <1>8
  DEF StartWorkerFails, ProduceWaits, CloseListeners, Join, JoinThreads, StopCall,
      StopReturn, vars, HandInv
<1> QED
  BY <1>1, <1>2, <1>3, <1>4, <1>5, <1>6, <1>7, <1>8
  DEF Next, WorkerStep, MasterStep, MasterEnds

LEMMA EndStep == ASSUME TypeOK, EndInv, [Next]_vars PROVE EndInv'
<1>1. ASSUME NEW w \in Worker, StartWorker(w) \/ WorkerStep(w) PROVE EndInv'
  <2>1. worker[w] # "gone"
    BY <1>1 DEF StartWorker, WorkerStep, Unborn, FindNothing, Sleep, Consume, Serve,
                Leave, Finish, ExitWorker
  <2>2. \/ master' = master
        \/ master = "full" /\ master' = "produce"
        \/ master = "joinWait" /\ master' = "join"
    BY <1>1 DEF StartWorker, WorkerStep, FindNothing, Sleep, Consume, Serve, Leave,
                Finish, ExitWorker, SignalMaster
  <2>3. UNCHANGED <<stop_flag, stopper>>
    BY <1>1 DEF StartWorker, WorkerStep, FindNothing, Sleep, Consume, Serve,
                Leave, Finish, ExitWorker
  <2> QED
    BY <2>1, <2>2, <2>3 DEF EndInv
<1>2. CASE Accept \/ ProduceWaits \/ Produce \/ CloseListeners \/ Broadcast \/ Join
  <2>1. master # "gone"
    BY <1>2 DEF Accept, ProduceWaits, Produce, CloseListeners, Broadcast, Join
  <2>2. UNCHANGED <<stop_flag, stopper>>
    BY <1>2 DEF Accept, ProduceWaits, Produce, CloseListeners, Broadcast, Join
  <2>3. \/ master' \in {"accept", "produce", "full"}
        \/ stop_flag # 0
        \/ master \notin {"never", "accept", "produce", "full"}
    BY <1>2 DEF Accept, ProduceWaits, Produce, CloseListeners, Broadcast, Join
  <2> QED
    BY <2>1, <2>2, <2>3 DEF EndInv
<1>3. CASE JoinThreads
  <2>1. master = "joining" /\ UNCHANGED <<worker, stopper>>
    BY <1>3 DEF JoinThreads
  <2>2. stop_flag # 2 /\ stopper # "freed"
    BY <2>1 DEF EndInv
  <2>3. CASE Unborn # {}
    BY <1>3, <2>1, <2>2, <2>3 DEF JoinThreads, EndInv
  <2>4. CASE Unborn = {}
    BY <1>3, <2>1, <2>2, <2>4 DEF JoinThreads, EndInv
  <2> QED
    BY <2>3, <2>4
<1>4. CASE StartWorkerFails
  BY <1>4 DEF StartWorkerFails, EndInv
<1>5. CASE StopCall
  BY <1>5 DEF StopCall, EndInv
<1>6. CASE StopReturn
  BY <1>6 DEF StopReturn, EndInv
<1>7. CASE UNCHANGED vars
  BY <1>7 DEF vars, EndInv
<1> QED
  BY <1>1, <1>2, <1>3, <1>4, <1>5, <1>6, <1>7 DEF Next, MasterStep, MasterEnds

-----------------------------------------------------------------------------
(***************************************************************************)
(* The invariant, and what follows from it.                                *)
(***************************************************************************)

LEMMA InitInv == ASSUME Init PROVE IInv
<1>1. TypeOK
  BY PoolAssumption DEF Init, TypeOK, Nothing
<1>2. CountInv
  <2>1. Running(worker) = {}
    BY DEF Init, Running
  <2> QED
    BY <2>1, FS_EmptySet DEF Init, CountInv
<1>3. HandInv /\ EndInv
  BY DEF Init, HandInv, EndInv
<1> QED
  BY <1>1, <1>2, <1>3 DEF IInv

LEMMA Inductive == Spec => []IInv
<1>1. Init => IInv
  BY InitInv
<1>2. IInv /\ [Next]_vars => IInv'
  BY CountStep, TypeStep, HandStep, EndStep DEF IInv
<1> QED
  BY <1>1, <1>2, PTL DEF Spec

(***************************************************************************)
(* The variables of the web server keep their types: in particular the two *)
(* indices stay in the range that makes the ring a queue of QueueSize.     *)
(***************************************************************************)
THEOREM TypeCorrect == Spec => []TypeOK
<1>1. IInv => TypeOK
  BY DEF IInv
<1> QED
  BY <1>1, Inductive, PTL

(***************************************************************************)
(* When mg_stop has freed the context the master and every worker have     *)
(* ended, and none is counted.                                             *)
(***************************************************************************)
THEOREM AloneWhenFreed == Spec => []FreedMeansAlone
<1>1. ASSUME IInv, stopper = "freed" PROVE num_threads = 0
  <2>1. Running(worker) = {}
    BY <1>1 DEF IInv, EndInv, Running
  <2> QED
    BY <1>1, <2>1, FS_EmptySet DEF IInv, CountInv
<1>2. IInv => FreedMeansAlone
  BY <1>1 DEF IInv, EndInv, FreedMeansAlone
<1> QED
  BY <1>2, Inductive, PTL

-----------------------------------------------------------------------------
(***************************************************************************)
(* The refinement.  First, what the ring holds as a queue.                 *)
(***************************************************************************)

LEMMA WaitingQueue ==
  ASSUME TypeOK
  PROVE  /\ Queued \in 0..QueueSize
         /\ Waiting \in Seq(Connection \cup {Nothing})
         /\ Len(Waiting) = Queued
         /\ \A i \in 1..Queued : Waiting[i] = queue[(sq_tail + i - 1) % QueueSize]
<1>1. Queued \in 0..QueueSize
  BY RingTypes DEF Queued
<1>2. ASSUME NEW i \in 1..Queued
      PROVE  queue[(sq_tail + i - 1) % QueueSize] \in Connection \cup {Nothing}
  <2>1. sq_tail + i - 1 \in 0..(2 * QueueSize - 1)
    BY RingTypes DEF Queued
  <2> QED
    BY <2>1, Modulo DEF TypeOK
<1> QED
  BY <1>1, <1>2 DEF Waiting

QueueType == Waiting \in Seq(Connection \cup {Nothing}) /\ Len(Waiting) = Queued

LEMMA QueueTyped == TypeOK => QueueType
BY WaitingQueue DEF QueueType

\* A new socket goes behind the others, over none of them.
LEMMA ProduceAppends ==
  ASSUME TypeOK, TypeOK', Produce, ~Full
  PROVE  Waiting' = Append(Waiting, socket)
<1>1. /\ queue' = [queue EXCEPT ![sq_head % QueueSize] = socket]
      /\ sq_head' = sq_head + 1
      /\ sq_tail' = sq_tail
  BY DEF Produce
<1>2. Queued \in 0..(QueueSize - 1) /\ Queued' = Queued + 1
  BY <1>1, RingTypes DEF Full, Queued
<1>3. sq_head \in 0..(2 * QueueSize - 1)
  BY <1>2, RingTypes DEF Queued
<1>4. queue'[sq_head % QueueSize] = socket
  BY <1>1, <1>3, Modulo DEF TypeOK
<1>5. ASSUME NEW i \in 1..Queued
      PROVE  queue'[(sq_tail + i - 1) % QueueSize] = queue[(sq_tail + i - 1) % QueueSize]
  <2>1. /\ sq_tail + i - 1 \in 0..(2 * QueueSize - 1)
        /\ sq_tail + i - 1 < sq_head
        /\ sq_head < sq_tail + i - 1 + QueueSize
    BY <1>2, RingTypes DEF Queued
  <2>2. (sq_tail + i - 1) % QueueSize # sq_head % QueueSize
    <3> DEFINE j == sq_tail + i - 1
    <3>1. j % QueueSize = IF j < QueueSize THEN j ELSE j - QueueSize
      BY <2>1, Modulo
    <3>2. sq_head % QueueSize = IF sq_head < QueueSize THEN sq_head ELSE sq_head - QueueSize
      BY <1>3, Modulo
    <3>3. j \in Int /\ j < sq_head /\ sq_head < j + QueueSize
      BY <2>1
    <3> HIDE DEF j
    <3>4. j % QueueSize # sq_head % QueueSize
      BY <3>1, <3>2, <3>3, RingTypes
    <3> QED
      BY <3>4 DEF j
  <2> QED
    BY <1>1, <2>1, <2>2, Modulo DEF TypeOK
<1>6. sq_tail + (Queued + 1) - 1 = sq_head
  BY RingTypes DEF Queued
<1>7. /\ Append(Waiting, socket) \in Seq(Connection \cup {Nothing})
      /\ Len(Append(Waiting, socket)) = Queued + 1
      /\ \A i \in 1..Queued : Append(Waiting, socket)[i] = Waiting[i]
      /\ Append(Waiting, socket)[Queued + 1] = socket
  <2>1. socket \in Connection \cup {Nothing}
    BY DEF TypeOK
  <2>2. Waiting \in Seq(Connection \cup {Nothing}) /\ Len(Waiting) = Queued
    BY WaitingQueue
  <2> QED
    BY <2>1, <2>2, AppendProperties
<1>8. ASSUME NEW i \in 1..(Queued + 1)
      PROVE  Waiting'[i] = Append(Waiting, socket)[i]
  <2>1. Waiting'[i] = queue'[(sq_tail + i - 1) % QueueSize]
    BY <1>1, <1>2 DEF Waiting
  <2>2. CASE i = Queued + 1
    <3>1. Append(Waiting, socket)[i] = socket
      BY <1>7, <2>2
    <3> QED
      BY <1>4, <1>6, <2>1, <2>2, <3>1
  <2>3. CASE i # Queued + 1
    <3>1. i \in 1..Queued
      BY <1>2, <2>3
    <3>2. Append(Waiting, socket)[i] = Waiting[i]
      BY <1>7, <3>1
    <3> QED
      BY <1>5, <2>1, <3>1, <3>2, WaitingQueue
  <2> QED
    BY <2>2, <2>3
<1>9. /\ Waiting' \in Seq(Connection \cup {Nothing})
      /\ Len(Waiting') = Queued + 1
  <2>1. QueueType'
    BY QueueTyped, PTL
  <2> QED
    BY <1>2, <2>1 DEF QueueType
<1> QED
  BY <1>7, <1>8, <1>9, SeqEqual

\* The socket that is taken is the first of them; the wrap of the indices
\* leaves the others where they are.
LEMMA ConsumeTakesHead ==
  ASSUME TypeOK, TypeOK', NEW w \in Worker, Consume(w), Queued > 0
  PROVE  /\ Waiting # <<>>
         /\ client' = [client EXCEPT ![w] = Head(Waiting)]
         /\ Waiting' = Tail(Waiting)
<1>1. /\ client' = [client EXCEPT ![w] = queue[sq_tail % QueueSize]]
      /\ sq_tail' = Wrap(sq_tail + 1)
      /\ sq_head' = Wrap(sq_head)
      /\ queue' = queue
  BY DEF Consume
<1>2. Queued \in 1..QueueSize
  BY WaitingQueue
<1>3. Waiting # <<>> /\ Head(Waiting) = Waiting[1]
  BY <1>2, WaitingQueue
<1>4. Waiting[1] = queue[sq_tail % QueueSize]
  <2>1. sq_tail + 1 - 1 = sq_tail
    BY RingTypes
  <2> QED
    BY <1>2, <2>1, WaitingQueue
<1>5. Queued' = Queued - 1
  BY <1>1, RingTypes DEF Wrap, Queued
<1>6. ASSUME NEW i \in 1..(Queued - 1)
      PROVE  (sq_tail' + i - 1) % QueueSize = (sq_tail + (i + 1) - 1) % QueueSize
  <2>1. CASE sq_tail + 1 > QueueSize
    <3>1. sq_tail = QueueSize /\ sq_tail' = 1
      BY <1>1, <2>1, RingTypes DEF Wrap
    <3>2. /\ sq_tail' + i - 1 = i
          /\ sq_tail + (i + 1) - 1 = QueueSize + i
          /\ i \in 0..(QueueSize - 1)
      BY <1>2, <3>1, RingTypes
    <3>3. i % QueueSize = i
      BY <3>2, Modulo, RingTypes
    <3>4. (QueueSize + i) % QueueSize = i
      BY <3>2, Modulo, RingTypes
    <3> QED
      BY <3>2, <3>3, <3>4
  <2>2. CASE ~(sq_tail + 1 > QueueSize)
    <3>1. sq_tail' + i - 1 = sq_tail + (i + 1) - 1
      BY <1>1, <2>2, RingTypes DEF Wrap
    <3> QED
      BY <3>1
  <2> QED
    BY <2>1, <2>2
<1>7. ASSUME NEW i \in 1..(Queued - 1) PROVE Waiting'[i] = Tail(Waiting)[i]
  <2>1. Waiting'[i] = queue[(sq_tail' + i - 1) % QueueSize]
    BY <1>1, <1>5 DEF Waiting
  <2>2. Tail(Waiting)[i] = Waiting[i + 1] /\ i + 1 \in 1..Queued
    BY <1>2, <1>3, WaitingQueue, HeadTailProperties
  <2> QED
    BY <1>6, <2>1, <2>2, WaitingQueue
<1>8. /\ Waiting' \in Seq(Connection \cup {Nothing})
      /\ Len(Waiting') = Queued - 1
  <2>1. QueueType'
    BY QueueTyped, PTL
  <2> QED
    BY <1>5, <2>1 DEF QueueType
<1>9. /\ Tail(Waiting) \in Seq(Connection \cup {Nothing})
      /\ Len(Tail(Waiting)) = Queued - 1
  BY <1>3, WaitingQueue, HeadTailProperties
<1>10. Waiting' = Tail(Waiting)
  BY <1>7, <1>8, <1>9, SeqEqual
<1> QED
  BY <1>1, <1>3, <1>4, <1>10

(***************************************************************************)
(* Then, each step as a step of the pool, or as none.                      *)
(***************************************************************************)

LEMMA PoolStutter ==
  ASSUME UNCHANGED <<stop_flag, ring, client, socket, arrived, stopper>>
  PROVE  UNCHANGED Pool!vars
BY DEF Pool!vars, Waiting, Queued, ring

LEMMA AcceptStutters ==
  ASSUME IInv, Accept
  PROVE  UNCHANGED Pool!vars
<1>1. /\ socket = Nothing
      /\ arrived' = arrived + 1 /\ socket' = arrived'
      /\ UNCHANGED <<stop_flag, ring, client, stopper>>
  BY DEF IInv, HandInv, Accept
<1>2. arrived \in Nat
  <2>1. arrived \in 0..MaxConnections
    BY DEF IInv, TypeOK
  <2> QED
    BY <2>1
<1>3. socket' # Nothing /\ socket' - 1 = arrived
  BY <1>1, <1>2 DEF Nothing
<1>4. UNCHANGED Waiting
  BY <1>1 DEF Waiting, Queued, ring
<1> QED
  BY <1>1, <1>3, <1>4 DEF Pool!vars

LEMMA ProduceArrives ==
  ASSUME IInv, TypeOK', Produce
  PROVE  Pool!Arrive \/ Pool!Turn
<1>1. /\ master = "produce" /\ socket = arrived /\ socket # Nothing
      /\ socket' = Nothing
      /\ UNCHANGED <<stop_flag, client, arrived, stopper>>
  BY DEF IInv, HandInv, Produce
<1>2. stopper # "freed"
  BY <1>1 DEF IInv, EndInv
<1>3. arrived = (socket - 1) + 1
  <2>1. arrived \in 0..MaxConnections
    BY DEF IInv, TypeOK
  <2> QED
    BY <1>1, <2>1
<1>4. Len(Waiting) = Queued /\ Queued \in 0..QueueSize
  BY WaitingQueue DEF IInv
<1>5. CASE ~Full
  <2>1. Waiting' = Append(Waiting, arrived)
    BY <1>1, <1>5, ProduceAppends DEF IInv
  <2>2. Len(Waiting) < QueueSize
    BY <1>4, <1>5, RingTypes DEF Full, IInv
  <2> QED
    BY <1>1, <1>2, <1>3, <2>1, <2>2 DEF Pool!Arrive
<1>6. CASE Full
  <2>1. stop_flag # 0 /\ UNCHANGED Waiting
    BY <1>6 DEF Produce, Waiting, Queued
  <2>2. Len(Waiting) = QueueSize
    BY <1>4, <1>6, RingTypes DEF Full, IInv
  <2> QED
    BY <1>1, <1>2, <1>3, <2>1, <2>2 DEF Pool!Turn
<1> QED
  BY <1>5, <1>6

LEMMA ConsumeTakes ==
  ASSUME IInv, TypeOK', NEW w \in Worker, Consume(w)
  PROVE  Pool!Take(w) \/ UNCHANGED Pool!vars
<1>1. /\ worker[w] = "idle"
      /\ UNCHANGED <<stop_flag, queue, socket, arrived, stopper>>
  BY DEF Consume
<1>2. stopper # "freed" /\ client[w] = Nothing
  BY <1>1 DEF IInv, EndInv, HandInv
<1>3. CASE Queued > 0
  BY <1>1, <1>2, <1>3, ConsumeTakesHead DEF IInv, Pool!Take
<1>4. CASE ~(Queued > 0)
  BY <1>1, <1>4, PoolStutter DEF Consume, ring
<1> QED
  BY <1>3, <1>4

LEMMA LeaveFinishes ==
  ASSUME IInv, NEW w \in Worker, Leave(w) \/ Finish(w)
  PROVE  Pool!Finish(w) \/ UNCHANGED Pool!vars
<1>1. /\ client' = [client EXCEPT ![w] = Nothing]
      /\ UNCHANGED <<stop_flag, ring, socket, arrived, stopper>>
  BY DEF Leave, Finish
<1>2. CASE client[w] = Nothing
  <2>1. client' = client
    BY <1>1, <1>2 DEF IInv, TypeOK
  <2> QED
    BY <1>1, <2>1, PoolStutter
<1>3. CASE client[w] # Nothing
  <2>1. UNCHANGED Waiting
    BY <1>1 DEF Waiting, Queued, ring
  <2> QED
    BY <1>1, <1>3, <2>1 DEF Pool!Finish
<1> QED
  BY <1>2, <1>3

LEMMA StopCallBegins ==
  ASSUME IInv, StopCall
  PROVE  Pool!BeginStop
<1>1. /\ stopper = "none" /\ stop_flag = 0
      /\ stopper' = "waiting" /\ stop_flag' = 1
      /\ UNCHANGED <<ring, client, socket, arrived>>
  BY DEF IInv, EndInv, StopCall
<1>2. UNCHANGED Waiting
  BY <1>1 DEF Waiting, Queued, ring
<1> QED
  BY <1>1, <1>2 DEF Pool!BeginStop

LEMMA StopReturnEnds ==
  ASSUME IInv, StopReturn
  PROVE  Pool!EndStop
<1>1. /\ stopper = "waiting" /\ stop_flag = 2
      /\ stopper' = "freed"
      /\ UNCHANGED <<stop_flag, client, socket, arrived>>
  BY DEF StopReturn
<1>2. client = [w \in Worker |-> Nothing]
  BY <1>1 DEF IInv, TypeOK, HandInv, EndInv
<1> QED
  BY <1>1, <1>2 DEF Pool!EndStop

\* mg_start, the waits and the joins are no steps of the pool; the master's
\* last one sets stop_flag from 1 to 2, which is one state of the pool.
LEMMA OthersStutter ==
  ASSUME IInv,
         \/ \E w \in Worker : \/ StartWorker(w) \/ FindNothing(w) \/ Sleep(w)
                             \/ Serve(w) \/ ExitWorker(w)
         \/ StartWorkerFails \/ ProduceWaits \/ MasterEnds \/ UNCHANGED vars
  PROVE  UNCHANGED Pool!vars
<1>1. CASE JoinThreads
  <2>1. UNCHANGED <<ring, client, socket, arrived, stopper>>
    BY <1>1 DEF JoinThreads
  <2>2. stop_flag # 0
    BY <1>1 DEF JoinThreads, IInv, EndInv
  <2>3. stop_flag' = stop_flag \/ stop_flag' = 2
    BY <1>1 DEF JoinThreads
  <2>4. UNCHANGED Waiting
    BY <2>1 DEF Waiting, Queued, ring
  <2> QED
    BY <2>1, <2>2, <2>3, <2>4 DEF Pool!vars
<1>2. CASE ~JoinThreads
  <2>1. UNCHANGED <<stop_flag, ring, client, socket, arrived, stopper>>
    BY <1>2 DEF StartWorker, FindNothing, Sleep, Serve, ExitWorker, StartWorkerFails,
                ProduceWaits, MasterEnds, CloseListeners, Broadcast, Join, vars, ring
  <2> QED
    BY <2>1, PoolStutter
<1> QED
  BY <1>1, <1>2

LEMMA PoolInit == ASSUME Init PROVE Pool!Init
<1>1. Waiting = <<>>
  BY DEF Init, Waiting, Queued
<1> QED
  BY <1>1 DEF Init, Pool!Init

LEMMA PoolStep ==
  ASSUME IInv, IInv', [Next]_vars
  PROVE  [Pool!Next]_(Pool!vars)
<1>1. TypeOK'
  BY DEF IInv
<1>2. CASE Produce
  BY <1>1, <1>2, ProduceArrives DEF Pool!Next
<1>3. ASSUME NEW w \in Worker, Consume(w) PROVE [Pool!Next]_(Pool!vars)
  BY <1>1, <1>3, ConsumeTakes DEF Pool!Next
<1>4. ASSUME NEW w \in Worker, Leave(w) \/ Finish(w) PROVE [Pool!Next]_(Pool!vars)
  BY <1>4, LeaveFinishes DEF Pool!Next
<1>5. CASE StopCall \/ StopReturn
  BY <1>5, StopCallBegins, StopReturnEnds DEF Pool!Next
<1>6. CASE Accept
  BY <1>6, AcceptStutters
<1> QED
  BY <1>2, <1>3, <1>4, <1>5, <1>6, OthersStutter DEF Next, WorkerStep, MasterStep

(***************************************************************************)
(* The threads, with their ring, locks and signals, implement the pool: a  *)
(* connection is served by one worker at most, in the order of arrival,    *)
(* and none is lost before the stop.                                       *)
(***************************************************************************)
THEOREM PoolImplemented == Spec => ImplementsPool
<1>1. Init => Pool!Init
  BY PoolInit
<1>2. IInv /\ IInv' /\ [Next]_vars => [Pool!Next]_(Pool!vars)
  BY PoolStep
<1> QED
  BY <1>1, <1>2, Inductive, PTL DEF Spec, ImplementsPool, Pool!Spec
=============================================================================
