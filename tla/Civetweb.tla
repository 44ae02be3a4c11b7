------------------------------ MODULE Civetweb ------------------------------
(***************************************************************************)
(* The threads of the embedded web server (wiring_common, civetweb.c) as   *)
(* the wiring admin uses it: mg_start creates a master thread that accepts *)
(* connections and a fixed number of workers that serve one connection at  *)
(* a time; the accepted sockets pass through a ring of QueueSize slots     *)
(* under thread_mutex; mg_stop sets stop_flag, waits for the master, which *)
(* waits for the workers, and frees the context.                           *)
(*                                                                         *)
(* A critical section is one step, with one exception: a worker that finds *)
(* the queue empty holds the mutex from the test of stop_flag to the wait  *)
(* ("aboutToWait"), because stop_flag and the broadcast of the stop are    *)
(* not protected by the mutex and may fall in between.  A thread that      *)
(* waits on a condition variable runs again only when it is signalled.     *)
(* Keep-alive is off (the default, which the wiring admin leaves alone):   *)
(* a connection is one request.                                            *)
(***************************************************************************)
EXTENDS Naturals, Sequences, FiniteSets

CONSTANTS NumWorkers,    \* the option num_threads
          QueueSize,     \* MGSQLEN, the slots of the ring
          MaxConnections \* bound: the connections that clients open

ASSUME PoolAssumption == /\ NumWorkers \in Nat \ {0}
                         /\ QueueSize \in Nat \ {0}
                         /\ MaxConnections \in Nat

Worker == 1..NumWorkers
Connection == 1..MaxConnections
Nothing == 0             \* no connection

VARIABLES
  stop_flag,    \* 0 run, 1 stop requested, 2 master done
  sq_head,      \* next slot to fill
  sq_tail,      \* next slot to empty
  queue,        \* the ring, slots 0..QueueSize-1
  num_threads,  \* workers that count as running
  worker,       \* what each worker is doing
  client,       \* the connection in the hands of each worker
  master,       \* what the master is doing
  socket,       \* the connection in the hands of the master
  arrived,      \* connections accepted so far
  starter,      \* mg_start: "starting", "started", "failed" (NULL is returned)
  stopper,      \* mg_stop: "none", "waiting", "freed"
  missed,       \* history: workers that were about to wait at the broadcast
  fault         \* the undefined behaviour that ended the run, or "none"

ring == <<sq_head, sq_tail, queue>>
vars == <<stop_flag, ring, num_threads, worker, client, master, socket,
          arrived, starter, stopper, missed, fault>>

TypeOK == /\ stop_flag \in 0..2
          /\ sq_tail \in 0..QueueSize
          /\ sq_head \in sq_tail..(sq_tail + QueueSize)
          /\ queue \in [0..(QueueSize - 1) -> Connection \cup {Nothing}]
          /\ num_threads \in 0..NumWorkers
          /\ worker \in [Worker -> {"unborn", "idle", "aboutToWait", "asleep",
                                    "took", "serving", "leaving", "gone"}]
          /\ client \in [Worker -> Connection \cup {Nothing}]
          /\ master \in {"never", "accept", "produce", "full", "broadcast", "join",
                         "joinWait", "joining", "gone"}
          /\ socket \in Connection \cup {Nothing}
          /\ arrived \in 0..MaxConnections
          /\ starter \in {"starting", "started", "failed"}
          /\ stopper \in {"none", "waiting", "freed"}
          /\ missed \in SUBSET Worker
          /\ fault \in {"none", "freed under the master",
                        "joined a thread that never was"}

\* mg_start up to the master thread: it runs before any worker is created, or,
\* as the result of its creation is not looked at, never.
Init == /\ stop_flag = 0
        /\ sq_head = 0
        /\ sq_tail = 0
        /\ queue = [i \in 0..(QueueSize - 1) |-> Nothing]
        /\ num_threads = 0
        /\ worker = [w \in Worker |-> "unborn"]
        /\ client = [w \in Worker |-> Nothing]
        /\ master \in {"accept", "never"}
        /\ socket = Nothing
        /\ arrived = 0
        /\ starter = "starting"
        /\ stopper = "none"
        /\ missed = {}
        /\ fault = "none"

MutexFree == \A w \in Worker : worker[w] # "aboutToWait"
Queued == sq_head - sq_tail
Goes(w, pc) == worker' = [worker EXCEPT ![w] = pc]

(***************************************************************************)
(* mg_start: the workers are created in order.  When the first cannot be   *)
(* created the context is freed, under the master if it runs, and there is *)
(* no server; when a later one cannot, the start succeeds with fewer.      *)
(***************************************************************************)
Unborn == {w \in Worker : worker[w] = "unborn"}

StartWorker(w) ==
  /\ starter = "starting" /\ MutexFree
  /\ w \in Unborn /\ \A v \in Unborn : w <= v
  /\ num_threads' = num_threads + 1
  /\ Goes(w, "idle")
  /\ starter' = IF Unborn = {w} THEN "started" ELSE "starting"
  /\ UNCHANGED <<stop_flag, ring, client, master, socket, arrived, stopper,
                 missed, fault>>

StartWorkerFails ==
  /\ starter = "starting"
  /\ starter' = IF Unborn = Worker THEN "failed" ELSE "started"
  /\ fault' = IF Unborn = Worker /\ master # "never"
              THEN "freed under the master" ELSE "none"
  /\ UNCHANGED <<stop_flag, ring, num_threads, worker, client, master, socket,
                 arrived, stopper, missed>>

(***************************************************************************)
(* The worker: consume_socket, then the connection, until the stop.        *)
(***************************************************************************)
FindNothing(w) ==
  /\ worker[w] = "idle" /\ MutexFree
  /\ Queued = 0 /\ stop_flag = 0
  /\ Goes(w, "aboutToWait")
  /\ UNCHANGED <<stop_flag, ring, num_threads, client, master, socket, arrived,
                 starter, stopper, missed, fault>>

Sleep(w) ==
  /\ worker[w] = "aboutToWait"
  /\ Goes(w, "asleep")
  /\ UNCHANGED <<stop_flag, ring, num_threads, client, master, socket, arrived,
                 starter, stopper, missed, fault>>

\* mutant: the indices go back by one slot too few
WrapShort(i) == IF sq_tail + 1 > QueueSize THEN i - (QueueSize - 1) ELSE i

\* The wrap of the indices: both go back by the size of the ring once the
\* tail has passed it.
Wrap(i) == IF sq_tail + 1 > QueueSize THEN i - QueueSize ELSE i

\* A signal sends the master back to the test of its loop.
SignalMaster(waits, tests) == master' = IF master = waits THEN tests ELSE master

Consume(w) ==
  /\ worker[w] = "idle" /\ MutexFree
  /\ Queued > 0 \/ stop_flag # 0
  /\ IF Queued > 0
     THEN /\ client' = [client EXCEPT ![w] = queue[sq_tail % QueueSize]]
          /\ sq_tail' = Wrap(sq_tail + 1)
          /\ sq_head' = Wrap(sq_head)
     ELSE UNCHANGED <<client, sq_tail, sq_head>>
  /\ SignalMaster("full", "produce")
  /\ Goes(w, "took")
  /\ UNCHANGED <<stop_flag, queue, num_threads, socket, arrived, starter,
                 stopper, missed, fault>>

\* consume_socket answers !stop_flag, read after the unlock: a socket taken
\* from the ring when the stop comes is neither served nor closed.
Serve(w) ==
  /\ worker[w] = "took" /\ stop_flag = 0
  /\ Goes(w, "serving")
  /\ UNCHANGED <<stop_flag, ring, num_threads, client, master, socket, arrived,
                 starter, stopper, missed, fault>>

Leave(w) ==
  /\ worker[w] = "took" /\ stop_flag # 0
  /\ Goes(w, "leaving")
  /\ client' = [client EXCEPT ![w] = Nothing]
  /\ UNCHANGED <<stop_flag, ring, num_threads, master, socket, arrived,
                 starter, stopper, missed, fault>>

\* The end of process_new_connection, and close_connection.
Finish(w) ==
  /\ worker[w] = "serving"
  /\ Goes(w, "idle")
  /\ client' = [client EXCEPT ![w] = Nothing]
  /\ UNCHANGED <<stop_flag, ring, num_threads, master, socket, arrived,
                 starter, stopper, missed, fault>>

ExitWorker(w) ==
  /\ worker[w] = "leaving" /\ MutexFree
  /\ num_threads' = num_threads - 1
  /\ SignalMaster("joinWait", "join")
  /\ Goes(w, "gone")
  /\ UNCHANGED <<stop_flag, ring, client, socket, arrived, starter, stopper,
                 missed, fault>>

(***************************************************************************)
(* The master: accept and produce_socket until the stop, then the end of   *)
(* the workers.                                                            *)
(***************************************************************************)
Accept ==
  /\ master = "accept" /\ stop_flag = 0
  /\ arrived < MaxConnections
  /\ arrived' = arrived + 1
  /\ socket' = arrived'
  /\ master' = "produce"
  /\ UNCHANGED <<stop_flag, ring, num_threads, worker, client, starter,
                 stopper, missed, fault>>

\* mutant: a ring that is taken for full one socket too late
FullLate == Queued > QueueSize

Full == Queued >= QueueSize

ProduceWaits ==
  /\ master = "produce" /\ MutexFree
  /\ Full /\ stop_flag = 0
  /\ master' = "full"
  /\ UNCHANGED <<stop_flag, ring, num_threads, worker, client, socket, arrived,
                 starter, stopper, missed, fault>>

Asleep == {w \in Worker : worker[w] = "asleep"}

SignalWorker == IF Asleep = {} THEN UNCHANGED worker
                ELSE \E w \in Asleep : Goes(w, "idle")

\* mutant: nobody is told of the new socket
ProduceSilently ==
  /\ master = "produce" /\ MutexFree
  /\ ~Full
  /\ queue' = [queue EXCEPT ![sq_head % QueueSize] = socket]
  /\ sq_head' = sq_head + 1
  /\ socket' = Nothing
  /\ master' = "accept"
  /\ UNCHANGED <<stop_flag, sq_tail, num_threads, worker, client, arrived,
                 starter, stopper, missed, fault>>

\* With a full ring and the stop begun the socket is dropped, not closed.
Produce ==
  /\ master = "produce" /\ MutexFree
  /\ ~Full \/ stop_flag # 0
  /\ IF Full THEN UNCHANGED <<queue, sq_head>>
     ELSE /\ queue' = [queue EXCEPT ![sq_head % QueueSize] = socket]
          /\ sq_head' = sq_head + 1
  /\ SignalWorker
  /\ socket' = Nothing
  /\ master' = "accept"
  /\ UNCHANGED <<stop_flag, sq_tail, num_threads, client, arrived, starter,
                 stopper, missed, fault>>

CloseListeners ==
  /\ master = "accept" /\ stop_flag # 0
  /\ master' = "broadcast"
  /\ UNCHANGED <<stop_flag, ring, num_threads, worker, client, socket, arrived,
                 starter, stopper, missed, fault>>

\* mutant: one worker is woken where all have to be
BroadcastToOne ==
  /\ master = "broadcast"
  /\ missed' = {w \in Worker : worker[w] = "aboutToWait"}
  /\ SignalWorker
  /\ master' = "join"
  /\ UNCHANGED <<stop_flag, ring, num_threads, client, socket, arrived,
                 starter, stopper, fault>>

\* Without the mutex: a worker that has tested stop_flag and does not wait
\* yet is not woken, and nothing wakes it later.
Broadcast ==
  /\ master = "broadcast"
  /\ missed' = {w \in Worker : worker[w] = "aboutToWait"}
  /\ worker' = [w \in Worker |-> IF w \in Asleep THEN "idle" ELSE worker[w]]
  /\ master' = "join"
  /\ UNCHANGED <<stop_flag, ring, num_threads, client, socket, arrived,
                 starter, stopper, fault>>

\* mutant: the master ends without waiting for the workers
JoinNobody ==
  /\ master = "join" /\ MutexFree
  /\ master' = "gone"
  /\ stop_flag' = 2
  /\ UNCHANGED <<ring, num_threads, worker, client, socket, arrived, starter,
                 stopper, missed, fault>>

Join ==
  /\ master = "join" /\ MutexFree
  /\ master' = IF num_threads > 0 THEN "joinWait" ELSE "joining"
  /\ UNCHANGED <<stop_flag, ring, num_threads, worker, client, socket, arrived,
                 starter, stopper, missed, fault>>

\* mg_join_thread for every entry of workerthreadids, also for those that
\* mg_start never filled; then stop_flag 2, the very last thing.
JoinThreads ==
  /\ master = "joining"
  /\ IF Unborn # {}
     THEN /\ fault' = "joined a thread that never was"
          /\ UNCHANGED <<master, stop_flag>>
     ELSE /\ \A w \in Worker : worker[w] = "gone"
          /\ master' = "gone"
          /\ stop_flag' = 2
          /\ UNCHANGED fault
  /\ UNCHANGED <<ring, num_threads, worker, client, socket, arrived, starter,
                 stopper, missed>>

(***************************************************************************)
(* mg_stop, called after mg_start has returned.                            *)
(***************************************************************************)
StopCall ==
  /\ starter = "started" /\ stopper = "none"
  /\ stopper' = "waiting"
  /\ stop_flag' = 1
  /\ UNCHANGED <<ring, num_threads, worker, client, master, socket, arrived,
                 starter, missed, fault>>

StopReturn ==
  /\ stopper = "waiting"
  /\ stop_flag = 2
  /\ stopper' = "freed"
  /\ UNCHANGED <<stop_flag, ring, num_threads, worker, client, master, socket,
                 arrived, starter, missed, fault>>

WorkerStep(w) == \/ FindNothing(w) \/ Sleep(w) \/ Consume(w) \/ Serve(w)
                 \/ Leave(w) \/ Finish(w) \/ ExitWorker(w)

MasterEnds == \/ CloseListeners \/ Broadcast \/ Join \/ JoinThreads

MasterStep == \/ ProduceWaits \/ Produce \/ MasterEnds

Next == /\ fault = "none"
        /\ \/ \E w \in Worker : StartWorker(w) \/ WorkerStep(w)
           \/ StartWorkerFails
           \/ Accept \/ MasterStep
           \/ StopCall \/ StopReturn

Spec == Init /\ [][Next]_vars

\* Every thread keeps running and every handler returns; nobody has to open
\* a connection, to call mg_stop, or to fail.
Fairness == /\ \A w \in Worker : WF_vars(fault = "none" /\ WorkerStep(w))
            /\ WF_vars(fault = "none" /\ MasterStep)
            /\ WF_vars(fault = "none" /\ StopReturn)
            /\ WF_vars(fault = "none" /\ \E w \in Worker : StartWorker(w))

FairSpec == Spec /\ Fairness

-----------------------------------------------------------------------------
(***************************************************************************)
(* Properties.                                                             *)
(***************************************************************************)

\* When mg_stop has freed the context no thread of the server is left that
\* could touch it, and no socket is half way (free_context: "All threads
\* exited, no sync is needed").
FreedMeansAlone ==
  stopper = "freed" => /\ master = "gone"
                       /\ \A w \in Worker : worker[w] = "gone"
                       /\ num_threads = 0

\* The sockets in the ring, in the order they are taken.
Waiting == [i \in 1..Queued |-> queue[(sq_tail + i - 1) % QueueSize]]

Pool == INSTANCE ServerPool WITH
          Size <- QueueSize,
          last <- IF socket = Nothing THEN arrived ELSE socket - 1,
          pending <- IF stopper = "freed" THEN <<>> ELSE Waiting,
          serving <- client,
          state <- IF stopper = "freed" THEN "stopped"
                   ELSE IF stop_flag = 0 THEN "open" ELSE "stopping"

\* The threads implement the pool: the connections are taken in the order
\* in which they came, each by one worker, none is overwritten in the ring
\* or taken twice when the indices wrap, and one is lost only in a stop.
ImplementsPool == Pool!Spec

\* A connection in the ring is taken by a worker, unless the server stops:
\* no signal of produce_socket is lost.
ConnectionServed ==
  \A c \in Connection :
    (\E i \in DOMAIN Waiting : Waiting[i] = c)
      ~> \/ \E w \in Worker : client[w] = c
         \/ stop_flag # 0
         \/ fault # "none"

\* The master waits for room in the ring and no worker is left to make it.
MasterForgotten ==
  /\ master = "full"
  /\ \A w \in Worker : worker[w] \in {"unborn", "leaving", "gone"}

\* mg_stop returns, except in the four ways in which the code fails: mg_start
\* has not made the master, who alone ends the stop; a worker was between its
\* test of stop_flag and its wait when the master sent the one broadcast; every
\* worker saw the stop on its way out of consume_socket, after its signal,
\* while the master waits for another; or the master joined a worker that
\* mg_start had not made.
StopReturns ==
  stopper = "waiting" ~> \/ stopper = "freed"
                         \/ master = "never"
                         \/ missed # {}
                         \/ MasterForgotten
                         \/ fault # "none"
=============================================================================
