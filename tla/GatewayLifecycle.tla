--------------------------- MODULE GatewayLifecycle ---------------------------
(***************************************************************************)
(* The life of the gateway process (Final_Project/src/main.c): the order   *)
(* in which main starts threads, forks the log process and initialises the *)
(* managers, and the order in which the cleanup after SIGINT takes them    *)
(* down while the threads still run.                                       *)
(*                                                                         *)
(* What a manager does in detail is the business of the other modules.     *)
(* Here a thread is the sections in which it holds a mutex, and the nodes  *)
(* on the connection list that lead it into them.  A call of the log while *)
(* log_manager.log is NULL crashes.                                        *)
(* ssl_close waits for the end of the sensor's process (SensorLink), with  *)
(* the list's mutex held; a write to a sensor that is gone raises SIGPIPE, *)
(* which nothing handles.  A client thread (socket.c), once started, is the *)
(* process's own: detached, it is neither cancelled nor joined.            *)
(*                                                                         *)
(* system_manager is a global, so before pthread_mutex_init a mutex is all *)
(* zero, which is an unlocked mutex.  Locking a destroyed one fails, and   *)
(* the caller, who ignores the result, goes on without it.                 *)
(***************************************************************************)
EXTENDS Integers, FiniteSets

CONSTANTS Sensor,   \* sensors that connect
          Client,   \* the detached threads of "connect" commands on this process
          NONE

Thread == {"connection", "timeout", "update", "data", "storage"}
Closer == {"main", "connection"}
Mutex  == {"conn", "store", "data"}
Part   == Mutex \cup {"log", "limiter", "ssl"}

ASSUME LifecycleAssumption ==
  IsFiniteSet(Sensor) /\ NONE \notin Thread \cup {"main"}

VARIABLES
  main,       \* where the main thread is
  at,         \* where the other threads are
  ready,      \* the parts that have been initialised
  gone,       \* the parts that have been destroyed
  holder,     \* who holds each mutex
  table,      \* nodes on the connection list
  closing,    \* the sensors each of the two closers has still to close
  ended,      \* sensors whose process has ended
  client,     \* the detached threads that have a connection to make
  todo,       \* nodes the data thread has still to visit
  stop,       \* stop_requested, in both processes
  cancelled,  \* pthread_cancel has been called for every thread
  process,    \* the gateway process
  child       \* the log process

linkVars == <<table, closing, ended, client>>
heapVars == <<table, closing, ended, client, todo>>
lockVars == <<ready, gone, holder>>
vars     == <<main, at, lockVars, heapVars, stop, cancelled, process, child>>

Place == {"none", "start", "idle", "tls", "add", "closing", "sweep", "visit",
          "lock", "pass", "check", "end"}

TypeOK ==
  /\ main \in {"start", "fork", "spawn", "input", "closing", "cleanConn",
               "cleanNode", "cleanData", "closeDb", "cleanStore", "cleanLog",
               "cancel", "join", "cleanSsl", "return"} \cup Part
  /\ at \in [Thread -> Place]
  /\ ready \in SUBSET Part
  /\ gone \in SUBSET Part
  /\ holder \in [Mutex -> Thread \cup {"main", NONE}]
  /\ table \in SUBSET Sensor /\ ended \in SUBSET Sensor
  /\ closing \in [Closer -> SUBSET Sensor]
  /\ client \in SUBSET Client
  /\ todo \in SUBSET Sensor
  /\ stop \in BOOLEAN /\ cancelled \in BOOLEAN
  /\ process \in {"up", "returned", "failed", "crashed"}
  /\ child \in {"none", "opening", "reading", "paused", "exited"}

Init ==
  /\ main = "start"
  /\ at = [t \in Thread |-> "none"]
  /\ ready = {} /\ gone = {} /\ holder = [m \in Mutex |-> NONE]
  /\ table = {} /\ closing = [t \in Closer |-> {}] /\ ended = {}
  /\ client = {}
  /\ todo = {}
  /\ stop = FALSE /\ cancelled = FALSE
  /\ process = "up" /\ child = "none"
------------------------------------------------------------------------------
Up == process = "up"

Free(m) == holder[m] = NONE \/ m \in gone

Lock(t, m) == /\ Free(m)
              /\ holder' = IF m \in gone THEN holder ELSE [holder EXCEPT ![m] = t]

\* Whoever is registered as the holder.
Unlock(m) == holder' = IF m \in gone THEN holder ELSE [holder EXCEPT ![m] = NONE]

\* One call of log_manager.log.
Logs == process' = IF "log" \in ready THEN "up" ELSE "crashed"

MayLog == Logs \/ UNCHANGED process

Goto(t, l) == at' = [at EXCEPT ![t] = l]
------------------------------------------------------------------------------
(* The main thread: start-up. *)

\* start_background_threads, before anything is initialised.
StartBackground ==
  /\ Up /\ main = "start"
  /\ at' = [at EXCEPT !["timeout"] = "idle", !["update"] = "idle"]
  /\ main' = "fork"
  /\ UNCHANGED <<lockVars, heapVars, stop, cancelled, process, child>>

Fork ==
  /\ Up /\ main = "fork"
  /\ child' = "opening"
  /\ main' = "log"
  /\ UNCHANGED <<at, lockVars, heapVars, stop, cancelled, process>>

\* init_log_manager finds the log process at the other end of the FIFO ...
InitLog ==
  /\ Up /\ main = "log" /\ child = "opening"
  /\ ready' = ready \cup {"log"}
  /\ main' = "conn"
  /\ UNCHANGED <<at, gone, holder, heapVars, stop, cancelled, process, child>>

\* ... or gives up after five attempts, and the gateway goes on without a log.
InitLogFails ==
  /\ Up /\ main = "log"
  /\ main' = "conn"
  /\ UNCHANGED <<at, lockVars, heapVars, stop, cancelled, process, child>>

\* Mutant of InitConn: the connection thread is started with its manager.
InitConnStarts ==
  /\ Up /\ main = "conn"
  /\ ready' = ready \cup {"conn"} /\ holder' = [holder EXCEPT !["conn"] = NONE]
  /\ table' = {}
  /\ Goto("connection", "start")
  /\ main' = "store"
  /\ UNCHANGED <<gone, closing, ended, client, todo, stop, cancelled, process, child>>

\* The timeout thread may be inside its section: the mutex forgets it.
InitConn ==
  /\ Up /\ main = "conn"
  /\ ready' = ready \cup {"conn"} /\ holder' = [holder EXCEPT !["conn"] = NONE]
  /\ table' = {}
  /\ main' = "store"
  /\ UNCHANGED <<at, gone, closing, ended, client, todo, stop, cancelled, process, child>>

InitStore ==
  /\ Up /\ main = "store"
  /\ ready' = ready \cup {"store"} /\ holder' = [holder EXCEPT !["store"] = NONE]
  /\ main' = "data"
  /\ UNCHANGED <<at, gone, heapVars, stop, cancelled, process, child>>

InitData ==
  /\ Up /\ main = "data"
  /\ ready' = ready \cup {"data"} /\ holder' = [holder EXCEPT !["data"] = NONE]
  /\ main' = "limiter"
  /\ UNCHANGED <<at, gone, heapVars, stop, cancelled, process, child>>

InitLimiter ==
  /\ Up /\ main = "limiter"
  /\ ready' = ready \cup {"limiter"}
  /\ main' = "ssl"
  /\ UNCHANGED <<at, gone, holder, heapVars, stop, cancelled, process, child>>

InitSsl ==
  /\ Up /\ main = "ssl"
  /\ ready' = ready \cup {"ssl"}
  /\ main' = "spawn"
  /\ UNCHANGED <<at, gone, holder, heapVars, stop, cancelled, process, child>>

\* exit(EXIT_FAILURE): fork fails, a certificate does not load, listen fails,
\* the last attempt to open the database fails.
Fails ==
  /\ Up
  /\ \/ main \in {"fork", "ssl"}
     \/ at["connection"] = "start"
     \/ at["storage"] = "idle"
  /\ process' = "failed"
  /\ UNCHANGED <<main, at, lockVars, heapVars, stop, cancelled, child>>

\* Mutant of Spawn: the gateway starts the log thread, which belongs to its child.
SpawnLogReader ==
  /\ Up /\ main = "spawn"
  /\ at' = [t \in Thread \cup {"log"} |->
              IF t \in {"timeout", "update"} THEN at[t] ELSE "start"]
  /\ main' = "input"
  /\ UNCHANGED <<lockVars, heapVars, stop, cancelled, process, child>>

Spawn ==
  /\ Up /\ main = "spawn"
  /\ at' = [at EXCEPT !["connection"] = "start", !["storage"] = "idle", !["data"] = "idle"]
  /\ main' = "input"
  /\ UNCHANGED <<lockVars, heapVars, stop, cancelled, process, child>>
------------------------------------------------------------------------------
(* The threads. *)

\* set_running_port, then the loop; a port that cannot be bound, or a signal
\* that has come already, ends the thread.
ConnectionStarts ==
  /\ Up /\ at["connection"] = "start"
  /\ \/ Free("conn") /\ ~stop /\ Goto("connection", "idle")
     \/ Goto("connection", "end")
  /\ UNCHANGED <<main, lockVars, heapVars, stop, cancelled, process, child>>

\* create_secure_connection makes an SSL object of the server's context.
Handshake ==
  /\ Up /\ at["connection"] = "idle" /\ ~cancelled
  /\ Goto("connection", "tls")
  /\ UNCHANGED <<main, lockVars, heapVars, stop, cancelled, process, child>>

HandshakeEnds ==
  /\ Up /\ at["connection"] = "tls" /\ ~cancelled
  /\ Goto("connection", "add") \/ Goto("connection", "idle")
  /\ UNCHANGED <<main, lockVars, heapVars, stop, cancelled, process, child>>

AddConnection(s) ==
  /\ Up /\ at["connection"] = "add" /\ s \notin table
  /\ Free("conn")
  /\ table' = table \cup {s}
  /\ Logs
  /\ Goto("connection", "idle")
  /\ UNCHANGED <<main, lockVars, closing, ended, client, todo, stop,
                 cancelled, child>>

\* The limiter refuses the client, which is logged all the same.
AddRefused ==
  /\ Up /\ at["connection"] = "add"
  /\ Logs
  /\ Goto("connection", "idle")
  /\ UNCHANGED <<main, lockVars, heapVars, stop, cancelled, child>>

\* The process of a sensor ends.
SensorEnds(s) ==
  /\ Up /\ s \notin ended
  /\ ended' = ended \cup {s}
  /\ UNCHANGED <<main, at, lockVars, table, closing, client, todo, stop, cancelled, process, child>>

\* remove_connection unlinks the node and begins to close it.
Unlink(t, s) ==
  /\ s \in table /\ Lock(t, "conn")
  /\ table' = table \ {s} /\ closing' = [closing EXCEPT ![t] = {s}]
  /\ UNCHANGED <<ready, gone, ended, client, todo, stop, cancelled, process, child>>

\* A hang-up seen by the connection thread.
HangUp(s) ==
  /\ Up /\ at["connection"] = "idle" /\ ~cancelled
  /\ Unlink("connection", s)
  /\ Goto("connection", "closing")
  /\ UNCHANGED main

\* "terminate" on the main thread.
Terminate(s) ==
  /\ Up /\ main = "input"
  /\ Unlink("main", s)
  /\ main' = "closing"
  /\ UNCHANGED at

\* ssl_close returns for s: it is gone, its number was closed before, or a
\* signal has interrupted the read.  The first SSL_shutdown writes to s, which
\* raises SIGPIPE if s is gone.
Closed(t, s) ==
  /\ s \in closing[t]
  /\ closing' = [closing EXCEPT ![t] = @ \ {s}]
  /\ UNCHANGED <<table, ended>>

BrokenPipe(s) == s \in ended /\ process' = "crashed"

\* The rest of remove_connection, and the line its callers log.
RemoveEnds(t, s) ==
  /\ Closed(t, s)
  /\ Unlock("conn")
  /\ Logs \/ BrokenPipe(s)
  /\ UNCHANGED <<ready, gone, client, todo, stop, cancelled, child>>

HangUpEnds(s) ==
  /\ Up /\ at["connection"] = "closing"
  /\ RemoveEnds("connection", s)
  /\ Goto("connection", "idle")
  /\ UNCHANGED main

\* The loop of main looks at stop_requested after each command.
TerminateEnds(s) ==
  /\ Up /\ main = "closing"
  /\ RemoveEnds("main", s)
  /\ main' = IF stop THEN "cleanConn" ELSE "input"
  /\ UNCHANGED at

\* The loop looks at stop_requested once it has handled what epoll_wait
\* reported, several events as it may be.
ConnectionStops ==
  /\ Up /\ at["connection"] = "idle" /\ stop
  /\ Goto("connection", "end")
  /\ UNCHANGED <<main, lockVars, heapVars, stop, cancelled, process, child>>

SweepBegins ==
  /\ Up /\ at["timeout"] = "idle" /\ ~cancelled
  /\ Lock("timeout", "conn")
  /\ Goto("timeout", "sweep")
  /\ UNCHANGED <<main, ready, gone, heapVars, stop, cancelled, process, child>>

SweepEnds ==
  /\ Up /\ at["timeout"] = "sweep"
  /\ \/ UNCHANGED <<table, process>>
     \/ \E S \in SUBSET table : S # {} /\ table' = table \ S /\ Logs
  /\ Unlock("conn")
  /\ Goto("timeout", "idle")
  /\ UNCHANGED <<main, ready, gone, closing, ended, client, todo, stop,
                 cancelled, child>>

\* The update thread reaches a node of the list, which it reads without the
\* mutex (the cleanup leaves the head where it was until all nodes are freed),
\* and calls storage_add_data for it.
Visit ==
  /\ Up /\ at["update"] = "idle" /\ ~cancelled /\ table # {}
  /\ Goto("update", "visit")
  /\ UNCHANGED <<main, lockVars, heapVars, stop, cancelled, process, child>>

AddData ==
  /\ Up /\ at["update"] = "visit"
  /\ Free("store")
  /\ Goto("update", "idle")
  /\ UNCHANGED <<main, lockVars, heapVars, stop, cancelled, process, child>>

DataWakes ==
  /\ Up /\ at["data"] = "idle" /\ ~stop
  /\ Goto("data", "lock")
  /\ UNCHANGED <<main, lockVars, heapVars, stop, cancelled, process, child>>

DataPassBegins ==
  /\ Up /\ at["data"] = "lock"
  /\ Lock("data", "conn")
  /\ todo' = table
  /\ Goto("data", "pass")
  /\ UNCHANGED <<main, ready, gone, linkVars, stop, cancelled, process, child>>

CheckBegins ==
  /\ Up /\ at["data"] = "pass"
  /\ Lock("data", "data")
  /\ \E s \in todo : todo' = todo \ {s}
  /\ Goto("data", "check")
  /\ UNCHANGED <<main, ready, gone, linkVars, stop, cancelled, process, child>>

CheckEnds ==
  /\ Up /\ at["data"] = "check"
  /\ MayLog
  /\ Unlock("data")
  /\ Goto("data", "pass")
  /\ UNCHANGED <<main, ready, gone, heapVars, stop, cancelled, child>>

\* Mutant of DataPassEnds: the list's mutex is kept.
DataPassEndsLocked ==
  /\ Up /\ at["data"] = "pass"
  /\ todo' = {}
  /\ Goto("data", "idle")
  /\ UNCHANGED <<main, lockVars, linkVars, stop, cancelled, process, child>>

\* The nodes left have no valid reading.
DataPassEnds ==
  /\ Up /\ at["data"] = "pass"
  /\ todo' = {}
  /\ Unlock("conn")
  /\ Goto("data", "idle")
  /\ UNCHANGED <<main, ready, gone, linkVars, stop, cancelled, process, child>>

\* storage_connect_with_retry, when it is needed and does not end the process.
Connected ==
  /\ Up /\ at["storage"] = "idle" /\ ~stop
  /\ MayLog
  /\ Goto("storage", "lock")
  /\ UNCHANGED <<main, lockVars, heapVars, stop, cancelled, child>>

StorePassBegins ==
  /\ Up /\ at["storage"] = "lock"
  /\ Lock("storage", "store")
  /\ Goto("storage", "pass")
  /\ UNCHANGED <<main, ready, gone, heapVars, stop, cancelled, process, child>>

StorePassEnds ==
  /\ Up /\ at["storage"] = "pass"
  /\ MayLog
  /\ Unlock("store")
  /\ Goto("storage", "idle")
  /\ UNCHANGED <<main, ready, gone, heapVars, stop, cancelled, child>>

\* The loops of data_manager and storage_manager end.
LoopEnds(t) ==
  /\ Up /\ t \in {"data", "storage"} /\ at[t] = "idle" /\ stop
  /\ Goto(t, "end")
  /\ UNCHANGED <<main, lockVars, heapVars, stop, cancelled, process, child>>

\* Cancellation takes effect in a sleep, a blocking call or a write, hence not
\* while the thread waits for a mutex; none of those returns any more.
Cancelled(t) ==
  /\ Up /\ cancelled /\ at[t] \notin {"add", "visit", "lock", "end"}
  /\ Goto(t, "end")
  /\ UNCHANGED <<main, lockVars, heapVars, stop, cancelled, process, child>>
------------------------------------------------------------------------------
(* The client threads. *)

\* "connect" starts a thread and detaches it.
ConnectCommand(k) ==
  /\ Up /\ main = "input" /\ k \notin client
  /\ client' = client \cup {k}
  /\ UNCHANGED <<main, at, lockVars, table, closing, ended, todo, stop, cancelled, process, child>>

\* connect() has returned, or failed.  The thread makes an SSL object of the
\* client context, or of what is left of it, shakes hands, sends and ends.  A
\* freed context and a broken pipe may each end the process.
ClientEnds(k) ==
  /\ Up /\ k \in client
  /\ client' = client \ {k}
  /\ process' \in {"up", "crashed"}
  /\ UNCHANGED <<main, at, lockVars, table, closing, ended, todo, stop,
                 cancelled, child>>
------------------------------------------------------------------------------
(* SIGINT and the main thread: cleanup_system. *)

\* The handler is registered first; the log process has it too.
Interrupt ==
  /\ Up /\ ~stop
  /\ stop' = TRUE
  /\ UNCHANGED <<main, at, lockVars, heapVars, cancelled, process, child>>

InputEnds ==
  /\ Up /\ main = "input" /\ stop
  /\ main' = "cleanConn"
  /\ UNCHANGED <<at, lockVars, heapVars, stop, cancelled, process, child>>

\* select() fails: the loop ends without a signal.
InputFails ==
  /\ Up /\ main = "input"
  /\ main' = "cleanConn"
  /\ UNCHANGED <<at, lockVars, heapVars, stop, cancelled, process, child>>

\* cleanup_connection_manager closes every node with the mutex held.
CleanConn ==
  /\ Up /\ main = "cleanConn"
  /\ Lock("main", "conn")
  /\ closing' = [closing EXCEPT !["main"] = table]
  /\ main' = "cleanNode"
  /\ UNCHANGED <<at, ready, gone, table, ended, client, todo, stop, cancelled, process, child>>

NodeClosed(s) ==
  /\ Up /\ main = "cleanNode"
  /\ Closed("main", s)
  /\ BrokenPipe(s) \/ UNCHANGED process
  /\ UNCHANGED <<main, at, lockVars, client, todo, stop, cancelled, child>>

CleanConnEnds ==
  /\ Up /\ main = "cleanNode" /\ closing["main"] = {}
  /\ Unlock("conn")
  /\ table' = {}
  /\ gone' = gone \cup {"conn"}
  /\ main' = "cleanData"
  /\ UNCHANGED <<at, ready, closing, ended, client, todo, stop, cancelled, process, child>>

CleanData ==
  /\ Up /\ main = "cleanData" /\ Free("data")
  /\ gone' = gone \cup {"data"}
  /\ main' = "closeDb"
  /\ UNCHANGED <<at, ready, holder, heapVars, stop, cancelled, process, child>>

\* Logged if there was a handle.
CloseDb ==
  /\ Up /\ main = "closeDb"
  /\ MayLog
  /\ main' = "cleanStore"
  /\ UNCHANGED <<at, lockVars, heapVars, stop, cancelled, child>>

CleanStore ==
  /\ Up /\ main = "cleanStore" /\ Free("store")
  /\ gone' = gone \cup {"store"}
  /\ main' = "cleanLog"
  /\ UNCHANGED <<at, ready, holder, heapVars, stop, cancelled, process, child>>

\* fifo_destroy closes the gateway's end of the FIFO.
CleanLog ==
  /\ Up /\ main = "cleanLog"
  /\ gone' = gone \cup {"log"}
  /\ main' = "cancel"
  /\ UNCHANGED <<at, ready, holder, heapVars, stop, cancelled, process, child>>

Cancel ==
  /\ Up /\ main = "cancel"
  /\ cancelled' = TRUE
  /\ main' = "join"
  /\ UNCHANGED <<at, lockVars, heapVars, stop, process, child>>

Join ==
  /\ Up /\ main = "join"
  /\ \A t \in Thread : at[t] = "end"
  /\ main' = "cleanSsl"
  /\ UNCHANGED <<at, lockVars, heapVars, stop, cancelled, process, child>>

CleanSsl ==
  /\ Up /\ main = "cleanSsl"
  /\ gone' = gone \cup {"ssl"}
  /\ main' = "return"
  /\ UNCHANGED <<at, ready, holder, heapVars, stop, cancelled, process, child>>

Return ==
  /\ Up /\ main = "return"
  /\ process' = "returned"
  /\ UNCHANGED <<main, at, lockVars, heapVars, stop, cancelled, child>>
------------------------------------------------------------------------------
(* The log process.  It was forked before the gateway opened the FIFO and  *)
(* so holds no writing end of it.                                          *)

FifoOpened == "log" \in ready

FifoClosed == FifoOpened /\ ("log" \in gone \/ ~Up)

\* open(O_RDONLY) returns once there is a writer.
ChildOpens ==
  /\ child = "opening" /\ FifoOpened
  /\ child' = "reading"
  /\ UNCHANGED <<main, at, lockVars, heapVars, stop, cancelled, process>>

\* Mutant of ChildEof: the end of the FIFO does not end the loop.
ChildEofIgnored ==
  /\ child = "reading" /\ FifoClosed
  /\ child' = "reading"
  /\ UNCHANGED <<main, at, lockVars, heapVars, stop, cancelled, process>>

\* log_manager ends, and its process goes on to pause().
ChildEof ==
  /\ child = "reading" /\ FifoClosed
  /\ child' = "paused"
  /\ UNCHANGED <<main, at, lockVars, heapVars, stop, cancelled, process>>

\* The signal interrupts the open or the read if the log thread is the one
\* that takes it.
ChildInterrupted ==
  /\ child \in {"opening", "reading"} /\ stop
  /\ child' = "paused"
  /\ UNCHANGED <<main, at, lockVars, heapVars, stop, cancelled, process>>

\* A second SIGINT.
ChildExits ==
  /\ child = "paused" /\ stop
  /\ child' = "exited"
  /\ UNCHANGED <<main, at, lockVars, heapVars, stop, cancelled, process>>
------------------------------------------------------------------------------
MainThread ==
  \/ StartBackground \/ Fork \/ InitLog \/ InitLogFails \/ InitConn \/ InitStore
  \/ InitData \/ InitLimiter \/ InitSsl \/ Spawn \/ InputEnds
  \/ CleanConn \/ CleanConnEnds \/ CleanData \/ CloseDb \/ CleanStore \/ CleanLog
  \/ Cancel \/ Join \/ CleanSsl \/ Return

ConnectionThread ==
  \/ ConnectionStarts \/ Handshake \/ HandshakeEnds \/ AddRefused \/ ConnectionStops
  \/ \E s \in Sensor : AddConnection(s) \/ HangUp(s)

MainCloseEnds(s) == TerminateEnds(s) \/ NodeClosed(s)

DataThread ==
  \/ DataWakes \/ DataPassBegins \/ CheckBegins \/ CheckEnds \/ DataPassEnds
  \/ LoopEnds("data")

StorageThread == Connected \/ StorePassBegins \/ StorePassEnds \/ LoopEnds("storage")

Child == ChildOpens \/ ChildEof

Next ==
  \/ MainThread \/ InputFails \/ Interrupt \/ Fails
  \/ \E k \in Client : ConnectCommand(k) \/ ClientEnds(k)
  \/ \E s \in Sensor : Terminate(s) \/ MainCloseEnds(s) \/ HangUpEnds(s) \/ SensorEnds(s)
  \/ ConnectionThread \/ SweepBegins \/ SweepEnds \/ Visit \/ AddData
  \/ DataThread \/ StorageThread
  \/ \E t \in Thread : Cancelled(t)
  \/ Child \/ ChildInterrupted \/ ChildExits

Spec == Init /\ [][Next]_vars

\* Every thread that holds a mutex goes on, a close of a sensor that has ended
\* returns, main goes on, and a mutex that is released again and again for
\* seconds at a time is got in the end.
FairSpec ==
  /\ Spec
  /\ WF_vars(MainThread)
  /\ SF_vars(CleanConn) /\ SF_vars(CleanData) /\ SF_vars(CleanStore)
  /\ \A s \in Sensor : /\ WF_vars(s \in ended /\ MainCloseEnds(s))
                        /\ WF_vars(s \in ended /\ HangUpEnds(s))
  /\ WF_vars(SweepEnds) /\ WF_vars(CheckEnds) /\ WF_vars(StorePassEnds)
  /\ WF_vars(CheckBegins \/ DataPassEnds)
  /\ WF_vars(Child)
------------------------------------------------------------------------------
(* Properties. *)

\* The timeout and update threads run before anything is initialised and the
\* others while some of it is being destroyed.  No mutex but the list's is
\* used, and no handshake made or node listed, before its part is ready.
ReadyBeforeUse ==
  /\ table # {} => Part \ {"log"} \subseteq ready
  /\ at["update"] = "visit" => "store" \in ready
  /\ at["data"] = "check" => "data" \in ready
  /\ at["connection"] \in {"tls", "add"} => {"ssl", "limiter"} \subseteq ready
  /\ client # {} => "ssl" \in ready

\* Every critical section of the threads, by the mutex it is entered with.
Inside(t, m) ==
  \/ m = "conn" /\ t = "timeout" /\ at["timeout"] = "sweep"
  \/ m = "conn" /\ t = "data" /\ at["data"] \in {"pass", "check"}
  \/ m = "conn" /\ t = "connection" /\ at["connection"] = "closing" /\ closing["connection"] # {}
  \/ m = "conn" /\ t = "main" /\ main = "cleanNode"
  \/ m = "conn" /\ t = "main" /\ main = "closing" /\ closing["main"] # {}
  \/ m = "store" /\ t = "storage" /\ at["storage"] = "pass"
  \/ m = "data" /\ t = "data" /\ at["data"] = "check"

\* A mutex the cleanup still has to get is never left behind by a thread that
\* is not in its section, or waiting there for another mutex: not by a thread
\* that ends or is cancelled, nor by one whose hold pthread_mutex_init made the
\* mutex forget.  Locks are nested only in check_temperature_status, whose
\* mutex is free whenever the data thread comes for it.
HoldersGoOn ==
  /\ \A m \in Mutex \ gone : holder[m] # NONE => Inside(holder[m], m)
  /\ at["data"] = "pass" => Free("data")

\* The gateway is to stop: a signal has come, or the cleanup has begun.
Stopping == stop \/ main \in {"cleanConn", "cleanNode", "cleanData", "closeDb",
                             "cleanStore", "cleanLog", "cancel", "join", "cleanSsl", "return"}

\* Whenever SIGINT comes, during start-up too, the cleanup gets past every
\* mutex the running threads hold and every close they or it are in, and asks
\* the threads to end, provided the sensors end as well.
CleanupGetsThrough ==
  (Stopping /\ ended = Sensor) ~> (main \in {"cancel", "join", "cleanSsl", "return"} \/ ~Up)

\* A log process that has once opened the FIFO does not read it for ever after
\* the cleanup of a gateway without live sensors: it sees the end of the FIFO.
LogReaderEnds == (child = "reading" /\ Stopping /\ ended = Sensor) ~> child # "reading"
------------------------------------------------------------------------------
(***************************************************************************)
(* The inductive invariant behind the safety properties: what each stage   *)
(* of main has made ready, and which threads it finds running.             *)
(***************************************************************************)
Startup == {"start", "fork", "spawn"} \cup Part

\* Until Spawn only the timeout and update threads run, on an empty list.
StartInv ==
  main \in Startup => /\ \A t \in {"connection", "data", "storage"} : at[t] = "none"
                      /\ at["update"] # "visit"
                      /\ main = "start" => at["timeout"] = "none"
                      /\ table = {}
                      /\ client = {}

ReadyInv ==
  LET before == {"start", "fork", "log"}
  IN  /\ main \notin before \cup {"conn"} => "conn" \in ready
      /\ main \notin before \cup {"conn", "store"} => "store" \in ready
      /\ main \notin before \cup {"conn", "store", "data"} => "data" \in ready
      /\ main \notin before \cup {"conn", "store", "data", "limiter"} => "limiter" \in ready
      /\ main \notin before \cup {"conn", "store", "data", "limiter", "ssl"} => "ssl" \in ready

EndInv == /\ main \in {"cleanSsl", "return"} => \A t \in Thread : at[t] = "end"
          /\ "ssl" \in gone => main = "return"
          /\ cancelled => main \notin Startup

\* What the cleanup has destroyed at each stage; threads are cancelled only when
\* the mutexes are gone.
GoneInv ==
  LET after == {"cancel", "join", "cleanSsl", "return"}
  IN  /\ main \in after \cup {"cleanLog", "cleanStore", "closeDb", "cleanData"} => "conn" \in gone
      /\ main \in after \cup {"cleanLog", "cleanStore", "closeDb"} => "data" \in gone
      /\ main \in after \cup {"cleanLog"} => "store" \in gone
      /\ cancelled => main \in after

LockInv == GoneInv /\ HoldersGoOn

IndInv == TypeOK /\ StartInv /\ ReadyInv /\ EndInv
==============================================================================
