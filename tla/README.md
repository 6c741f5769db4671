# Verification of the temperature-sensor gateway and the chat program

The repository is a course on Linux system programming in C. Lessons 1 to 8 are
exercises; `Final_Project/` is the program they lead to, a gateway that accepts
sensors over TLS, checks their temperatures, stores their readings in SQLite and
logs events through a FIFO to a second process. `src/Lesson6_Chat_Application` is
the largest of the exercises, a peer-to-peer chat. This directory holds TLA+ models
of both, the TLC configurations that check them and the TLAPS proofs of their main
properties. Paths below are relative to `src/Final_Project/` unless
they start with `src/`.

Contents: [inventory](#inventory), [modules](#modules), [runs](#runs),
[fairness](#fairness), [bounds](#bounds), [proofs](#proofs),
[findings](#findings), [abstractions](#abstractions),
[not modelled](#not-modelled), [plan](#plan).

## Inventory

Two processes share no memory: the gateway and, after a `fork` in
`start_log_process`, the log process. The gateway runs five threads besides
`main`, which reads commands.

| Thread | Code | What it does for ever |
| --- | --- | --- |
| connection | `connection.c` `connection_manager` | epoll loop: accept, handshake, admit; react to hang-ups |
| timeout | `connection.c` `check_timeout_connection_thread` | drop sensors that were silent for over 30 s |
| update | `connection.c` `update_sensor_data_thread` | invent a reading (0 to 49) for each listed sensor, hand it to storage |
| data | `data.c` `data_manager` | feed each valid reading to a running average, warn when too hot or cold |
| storage | `storage.c` `storage_manager` | connect to SQLite, move pending readings into it |
| main | `main.c`, `user_interface.c` | commands; after SIGINT the cleanup |

All of them keep their state in the global `system_manager`.

**Connection manager** (`connection.c`, `socket.c`, `utils.c`). State: the linked
list of `ConnectionNode`, `active_count`, one mutex, the epoll set, the process's
descriptor table. Operations: `handle_new_connection`, `add_connection`,
`remove_connection`, `handle_existing_connection`,
`check_and_cleanup_inactive_connections`, `update_sensor_data_thread`,
`update_sensor_temperature`, `find_connection_by_fd`, lookups. Four threads touch
the list. Hard: values read under one mutex or none and used under another (the new
id, the port that was free, the node found by descriptor, the node a walk without
the mutex has reached); a descriptor number that comes from the client; removal in
three places; a removal that waits for the sensor with the mutex held. Correct when the count and the slots of the
limiter agree with the list, an address stays within its limit, ports and ids are
unique, a walk misses no sensor, sensors that are gone leave, and what a removed
sensor held is released. Not all of it is so: see [findings](#findings).

**Address limiter** (`security.c`). State: an append-only table of addresses with
a count each, and a mutex. Operations: `ip_limiter_allow`, `ip_limiter_remove`.
Correct when each slot taken is given back exactly once.

**TLS and plain channels** (`security.c`). A `SecureCommunication` with the
operations send, receive and close behind function pointers, made by
`create_secure_connection` and freed by `destroy_secure_connection`. `ssl_close`
calls `SSL_shutdown` again when the first call returns 0, and on a blocking socket
the second reads until the peer answers or is gone. No sensor ever answers: its
thread has returned and nothing reads the socket. A close therefore lasts as long
as the sensor's process. `remove_connection` and the cleanup make it with the
list's mutex held, and the refusal of a client makes it on the thread that serves
everybody. Hard: who destroys the object, once, on each of the error paths at
both ends; what waits for what meanwhile. Correct when no socket is left open with
nobody to close it and both ends agree on who is connected.

**Storage manager** (`storage.c`). State: the pending list,
`total_messages_received`, `sql_info` (handle, status, retry count), one mutex.
Operations: `storage_add_data`, `storage_connect_with_retry`,
`process_pending_data`, `cleanup_storage_manager`. Hard: each SQLite call may
fail; the retry limit ends the process; cleanup closes the handle without the
mutex and destroys the mutex while others use it. Correct when no reading is
written twice or given up while the gateway runs, and status tells the truth
about the handle.

**Data manager** (`data.c`). State: a ring of readings per sensor id, one mutex,
taken inside the mutex of the list. Operations: `update_temperature_history`,
`calculate_running_average`, `check_temperature_status`, and the pass
`data_manager`. Hard: an early return that holds a mutex; ids past the rings;
ids that are reused. Correct when the average is over the last samples of that
id and each pass ends.

**Log manager** (`logger.c`, `start_log_process`). State: the counter of events,
the FIFO, the file, in two processes. Operations: `fifo_log`, `fifo_destroy`,
`clear_log_file`, the loop `log_manager` of the log process. Hard: the counter is
outside the mutex, the FIFO may be full, either end may go first on SIGINT.
Correct when an event is recorded at most once, in order, under its own number,
and shutdown completes.

**Process life cycle** (`main.c`). State: which manager has been initialised or
destroyed, who holds each mutex, `stop_requested` in both processes. Operations:
start-up, signal handler, `cleanup_system`, cancellation and joins. Hard: two
threads and the log process start before anything is initialised; the signal may
come at any moment; the cleanup frees lists and destroys mutexes before it cancels
the threads that use them. Correct when nothing is used before it is ready, the
SSL contexts outlive their users (they do not outlive a detached client thread), the
cleanup gets every mutex it waits for and the
log process notices the end.

**Sensor client** (`socket.c` `client_thread_main`). The command `connect` makes
the same program, running as another process, a sensor: its thread connects,
shakes hands, sends one packet (its own number for the socket, its address and
the port its own listener runs on) and ends, leaving the socket open. It sends
nothing more; the connection ends with the process. On the error path after a
failed send the number is closed twice (`socket.c:332`), and another client thread
of the process may have got it in between. All commands of a process report the
same port, so a second one is refused while the first is listed. State: the thread's
place, its number, the descriptor table of the process.

**Command line** (`user_interface.c`). Reads a line and dispatches it; `connect`
starts a client, `terminate` and `clearlog` change the state of the gateway, the
others print.

**Chat program** (`src/Lesson6_Chat_Application/src`). State: `peer_manager`, an
array of slots with an `active` flag, an id and a socket each, and
`connection_count`, under a mutex; `keep_running`; the thread manager with a mutex
of its own; the process's descriptor table. The main thread reads commands
(`connect`, `send`, `terminate`, `exit`), one thread accepts, and each connection
has a thread that receives. Operations: `add_peer_manager`,
`remove_peer_by_id` (which moves slots up), `remove_peer_by_socket` (which does
not), `close_all_peer_manager`, the message handlers, `socket_stop`,
`thread_manager_add` (which refuses a thread when MAX_THREADS have been added, for
good) and `thread_manager_join_all`. Hard: every thread closes
descriptors by number and numbers are reused; slot, id and count are three
numberings of the peers; a stop races with accepting and receiving; a lock is held
during joins. Correct when the count agrees with the slots, a connection is listed
once, every socket is closed by somebody, and a stop ends every thread.

**Lessons.** The others are single-file exercises; see
[not modelled](#not-modelled).

How they meet: the connection thread calls the limiter and the log; the update
thread reads the list and calls storage; the data thread holds the list's mutex,
takes the data mutex and logs; storage and connection log; `main` removes sensors,
reads the statuses and tears everything down.

## Modules

| Module | Models | Role |
| --- | --- | --- |
| `IpLimiter` | `security.c` `ip_limiter_*` | state and operators of the limiter, extended by `ConnectionTable` |
| `ConnectionTable` | `connection.c`, parts of `security.c`, `socket.c`, `utils.c` | the connection, timeout, command and update threads on the list |
| `Admission` | | abstract: sensors join once under a cap per address, leave for good |
| `SensorUpdates` | `connection.c` 580-600, 448-469 | `ConnectionTable` with the update thread node by node, without the mutex |
| `MCSensorUpdates` | | three sensors for TLC |
| `SensorLink` | `socket.c` client, `security.c` TLS, `connection.c`, `user_interface.c` | sensor processes and the gateway, step by step, with closes that wait |
| `MCSensorLink` | | three connections of two processes for TLC |
| `SensorStorage` | `storage.c`, cleanup of `main.c` | update, storage and main threads, SQLite |
| `ReadingLedger` | | abstract: each reading buffered, written once, given up only when going down |
| `TemperatureMonitor` | `data.c`, the id of `connection.c` | the pass of the data thread, with sensors coming and going |
| `RunningWindow` | | abstract: per id, the last samples and the verdict of their mean |
| `FifoLog` | `logger.c`, `start_log_process` | threads numbering and writing, log process reading, SIGINT |
| `LossyLog` | | abstract: each event queued and logged at most once, in order |
| `GatewayLifecycle` | `main.c`, init, cleanup and locked sections of every manager | start-up, SIGINT, cleanup and joins among the running threads; the log process's life |
| `ChatPeers` | `src/Lesson6_Chat_Application` | one chat process: table of peers, commands, accept and receive threads, descriptors |
| `PeerBook` | | abstract: peers enter and leave one at a time, or all at once, under a maximum |
| `MCChatPeers` | | three connections for TLC |
| `ConnectionTableProof`, `SensorUpdatesProof`, `SensorLinkProof`, `SensorStorageProof`, `TemperatureMonitorProof`, `FifoLogProof`, `GatewayLifecycleProof`, `ChatPeersProof` | | the theorems |

The component modules start with an initialised manager. `GatewayLifecycle` is
the module in which they meet: it keeps of each only its mutex, the sections under
that mutex, its calls of the log and what it leaves on the heap.

### ConnectionTable

`listed` is the linked list. It is pushed at its head only, so the order is that
of `stamp`, the number of the push, and `First(c, S)` is the first node of S that
a walk meets. `activeCount` and `sensorId` are the fields of those names; `idle`
are the nodes whose `last_active_time` is over 30 s old. `fds` is the descriptor
table of the gateway; `sslFd` is `ssl_conn->fd`, and `SockFdOf` the `sock_fd` of
the packet, a number of the *client's* table that `create_sensor_connection`
stores in `socket_fd`. `comm` says how often a `SecureCommunication` was
destroyed. `pc`, `batch`, `cc`, `cfd`, `id` and `found` are the locals of the
connection thread.

One section under `connection_manager.mutex` is one action. What the code does
outside the mutex is an action of its own, so that the other threads come
between: `AcceptClient`, `HandshakeOk/Fails`, `PacketOk/Fails`,
`PortRefused/PortFree`, `ReadId` (the read of `active_count`),
`AdmitSlot/LimiterRefuses`, `Push/PushNoMemory`, `RegisterOk/Fails`,
`UndoRemove`, `UndoClose` follow `handle_new_connection` line by line;
`FindNode/FindNone`, `PeekGone`, `DropEvent`, `DropRemove` follow
`handle_existing_connection`. `TimeoutSweep` is one sweep; `Terminate` is the
command; `Refresh` is one visit by the update thread. The TLS close of a removal is
part of its step here: what it waits for is the subject of `SensorLink`.

### SensorUpdates

Extends `ConnectionTable` and replaces `Refresh` by the thread that does it. `upc`,
`cursor` and `target` are its place, the node its walk has reached and the node
`find` returned. `FindTarget` looks the id of the node at `cursor` up from the head;
`WriteTarget` writes the time into the node found and goes to `current->next`. All
other threads step in between. A pointer to a freed block reads what the block held
or a node allocated there since (`Lookups`, `Reached`), and the next pointer in it may
lead to any block, free or not, or end the walk (`NextOf`). If the block has been given
to something else the write, or what follows the pointer, has no meaning in C: the
thread derails (`Derail`), `upc` is `lost` and the behaviour ends there. What is said
of the table holds up to that point and no further. `due` is a history variable, the
nodes a walk found listed at its start and has still to come to.

### SensorLink

Both ends of a connection. A member of `Conn` is one `connect` command. `cpc`,
`sock` and `fds` are the place of its client thread, its number and the descriptor
table of each process; `said` is what it has put on the wire. The client actions
follow `client_thread_main` return by return; `GiveUp` is an early return with its
`close`, `SendFails` and `CloseAgain` the two closes of the last one. At the gateway
`gpc` and `gc` follow the connection thread, `mpc` the command line, `held` are the
accepted sockets, `armed` those whose hang-up has not been reported. A removal is
`RemoveBegins` and `RemoveEnds` (or `TerminateBegins`, `TerminateEnds`): in between
the node is unlinked, `ssl_close` waits for the sensor, and `MutexFree` is
false. `ServerShakes`, `RecvPacket` and `CloseEnds` are blocking calls too: they
are enabled when their call returns. `Ends` says when a call on a socket ends without
an answer: the sensor's end is closed, or the number was closed before the call. A
call that waits when another thread closes its number goes on waiting. `Wakes` and
`UpdateWalk` are the gateway's update thread, the only one that renews a node's time,
whatever the sensor does; `idle` are the nodes its walks have missed.

### SensorStorage

`pending` ordered by `arrival` is the list; a pass is a `cursor`, the arrival
number last visited. `handle` is what `db_handle` points to: `null`, `open`,
`broken` (it worked once), `failed` (the object a failed `sqlite3_open` leaves),
`closed` (left dangling by the failed table). `mpc` follows the main thread from
SIGINT through `cleanup_storage_manager` to the exit. Each SQLite call is an
action that succeeds and one that fails.

### TemperatureMonitor

`table` is the list, head first; `todo` the rest of the walk. `cells`, `fill`
and `next` are `temperature_history`, `count` and `index` of each ring. `Check`
and `CheckInvalid` are the two ways through `check_temperature_status`.
`verdict` records the last message logged for an id.

### FifoLog

`call` follows each call of `fifo_log`: `Load` and `Store` are the two halves of
`log_count++`, then `WriteOk`, `WriteFails` (full FIFO, closed descriptor) or
`WriteKills` (no reader). `Read` is one turn of the log process's loop,
`ReadInterrupted` and `ReadEof` its exits. `ClearTruncates` and `ClearWritesHeader` are
the two ends of `clear_log_file`: what the log process appends in between is at offset
0, where the header then goes. `InputEnds` is the end of the command loop, for a signal
or because `select` failed.

### GatewayLifecycle

`main` is the next call of the main thread: `start_background_threads`,
`start_log_process`, the six calls of `initialize_system` (a stage is named after
the part it makes ready), the creation of three threads, the input loop, the calls
of `cleanup_system` in their order, the return. `InputFails` is the failing `select`,
after which the cleanup runs though nobody asked for a stop. `at` places the other threads:
asleep or blocked (`idle`), in a handshake (`tls`), waiting for a mutex (`add`,
`visit`, `lock`), or inside a section (`sweep`, `pass`, and `check`, the inner
section of the data thread). `table` are the nodes on the heap. `client` are the
detached threads of `connect` commands given on this process: they take the client's
SSL context when they have connected (`ClientEnds`) and are neither cancelled nor
joined, so they may find it freed; a crash is then one of the outcomes. `process` ends as `returned`, `failed`
(`exit(EXIT_FAILURE)`) or `crashed` (a call of `log_manager.log` while it is NULL).
`child` is the log process: blocked in `open`, reading, in `pause()`, exited.

`system_manager` is a zero-initialised global, so a mutex can be locked before
`pthread_mutex_init`, and initialising it forgets who holds it (`InitConn`); after
`pthread_mutex_destroy` a lock fails and the caller, who ignores the result, goes
on (`Free`, `Lock`). `closing` are the nodes a remover or the cleanup has still to
close; `Closed` ends the wait for one of them, `BrokenPipe` is the SIGPIPE of the
first `SSL_shutdown` when the sensor is gone. `Cancelled` lets a thread end in a sleep, a blocking call or a
write, and not while it waits for a mutex, which is no cancellation point.

### ChatPeers

`table` and `count` are `peers` and `connection_count`; a slot that is not active
is `NoPeer`, whatever it still contains. A slot remembers the connection it was
made for (`conn`), which the code does not, so that properties can tell a socket
from its number. `fds` is the descriptor table: the connection open on a number.
`mpc` follows the main thread: at the prompt, in the middle of `connect` (`add`,
`greet`), in the middle of `terminate` (`remove`), and through
`cleanup_app_context`. `apc` and `rpc` follow the accept thread and each receive
thread, `sock` is the number a receive thread was started with, `on` the connection
that its pending `recv` waits on, which a close of the number does not change, and
`timed` the connections on which a receive timeout was set. `managed` are the threads
that the thread manager knows. `remote`, `inbox` and `backlog` are the other programs
and the network; `Terminating` and `Leaving` say which of them may send "terminate" and
which may leave by themselves.

`ConnectCommand`, `Added/NotAdded` and `ReceiverStarts/ReceiverFails` follow
`execute_connect`; `TerminateCommand` and `Removes` follow `execute_terminate`, with
`RemoveById`; `StopServer`, `StopPeers` and `JoinsAndReturns` follow `socket_stop`
and the rest of the cleanup. `Accepts`, `Spawns/SpawnFails`, `AcceptUnlists` and
`Registers` are the accept loop, between whose steps the listener may be shut down;
`Registers` is `thread_manager_add`, which waits while the main thread is joining and
refuses a thread when `MaxThreads` were added before (`Manage`). `SetsTimeout`, `Calls`,
`TimesOut`, `HandlesConnect`, `HandlesTerminate`, `EndOfStream`, `LeavesLoop` and
`Unlists` are the receive thread: a `recv` is its call and its return, and what it
returns comes from the connection it was called on, while the handlers act on the
number. `KilledBySend` is the default action of SIGPIPE. When `main` returns the
process ends with the threads it did not join.

## Runs

Runs that pass:

- `connection_table` (`SensorUpdates.cfg`, about 3,170,000 states, two minutes).
  `active_count` is the length of the list (`CountMatchesList`); every slot of the
  limiter has a holder (`SlotsAccounted`); the cap of an address holds although it
  is tested under one mutex and the node is pushed under another (`PerIpCap`); so do
  unique ports (`PortsUnique`, because only the connection thread pushes); the table
  refines `Admission` (`TableSpec`). All this with the update thread's walk through
  whatever its pointers lead to, up to a step that has no meaning. A walk that has not
  stood on a freed node comes to every sensor listed all the while, unless another one
  nearer the head has its id (`WalkMissesNone`).
- `sensor_link` (`SensorLink.cfg`, about 382,000 states, two and a half minutes). Whatever step
  fails at either end, a socket open in a sensor belongs to a thread at work or to
  one that is done (`NoSocketLeftOpen`), and a listed sensor is one whose thread
  ended well (`ListedLinked`). What the connection thread blocks on has been sent, is
  about to be sent by a client that waits for nothing, or fails (`ReadsAnswered`), and
  so the one thread that serves everybody gets out of its blocking handshakes and
  reads (`HandshakesEnd`). Once no sensor is left every wait in the gateway ends, with
  its queue served and its hang-ups taken (`WaitsEnd`).
- `sensor_storage` (about 14,000 states). A reading that has arrived is in exactly
  one place, the list, one row, or given up, and given up only when the gateway goes
  down, whatever shutdown interrupts (`StoredOnce`); the total is the number of
  rows; CONNECTED means an opened handle; it refines `ReadingLedger`; a reading
  left by failed insertions is stored in the end, unless the handle stops working;
  shutdown gets its mutex.
- `temperature_monitor` (about 49,000 states). The rings, read oldest first, are
  the last samples of the id and the verdict is that of their mean
  (`WindowSpec`); while all ids have a ring each pass ends (`PassesEnd`).
- `fifo_log` (about 57,000 states). Numbers stay below the calls begun, lost
  increments notwithstanding (`NumbersBounded`); neither end goes away, and the logger
  is not destroyed, before the interrupt or the end of the command loop
  (`RunUntilStop`); it refines `LossyLog`, clears of the file included; what is in the
  FIFO is copied (`FifoDrains`).
- `gateway_lifecycle` (about 594,000 states, two minutes). The threads that run
  before the initialisation, and those that run during the cleanup, use nothing that
  is not ready, save the list's mutex (`ReadyBeforeUse`); a mutex the cleanup has still
  to get is held by a thread inside its section and by no other, whatever was
  cancelled, destroyed or initialised under a lock (`HoldersGoOn`); whenever the signal
  comes, the cleanup gets past every mutex and every close to the cancellation, once
  the sensors have ended (`CleanupGetsThrough`); the log process sees the end of the
  FIFO and leaves its loop (`LogReaderEnds`).
- `chat_peers` (about 434,000 states, two minutes). Commands and threads remove
  peers by number from a table that the two removals leave in different shapes; yet
  the count is that of the active slots (`CountMatchesSlots`), no connection is
  listed twice (`ListedOnce`), and peers leave one at a time except when all go
  (`BookSpec`). Every open socket has a slot or a thread that will close it; when
  `main` returns only those of threads the manager refused are open
  (`SocketsHeld`). After a stop no receive thread stays (`ReceiversEnd`), thanks to
  the receive timeout: a thread in a `recv` on a connection without one is excepted.

Runs that refute what a comment or the README says, one property each:
`sensor_ids`, `held_nodes`, `terminate_returns`, `gone_dropped`, `chat_exit`; see
[findings](#findings).

Deadlock is not checked: a gateway whose clients have all been and gone, or
which has exited, stops, so does a chat process, and some states in which a thread
is stuck are what the findings are about. That nothing else gets stuck is what the
liveness properties say.

Every property of a passing run has a mutant, an operator with a plausible bug
(a slot not returned, a walk that advances twice, an index that is not wrapped, a
mutex kept) under which TLC finds that property violated. The mutants stand in the
modules, before the definition they alter.

## Fairness

- `ConnectionTable` and `SensorUpdates` state none: their properties are safety.
- In `SensorLink` each client thread is weakly fair. The connection thread is strongly
  fair as long as it is not in a call that waits for a sensor (`Blocked`): it needs the
  list's mutex now and then, and gets it if that is free again and again. The close of
  a `terminate` ends once the sensor's end is closed. The update thread wakes and walks
  (weakly fair, as it takes no mutex); `Sweep` is strongly fair: the timeout thread asks
  for the mutex every five seconds. Nothing says that a sensor's process ends; that the
  mutex and the connection thread are free again and again is the premise of
  `GoneDropped`, which is refuted in spite of it.
- `StorageThread` is weakly fair, and so is a cleanup that has begun. Strong
  fairness of `InsertOk(r)` is an assumption about SQLite and not about the code:
  an insertion tried again and again on a handle that works is not refused for
  ever. `EventuallyStored` excepts a handle that has stopped working.
- `DataThread` is weakly fair: an endless loop with a sleep.
- `LogProcess` is weakly fair: it blocks only while the FIFO is empty.
- In `GatewayLifecycle` the main thread and every holder of a mutex
  (`SweepEnds`, `CheckEnds`, `CheckBegins \/ DataPassEnds`, `StorePassEnds`) are
  weakly fair: none of these sections blocks on a peer. A close is weakly fair only
  for a sensor that has ended (`s \in ended`). `CleanConn`, `CleanData`
  and `CleanStore` are strongly fair: the sections that compete for the mutexes
  are separated by sleeps of seconds, so a waiter is not overtaken for ever.
  Nothing is assumed of the threads outside their sections. `Child` is weakly
  fair: `read` returns at the end of the FIFO.
- In `ChatPeers` the main thread inside a command and in the cleanup, the accept
  thread and each receive thread are weakly fair: they run, and `recv` returns after
  a second on a connection with a timeout. Accepting a connection is left out, as is
  typing a command, and so is the return of a `recv` without a timeout: its steps
  need a word from the other end.

No fairness is given to the ends of clients, to SIGINT or to commands.

## Bounds

- Three sensors, of which two share an address and two share a port, with a cap
  of one per address: refusals by the limiter and by the port check, a duplicate
  id (it takes a removal and two more joins) and a second node for a descriptor
  all occur. A sensor connects once; a reconnecting device is another sensor.
- Room for both addresses in the limiter's table: its being full is not met.
- Four descriptors: the listener and three sockets. A client's number names the
  listener, its own or another's socket.
- `sensor_link` has two commands in one process and one in another, two numbers
  per process: a number that is closed twice while another thread has it, a second
  connection refused for its port, a close that waits while others age, and a
  process that dies at each step occur.
- `RetryLimit = 3` as in the code, two or three readings: success after failure,
  pending nodes on both sides of a failed one and the fatal third attempt occur.
- One ring of three cells, two sensors, two temperatures around the cold
  threshold: the ring fills, wraps and is reused by another sensor, and an id
  without a ring occurs. `next` and `fill` bound the state; no counter is cut.
- A FIFO of two events, reads of at most two, three events: full, partly read and
  empty FIFO occur.
- `gateway_lifecycle` has one sensor, which may come, go and come again, and one
  client thread at a time: enough for a list that is empty or not, a pass with
  something to check, a node admitted after the list was freed, a context freed under
  its user.
- `chat_peers` has one connection from outside and two of the program's own, one
  descriptor number, two slots, and a manager with room for one thread besides the
  accept thread. The slot of a peer that has hung up stays taken from the close of its
  number to its removal, so that a full table meets one more peer although there is one
  number. A slot moved up, a number that is closed and another's while its old thread is
  at any of its steps, a thread that the manager refuses and a timeout set on the wrong
  connection occur. The one from outside and one of the others may leave when they
  like, and the latter may terminate too; the third stays until it is closed
  (`Terminating`, `Leaving`). A connection is used once, so that a peer that comes back
  is another connection. `chat_exit` has two connections and two numbers. That two
  sockets are open at once the passing run does not meet; the theorems hold for any set
  of numbers.

No action has a bound in its guard besides `Terminating` and `Leaving`. All sets are finite; but for
`GatewayLifecycle`, each sensor, reading, event and connection is used once.

## Proofs

TLAPS proves, for all values of the constants that satisfy the modules'
assumptions (finite sets of sensors, readings, events; positive limits;
well-typed parameters):

- **ConnectionTableProof.** `TypeCorrect`, `CountCorrect`, `SlotsCorrect`,
  `PortsCorrect`, `CapCorrect`, and `Refinement`: `Spec => TableSpec`. All follow
  from `Invariance`. The properties are not inductive alone. `IndInv` adds
  `ServingInv` (at each `pc`, the client and number being served exist),
  `FreshInv` (a client before its push was never listed, holds no slot and is not
  in the backlog any more, so no node is pushed twice and no slot taken twice),
  `PortInv` (between the check and the push the port stays free, because only
  this thread adds) and `EntriesInv` of the limiter. The cap follows from
  `SlotsAccounted`: listed sensors are among the holders, and a count never
  passes `MaxPerIp`. Lemmas on cardinalities of sets that lose or gain members
  carry the counting steps.
  `ListWalked` justifies the data: nodes with stamps that no two share (`StampInv`)
  are a list, in which every lookup from the head has one answer. `FreedOnce` (no
  node is freed twice) follows from the refinement.
  Three theorems say how far the findings below reach. `IdsUntilDeparture`: ids are
  unique as long as no sensor has left, since `active_count` is then above all of
  them (`IdsFresh`). `CommDestroyedOnce`: `secure_comm` is destroyed a second time only
  after a failed registration. Its invariant `CommInv` says that the node whose
  registration fails is still the head of the list and carries the id being undone, so
  that `remove_connection` takes this node and no older one with the same id.
  `FoundLostToOthers`: a node the connection thread has looked up is freed before its
  use only by the timeout thread or by `terminate`.
- **SensorStorageProof.** `TypeCorrect`, `OnceCorrect`, `TotalCorrect`,
  `HandleCorrect`, and `Refinement`: `Spec => LedgerSpec`. The invariant adds
  that readings are pending, written or lost only after arriving, and what the
  storage thread may rely on about handle and status at each `spc` while no
  shutdown has begun. `StoredOnce` is inductive with the
  converse, that nothing is in one of the three places before it has arrived.
  `ListWalked` justifies the data: a set and arrival numbers
  that no two readings share (`ListInv`) are a list, and a walk has exactly one next
  node while any is ahead. `MutexReturned` and `PassesShorten` are what
  `ShutdownFinishes` rests on besides fairness: the mutex is held during a pass only,
  and each step of the storage thread, successful or not, leaves the pass fewer nodes,
  to which no other thread adds.
- **FifoLogProof.** `TypeCorrect`, `NumbersCorrect`, `RunsUntilStop`, and `Refinement`:
  `Spec => LogSpec`. The invariant is that `count` never exceeds the number of
  calls begun, and that a call that has not begun has no number. `RecordedOnce`:
  no event is twice in the file and the FIFO together. What is recorded belongs to
  calls that are past their write (`RecordInv`), and a read moves events without
  changing their sequence (`ReadKeeps`).
- **GatewayLifecycleProof.** `TypeCorrect`, `ReadyCorrect` and `HoldersCorrect`.
  `IndInv` says what each stage of `main` has found and made: up to the creation
  of the three threads only the timeout and update threads run, on an empty list
  (`StartInv`, which is why neither gets to a node or to storage before storage
  is ready); what is ready at each stage (`ReadyInv`); after the joins each of
  the five threads has ended, and the contexts go only then (`EndInv`). It is needed because
  `ReadyBeforeUse` alone does not say that `main` is past the initialisation when
  a thread enters a section. `HoldersGoOn` needs `LockInv` on top: which mutexes are
  gone at each stage of the cleanup, and that threads are cancelled only when all are
  (`GoneInv`), since a thread cancelled in its section would keep the mutex. The one
  nested lock, that of `check_temperature_status`, has a conjunct of its own: the inner
  mutex is free whenever the data thread comes for it.
- **SensorUpdatesProof.** The theorems of `ConnectionTable` with the unlocked walk:
  `WalkTypeCorrect`, `WalkInvariance`, `WalkKeepsSlots`, `WalkKeepsList`,
  `WalkKeepsNodes` and `WalkKeepsTable` (`WalkSpec => TableSpec`). A step of the walk
  writes a node's time or nothing, so each follows from what is proved of `Spec`; that
  is what the model says of the walk, and why they end where the walk derails.
  `WalkComesToAll` (`WalkMissesNone`) says more: a walk that has not stood
  on a freed node comes to every node that stays listed. Its invariant places each node that is due behind
  the cursor, in the order of the stamps, through pushes and unlinkings.
  `WalkTypeCorrect` (the walk stands on a node) needs that a lookup that
  does not fail yields a node, which is the one with the largest stamp of a set
  (`FirstExists`, in ConnectionTableProof).
- **SensorLinkProof.** `TypeCorrect`, `NoLeak` (`NoSocketLeftOpen`), `Agreement`
  (`ListedLinked`) and `ReadsCorrect` (`ReadsAnswered`). `IndInv` adds that a socket is
  only found behind the number its own thread was given (`DescriptorInv`, so that a
  thread's close never misses a socket of its own), that a client that has sent its packet is done
  (`SaidInv`), and that the connection thread admits only after a whole packet
  (`ServedInv`). `ReadsAnswered` needs `AnswerInv`: what a client has said at each
  place of its thread (`WireInv`), and that the other end of an accepted or queued
  socket is a thread still at it or is closed (`EndsInv`).
- **TemperatureMonitorProof.** `TypeCorrect`: no index or count leaves a ring;
  `Sliding`: a ring read oldest first is a window, to which a check appends one
  reading and from which a full ring drops its oldest; and `Refinement`:
  `Spec => WindowSpec`, for every ring size, set of ids and pair of thresholds. The
  first two rest on `RingInv` (the index moves only when the ring is full) and on
  arithmetic modulo the size. The third also needs that the sum the code takes over
  the cells, in their order, is that of the window, oldest first. Both are folds. The
  section on sums shows that a fold is given by its equations (`FoldsAreSums`,
  `SumsUnique`), that a sum is a part and the rest (`SumTakesOut`, `SumStep`) and that
  it does not depend on the order (`SumRenumbers`). `PassesShorten` (a
  pass loses a node with each step) is what `PassesEnd` rests on besides fairness.
- **ChatPeersProof.** `TypeCorrect`, `CountCorrect`, `ListedOnceCorrect`,
  `SocketsCorrect` and `Refinement`: `Spec => BookSpec`, for any number of
  connections, slots, descriptors and threads. `IndInv` adds that a program greets only
  before it is listed (`GreetingInv`, without which a second greeting would list it
  twice), that the connections the main thread and the accept thread are making are new
  (`DialInv`, `SpawnInv`), and that an open number is in a slot, or that of a receive
  thread still in its loop, of the main thread or of the accept thread (`HeldInv`).
  What is open when `main` returns follows at the join: `main` has waited for every
  thread the manager knows, so an open number is that of another. `ReceiversOneWay`:
  a connection has one receive thread at most, which never goes back to its loop, takes
  a step forward with each step it makes once `keep_running` is false, and the set of
  threads that main waits for does not grow while it waits.

Where an argument is by induction (the least element of a set of numbers, what a
fold comes to) the library's induction theorems cannot be used, as they take an
operator as a parameter. The proofs take the set of counterexamples instead and its
minimal element by `WFMin` (`MinimalSubset`, `Smallest`).

One definition was changed because its proof failed: `Verdict` was a CASE whose arms
overlap if the cold threshold is above the hot one, where the code asks for hot first
(`src/Final_Project/src/data/data.c:87`). It is an IF now, and the refinement holds
for any thresholds.

Only model-checked is liveness, which needs fairness and ENABLED: `HandshakesEnd`,
`WaitsEnd`, `EventuallyStored`, `ShutdownFinishes`, `PassesEnd`, `FifoDrains`,
`CleanupGetsThrough`, `LogReaderEnds`, `ReceiversEnd`. Of five of them a theorem
proves the part that is safety: what is waited for is in the hands of a thread that
can go on (`ReadsCorrect` for `HandshakesEnd`, `HoldersCorrect` for
`CleanupGetsThrough`, `MutexReturned` for `ShutdownFinishes`), or a measure shrinks (the
two `PassesShorten` for `ShutdownFinishes` and `PassesEnd`, `ReceiversOneWay` for
`ReceiversEnd`).
Only refuted, hence by TLC: the properties of the violation runs.

## Findings

1. `UniqueSensorIds`: `include/shared_data.h:103` and `README.md:88` promise unique
   ids, but the id is `active_count` (`connection.c:547`): after a removal a new
   sensor gets the id of a listed one. Removal, refresh and the rings then mix the
   two.
2. `HeldNodesAllocated`: `find_connection_by_fd` returns a node after unlocking
   and `handle_existing_connection` reads it after a blocking `recv`
   (`connection.c:746`); the update thread walks the list without the mutex
   (`connection.c:585`). Another thread may have freed the node in use, against
   `connection.c:708` and the memory check of `README.md:223`. What the walk writes
   through a pointer to a block that is something else by now has no meaning, and the
   models claim nothing after it.
3. `GoneDropped`: `README.md:91` promises "Automatic disconnection after inactivity
   (timeout)". The time the timeout looks at is set by the gateway's own update thread,
   for every node, every three seconds (`connection.c:464`), and by nothing a sensor
   does. A sensor that is gone leaves only if its hang-up, which is reported once, finds
   a node with its number (`connection.c:736`); if it does not, the sensor is listed for
   ever.
4. `TerminateReturns`: `terminate` of a live sensor waits in the second
   `SSL_shutdown` (`security.c:77`) until that sensor's process ends, with the
   mutex of the list held (`connection.c:100`), so that everybody who needs the
   list waits as well.
5. `ExitEnds` (chat): `thread_manager_join_all` holds its lock while it joins
   (`thread.c:48`), and the accept thread takes that lock after each connection
   (`socket.c:143`). A connection accepted just before an exit leaves the two waiting
   for each other, against `src/Lesson6_Chat_Application/README.md:102`.

Steps of the models that are what the code does and not what it should do, without a
run of their own:

- A timed-out sensor's TLS object and accepted socket are kept; the number that is
  closed belongs to the client's table (`connection.c:646`), so it may even name another
  sensor's socket or the listener. After a failed registration the object is destroyed
  twice (`connection.c:560`, `connection.c:563`). An address once seen keeps its place
  in the limiter's table, so a full table turns new addresses away although nobody is
  connected (`security.c:436`).
- For the reason of 4, Ctrl+C on a gateway with live sensors hangs in
  `cleanup_connection_manager` (hence the premise of `CleanupGetsThrough`; a further
  SIGINT interrupts the read), and a sensor refused for its port keeps the
  connection thread until its process ends (`connection.c:542`). `README.md:231` says
  "Use Ctrl+C for safe shutdown".
- SIGPIPE has its default action in the gateway (`main.c:56`): a close that writes to
  a sensor that is gone, or a log line after the log process has left the FIFO
  (`logger.c:34`), ends it, in the middle of the cleanup too.
- The client's SSL context is freed (`security.c:362`, called at `main.c:139`) while a
  detached client thread may be about to use it (`security.c:276`): `ClientEnds`.
- `check_temperature_status` returns for an id past the rings with its mutex locked
  (`data.c:71`); the next check waits for ever, with the mutex of the list held.
  `PassesEnd` has the ids within the rings as its premise.
- A SQLite handle that stops working stays CONNECTED and is never opened again
  (`storage.c:362`), where `README.md:211` says "Automatic reconnection logic"; a
  handle closed after a failed table creation stays in `db_handle` and a shutdown
  closes it again (`storage.c:85`, `storage.c:181`).
- `cleanup_system` frees the lists (`main.c:134`) and the logger (`logger.c:65`) before
  it cancels the threads (`main.c:138`) that use them.
- `log_count++` precedes the lock (`logger.c:27`), so two lines may carry one number;
  a log call while no reader has opened the FIFO goes through a NULL pointer
  (`logger.c:180`). A clear writes its header over what was appended since it truncated
  the file (`logger.c:246`).
- A chat peer may be closed, or removed for another's "terminate", by the thread of
  another whose number it got (`socket/socket.c:187` and `message/message.c:108` in
  `src/Lesson6_Chat_Application/src`); `terminate` may close another peer than the one
  it told (`user_interface.c:288` there); the receive timeout may be set on another
  connection, so that a thread waits for ever (`socket.c:166`), and `main` joins it; a
  thread past MAX_THREADS is not joined (`thread.c:31`); a send to a peer that has gone
  ends the process.

## Abstractions

- In `ConnectionTable` the two closes of a removal (`ssl_close`'s and that of
  `socket_fd`) are one step, as they happen under one mutex; only an accept could
  come between. `SensorLink` has the wait between the unlinking and the closes.
- A dangling pointer of the update thread reads what the block held or a node now
  allocated there, or the thread derails: the block has gone to something else, and
  nothing is said of what comes after. One lookup from the head (`find_connection`) is
  one step, though other threads may unlink the node it stands on.
- `SensorLink` does not follow the numbers at the gateway: which node a hang-up
  finds, and which sockets a foreign number closes, is any choice (`HangUpFound`,
  `ReleaseNode`, `Sweep`); `ConnectionTable` follows them. The loss of the listener
  by such a close is in `ConnectionTable` only. With three commands in a process a
  number closed under a thread at work could carry its bytes into the connection of
  a third; with the two of the instance there is none.
- A TLS handshake in `SensorLink` is the client's "finished" and the server's
  reading of it; versions with more flights add no state that anybody looks at. The
  first `SSL_shutdown` is taken to return 0, as no sensor sends a close_notify.
- Memory reuse after a free is the choice in `IdsThrough`: the block's old id or
  that of any listed node.
- Strings, formats, packets and certificates are left out; a packet arrives whole
  or not at all, a handshake succeeds or fails.
- An event is shorter than PIPE_BUF, so its write is all or nothing. A write by
  a thread that is still using the logger after `fifo_destroy` counts as failed.
- A reading and its validity bit are in one aligned word and copied together.
  Readings are whole, so the comparison of the float mean is done exactly by
  multiplying. As the update thread produces 0 to 49 and the hot threshold is
  50, "too hot" is unreachable in the program; it is in the model's `Verdict` and
  is not reached either.
- SQLite is external: a call may fail, a handle may stop working for good, a call
  on a NULL handle fails. A reading whose node cannot be allocated leaves no
  trace. After the mutex is destroyed a lock succeeds at once, and an addition
  that meets a pass may be lost.
- Sensors have no ids in `GatewayLifecycle`: its `CheckEnds` always gives the data
  mutex back, as the code does for an id that has a ring (`data.c:71`); the other case
  is in `TemperatureMonitor`.
- A client thread in `GatewayLifecycle` is a connection to be made and then one step
  with the context: the rest of it is in `SensorLink`.
- In `GatewayLifecycle` a thread asleep on a mutex when that is destroyed may
  never wake: nothing is claimed of `pthread_join`. SIGPIPE and the FIFO's contents
  are `FifoLog`'s; the failing exits of start-up are one action, `Fails`. The first
  SIGINT reaches both processes; the log process, once in `pause()`, takes another.
- In `ChatPeers` the return of a `recv` and the handling of what it returned are one
  step, as are leaving the receive loop and the `close` after it, and the check,
  `socket` and `connect` of a command; the check and the insertion are two. A `recv`
  that waits keeps the connection it was called on. Two messages may come out of one
  `recv`, of which the second is lost (`Rests`). The texts "send" and "exit", `myip`,
  `list` and `help` change nothing there; the listener has a number outside `Fd`. What
  threads that were not joined do after `main` has returned is not followed.
- In the checked instance `accept` never lacks a number, as there is one for each
  sensor; the guard is in `AcceptFails` for the proofs and smaller instances.

## Not modelled

Display and status commands, the splitting and matching of command words, address and
port validation, the contents of SSL contexts, the plain channel (no caller asks for
it) and `update_data_connection` (no caller): sequential code without shared state of
its own.
The exercises of `src/Lesson1_*` to `src/Lesson5_*`, `src/Lesson6_Socket`,
`src/Lesson7_*` and `src/Lesson8_*`: each a `main` that shows one system call;
a few with real interleavings are in the plan. Object files, binaries, databases
and certificates kept in the repository are data.

## Plan

Done since the first version: `SensorUpdates`, `SensorLink` (planned as
`SecureChannel`), the closes in `GatewayLifecycle`, and the proofs of these, of
`ChatPeers` and of `TemperatureMonitor`. Left, in this order:

1. `SensorTimeout`: the 30 s and the periods of the update thread and the sweep with a
   clock, and how long a node that the walk misses can stay.
2. `ChatMessages`: two chat processes that exchange connect and terminate, and what
   each lists in the end.
3. The producer and consumer of `src/Lesson4_Thread` and the message queues of
   `src/Lesson8_IPC_MessageQueues`.
4. A tight instance of `ConnectionTable` (three descriptors, two sensors per
   address, one address): no free number, address table full. A second instance of
   `ChatPeers` with two numbers.

Theorems to add: what `WaitsEnd` rests on besides fairness (a wait of the gateway is for
a sensor whose end is open); what `FifoDrains` and `LogReaderEnds` rest on besides fairness.
