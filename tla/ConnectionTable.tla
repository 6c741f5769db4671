--------------------------- MODULE ConnectionTable ---------------------------
(***************************************************************************)
(* The gateway's table of sensor connections                               *)
(* (Final_Project/src/connection/connection.c) with everything the code    *)
(* that touches it does to the address limiter, to the process's           *)
(* descriptor table, to the epoll set and to the TLS objects.              *)
(*                                                                         *)
(* Threads:                                                                *)
(*   - the connection thread (connection_manager), an epoll loop that      *)
(*     accepts clients and handles hang-ups, with a program counter;       *)
(*   - the timeout thread (check_timeout_connection_thread);               *)
(*   - the thread that reads commands, of which "terminate" matters here;  *)
(*   - the update thread, here only by its effect on one sensor.           *)
(*                                                                         *)
(* A section of code that holds connection_manager.mutex is one action     *)
(* (that one of them may wait inside for a sensor is SensorLink's subject);*)
(* the accesses outside the mutex (the read of active_count for a new      *)
(* sensor id, the use of a pointer after the unlock) are actions of their  *)
(* own.  The limiter's mutex is only ever taken inside such a section or   *)
(* alone, so it needs no state.                                            *)
(*                                                                         *)
(* The linked list is pushed at its head only.  It is therefore the set    *)
(* `listed' ordered by `stamp', the number of the push: the first match of *)
(* a walk is the match with the greatest stamp.                            *)
(***************************************************************************)
EXTENDS IpLimiter

CONSTANTS Conn,        \* connection attempts; also names the list node of each
          IpOf,        \* ClientInfoPacket.ip_address of each
          PortOf,      \* ClientInfoPacket.port of each
          SockFdOf,    \* ClientInfoPacket.sock_fd: a number in the CLIENT
          Fd,          \* descriptor numbers of the gateway process
          ListenFd,    \* server_fd
          LISTENER,    \* the listening socket
          NULL

ASSUME TableAssumption ==
  /\ IsFiniteSet(Conn)
  /\ IpOf \in [Conn -> Ip]
  /\ SockFdOf \in [Conn -> Int]
  /\ Fd \subseteq Nat
  /\ ListenFd \in Fd
  /\ NULL \notin Conn /\ LISTENER \notin Conn /\ NULL # LISTENER

VARIABLES
  listed,       \* nodes on the list
  stamp,        \* when a node was pushed; 0 when it never was
  activeCount,  \* connection_manager.active_count
  sensorId,     \* connection.sensor_id of each node
  idle,         \* listed nodes whose last_active_time is over 30 s old
  leaked,       \* history: slots taken for a node that was never allocated
  fds,          \* what each descriptor number refers to
  sslFd,        \* ssl_conn->fd of each connection's secure_comm
  comm,         \* life of each connection's secure_comm
  epoll,        \* registration of each accepted socket
  peer,         \* the remote end
  backlog,      \* clients waiting in the listen queue
  pc, batch, cc, cfd, id, found   \* the connection thread

tableVars == <<listed, stamp, activeCount, sensorId, idle, leaked>>
fdVars    == <<fds, sslFd, comm, epoll>>
peerVars  == <<peer, backlog>>
connVars  == <<pc, batch, cc, cfd, id, found>>
vars      == <<limiterVars, tableVars, fdVars, peerVars, connVars>>

PCs == {"wait", "dispatch", "handshake", "packet", "portcheck", "readid",
        "allow", "push", "register", "undo", "undoclose",
        "peek", "drop", "remove"}

TypeOK ==
  /\ LimiterTypeOK
  /\ listed \in SUBSET Conn
  /\ stamp \in [Conn -> Nat]
  /\ activeCount \in Nat
  /\ sensorId \in [Conn -> Nat]
  /\ idle \in SUBSET Conn
  /\ leaked \in SUBSET Conn
  /\ fds \in [Fd -> Conn \cup {NULL, LISTENER}]
  /\ sslFd \in [Conn -> Fd \cup {NULL}]
  /\ comm \in [Conn -> {"none", "live", "destroyed", "twice"}]
  /\ epoll \in [Conn -> {"out", "armed", "reported"}]
  /\ peer \in [Conn -> {"new", "up", "shut"}]
  /\ backlog \in SUBSET Conn
  /\ pc \in PCs
  /\ batch \in SUBSET Fd
  /\ cc \in Conn \cup {NULL}
  /\ cfd \in Fd \cup {NULL}
  /\ id \in Nat
  /\ found \in Conn \cup {NULL}

Init ==
  /\ LimiterInit
  /\ listed = {} /\ activeCount = 0 /\ idle = {} /\ leaked = {}
  /\ stamp = [c \in Conn |-> 0]
  /\ sensorId = [c \in Conn |-> 0]
  /\ fds = [f \in Fd |-> IF f = ListenFd THEN LISTENER ELSE NULL]
  /\ sslFd = [c \in Conn |-> NULL]
  /\ comm = [c \in Conn |-> "none"]
  /\ epoll = [c \in Conn |-> "out"]
  /\ peer = [c \in Conn |-> "new"] /\ backlog = {}
  /\ pc = "wait" /\ batch = {} /\ cc = NULL /\ cfd = NULL
  /\ id = 0 /\ found = NULL
------------------------------------------------------------------------------
(* The list. *)

Freed == {c \in Conn : stamp[c] > 0 /\ c \notin listed}

ListedFrom(ip) == {c \in listed : IpOf[c] = ip}

WithId(i) == {c \in listed : sensorId[c] = i}

\* c is the first node of S a walk from the head meets.
First(c, S) == c \in S /\ \A d \in S : stamp[d] <= stamp[c]

\* Mutant of PortTaken: the walk ends at the head.
PortTakenByHead(p) == \E c \in Conn : First(c, listed) /\ PortOf[c] = p

PortTaken(p) == \E c \in listed : PortOf[c] = p

\* Mutant of DropNodes: active_count is decremented once per sweep.
DropNodesCountsOnce(C) ==
  /\ listed' = listed \ C
  /\ idle' = idle \ C
  /\ activeCount' = activeCount - 1
  /\ GiveBack([ip \in Ip |-> Cardinality({c \in C : IpOf[c] = ip})])
  /\ UNCHANGED <<stamp, sensorId, leaked>>

\* Unlink and free the nodes C, decrementing active_count once for each.
DropNodes(C) ==
  /\ listed' = listed \ C
  /\ idle' = idle \ C
  /\ activeCount' = activeCount - Cardinality(C)
  /\ GiveBack([ip \in Ip |-> Cardinality({c \in C : IpOf[c] = ip})])
  /\ UNCHANGED <<stamp, sensorId, leaked>>

(* Descriptors. *)

\* close() of the numbers F: a socket that loses its descriptor leaves epoll.
Close(F) ==
  /\ fds' = [f \in Fd |-> IF f \in F THEN NULL ELSE fds[f]]
  /\ epoll' = [c \in Conn |-> IF \E f \in F \cap Fd : fds[f] = c
                              THEN "out" ELSE epoll[c]]

\* The effect of destroy_secure_connection on c's secure_comm itself.
CommAfterDestroy(c) == IF comm[c] = "live" THEN "destroyed" ELSE "twice"

(***************************************************************************)
(* remove_connection: the first node with this id, if there is one.  Its   *)
(* secure_comm is destroyed, which closes the accepted socket, and then    *)
(* the number the client sent is closed.                                   *)
(***************************************************************************)
RemoveById(i) ==
  \/ /\ WithId(i) = {}
     /\ UNCHANGED <<limiterVars, tableVars, fdVars>>
  \/ \E c \in Conn :
       /\ First(c, WithId(i))
       /\ DropNodes({c})
       /\ IF SockFdOf[c] >= 0
          THEN /\ Close({sslFd[c], SockFdOf[c]})
               /\ comm' = [comm EXCEPT ![c] = CommAfterDestroy(c)]
          ELSE UNCHANGED <<fds, epoll, comm>>
       /\ UNCHANGED sslFd
------------------------------------------------------------------------------
(* The clients and the clock. *)

Connect(c) ==
  /\ peer[c] = "new"
  /\ peer' = [peer EXCEPT ![c] = "up"]
  /\ backlog' = backlog \cup {c}
  /\ UNCHANGED <<limiterVars, tableVars, fdVars, connVars>>

Shut(c) ==
  /\ peer[c] = "up"
  /\ peer' = [peer EXCEPT ![c] = "shut"]
  /\ UNCHANGED <<limiterVars, tableVars, fdVars, backlog, connVars>>

\* 30 seconds pass for a node nobody refreshes.
Age(c) ==
  /\ c \in listed \ idle
  /\ idle' = idle \cup {c}
  /\ UNCHANGED <<limiterVars, listed, stamp, activeCount, sensorId, leaked,
                 fdVars, peerVars, connVars>>

\* The update thread writes a new time into node c; SensorUpdates says how it
\* gets there.
Refresh(c) ==
  /\ c \in idle
  /\ idle' = idle \ {c}
  /\ UNCHANGED <<limiterVars, listed, stamp, activeCount, sensorId, leaked,
                 fdVars, peerVars, connVars>>
------------------------------------------------------------------------------
(* The connection thread: handle_new_connection. *)

Goto(l) == pc' = l

\* The events an epoll_wait reports: a level-triggered listener, and the
\* hang-up of a registered client once (EPOLLET).
HungUp == {c \in Conn : epoll[c] = "armed" /\ peer[c] = "shut"}

EpollWait ==
  /\ pc = "wait"
  /\ batch' = {sslFd[c] : c \in HungUp}
              \cup {f \in {ListenFd} : fds[f] = LISTENER /\ backlog # {}}
  /\ batch' # {}
  /\ epoll' = [c \in Conn |-> IF c \in HungUp THEN "reported" ELSE epoll[c]]
  /\ Goto("dispatch")
  /\ UNCHANGED <<limiterVars, tableVars, fds, sslFd, comm, peerVars,
                 cc, cfd, id, found>>

BatchDone ==
  /\ pc = "dispatch" /\ batch = {}
  /\ Goto("wait")
  /\ UNCHANGED <<limiterVars, tableVars, fdVars, peerVars,
                 batch, cc, cfd, id, found>>

\* accept() returns the lowest free number.
AcceptClient ==
  /\ pc = "dispatch" /\ ListenFd \in batch
  /\ fds[ListenFd] = LISTENER
  /\ \E c \in backlog, f \in Fd :
       /\ fds[f] = NULL /\ \A g \in Fd : fds[g] = NULL => f <= g
       /\ fds' = [fds EXCEPT ![f] = c]
       /\ backlog' = backlog \ {c}
       /\ cc' = c /\ cfd' = f
  /\ batch' = batch \ {ListenFd}
  /\ Goto("handshake")
  /\ UNCHANGED <<limiterVars, tableVars, sslFd, comm, epoll, peer, id, found>>

\* The listener's number was closed, or no number is free.
AcceptFails ==
  /\ pc = "dispatch" /\ ListenFd \in batch
  /\ \/ fds[ListenFd] # LISTENER
     \/ \A f \in Fd : fds[f] # NULL
  /\ batch' = batch \ {ListenFd}
  /\ UNCHANGED <<limiterVars, tableVars, fdVars, peerVars, pc, cc, cfd, id, found>>

\* create_secure_connection; both ends must answer on the accepted socket.
HandshakeOk ==
  /\ pc = "handshake" /\ fds[cfd] = cc /\ peer[cc] = "up"
  /\ comm' = [comm EXCEPT ![cc] = "live"]
  /\ sslFd' = [sslFd EXCEPT ![cc] = cfd]
  /\ Goto("packet")
  /\ UNCHANGED <<limiterVars, tableVars, fds, epoll, peerVars,
                 batch, cc, cfd, id, found>>

HandshakeFails ==
  /\ pc = "handshake"
  /\ Close({cfd})
  /\ Goto("dispatch")
  /\ UNCHANGED <<limiterVars, tableVars, sslFd, comm, peerVars,
                 batch, cc, cfd, id, found>>

\* The early returns after the handshake: destroy_secure_connection(comm),
\* then close(client_fd), the number the first call has just closed.
Abandon ==
  /\ Close({sslFd[cc], cfd})
  /\ comm' = [comm EXCEPT ![cc] = CommAfterDestroy(cc)]
  /\ Goto("dispatch")
  /\ UNCHANGED <<limiterVars, tableVars, sslFd, peerVars,
                 batch, cc, cfd, id, found>>

PacketOk ==
  /\ pc = "packet" /\ fds[cfd] = cc
  /\ Goto("portcheck")
  /\ UNCHANGED <<limiterVars, tableVars, fdVars, peerVars,
                 batch, cc, cfd, id, found>>

PacketFails ==
  /\ pc = "packet" /\ (fds[cfd] # cc \/ peer[cc] = "shut")
  /\ Abandon

PortRefused == pc = "portcheck" /\ PortTaken(PortOf[cc]) /\ Abandon

PortFree ==
  /\ pc = "portcheck" /\ ~PortTaken(PortOf[cc])
  /\ Goto("readid")
  /\ UNCHANGED <<limiterVars, tableVars, fdVars, peerVars,
                 batch, cc, cfd, id, found>>

\* The new sensor's id is active_count, read without the mutex.
ReadId ==
  /\ pc = "readid"
  /\ id' = activeCount
  /\ Goto("allow")
  /\ UNCHANGED <<limiterVars, tableVars, fdVars, peerVars, batch, cc, cfd, found>>

\* Mutant of AdmitSlot: the limit is checked and nothing is recorded.
AdmitSlotUncounted ==
  /\ pc = "allow" /\ HasRoom(IpOf[cc])
  /\ Goto("push")
  /\ UNCHANGED <<limiterVars, tableVars, fdVars, peerVars, batch, cc, cfd, id, found>>

AdmitSlot ==
  /\ pc = "allow" /\ TakeSlot(IpOf[cc])
  /\ Goto("push")
  /\ UNCHANGED <<tableVars, fdVars, peerVars, batch, cc, cfd, id, found>>

\* add_connection returns nothing: its caller goes on as if it had added.
LimiterRefuses ==
  /\ pc = "allow" /\ ~HasRoom(IpOf[cc])
  /\ Goto("register")
  /\ UNCHANGED <<limiterVars, tableVars, fdVars, peerVars,
                 batch, cc, cfd, id, found>>

Push ==
  /\ pc = "push"
  /\ listed' = listed \cup {cc}
  /\ stamp' = [stamp EXCEPT ![cc] = Cardinality({c \in Conn : stamp[c] > 0}) + 1]
  /\ sensorId' = [sensorId EXCEPT ![cc] = id]
  /\ activeCount' = activeCount + 1
  /\ Goto("register")
  /\ UNCHANGED <<limiterVars, idle, leaked, fdVars, peerVars,
                 batch, cc, cfd, id, found>>

\* create_node fails: the slot just taken is not given back.
PushNoMemory ==
  /\ pc = "push"
  /\ leaked' = leaked \cup {cc}
  /\ Goto("register")
  /\ UNCHANGED <<limiterVars, listed, stamp, activeCount, sensorId, idle,
                 fdVars, peerVars, batch, cc, cfd, id, found>>

RegisterOk ==
  /\ pc = "register" /\ fds[cfd] = cc
  /\ epoll' = [epoll EXCEPT ![cc] = "armed"]
  /\ Goto("dispatch")
  /\ UNCHANGED <<limiterVars, tableVars, fds, sslFd, comm, peerVars,
                 batch, cc, cfd, id, found>>

\* epoll_ctl fails: the socket was closed meanwhile, or no memory.
RegisterFails ==
  /\ pc = "register"
  /\ Goto("undo")
  /\ UNCHANGED <<limiterVars, tableVars, fdVars, peerVars,
                 batch, cc, cfd, id, found>>

UndoRemove ==
  /\ pc = "undo"
  /\ RemoveById(id)
  /\ Goto("undoclose")
  /\ UNCHANGED <<peerVars, batch, cc, cfd, id, found>>

\* comm has been destroyed by remove_connection if it found the node.
UndoClose == pc = "undoclose" /\ Abandon
------------------------------------------------------------------------------
(* The connection thread: handle_existing_connection. *)

\* find_connection_by_fd compares with the CLIENT's number for its socket.
WithFd(f) == {c \in listed : SockFdOf[c] = f}

FindNone ==
  /\ pc = "dispatch"
  /\ \E f \in batch \ {ListenFd} : WithFd(f) = {} /\ batch' = batch \ {f}
  /\ UNCHANGED <<limiterVars, tableVars, fdVars, peerVars, pc, cc, cfd, id, found>>

FindNode ==
  /\ pc = "dispatch"
  /\ \E f \in batch \ {ListenFd}, c \in Conn :
       /\ First(c, WithFd(f))
       /\ batch' = batch \ {f} /\ cfd' = f /\ found' = c
  /\ Goto("peek")
  /\ UNCHANGED <<limiterVars, tableVars, fdVars, peerVars, cc, id>>

\* recv(MSG_PEEK) on a blocking socket returns once the peer is gone or the
\* number is no connected socket; clients send nothing after their packet.
PeekGone ==
  /\ pc = "peek"
  /\ fds[cfd] \in Conn => peer[fds[cfd]] = "shut"
  /\ Goto("drop")
  /\ UNCHANGED <<limiterVars, tableVars, fdVars, peerVars,
                 batch, cc, cfd, id, found>>

\* The id read through a freed node: what the block held, or what a node
\* allocated in the same block holds now.
IdsThrough(c) == {sensorId[d] : d \in IF c \in listed THEN {c} ELSE {c} \cup listed}

DropEvent ==
  /\ pc = "drop"
  /\ id' \in IdsThrough(found)
  /\ epoll' = [c \in Conn |-> IF fds[cfd] = c THEN "out" ELSE epoll[c]]
  /\ Goto("remove")
  /\ UNCHANGED <<limiterVars, tableVars, fds, sslFd, comm, peerVars,
                 batch, cc, cfd, found>>

DropRemove ==
  /\ pc = "remove"
  /\ RemoveById(id)
  /\ Goto("dispatch")
  /\ UNCHANGED <<peerVars, batch, cc, cfd, id, found>>
------------------------------------------------------------------------------
(* The timeout thread and the "terminate" command. *)

\* Mutant of TimeoutSweep: the slots of the dropped nodes are not given back.
TimeoutSweepKeepsSlots ==
  /\ idle \cap listed # {}
  /\ listed' = listed \ idle
  /\ idle' = idle \ listed
  /\ activeCount' = activeCount - Cardinality(idle \cap listed)
  /\ Close({SockFdOf[c] : c \in idle \cap listed})
  /\ UNCHANGED <<limiterVars, stamp, sensorId, leaked, sslFd, comm, peerVars,
                 connVars>>

\* check_and_cleanup_inactive_connections: one pass over the list under the
\* mutex.  It closes the number the client sent and leaves secure_comm alone.
TimeoutSweep ==
  /\ idle \cap listed # {}
  /\ DropNodes(idle \cap listed)
  /\ Close({SockFdOf[c] : c \in idle \cap listed})
  /\ UNCHANGED <<sslFd, comm, peerVars, connVars>>

\* "terminate <id>"; an id no node carries removes nothing.
Terminate(i) ==
  /\ RemoveById(i)
  /\ UNCHANGED <<peerVars, connVars>>
------------------------------------------------------------------------------
NewConnectionStep ==
  \/ AcceptClient \/ AcceptFails \/ HandshakeOk \/ HandshakeFails
  \/ PacketOk \/ PacketFails \/ PortRefused \/ PortFree \/ ReadId
  \/ AdmitSlot \/ LimiterRefuses \/ Push \/ PushNoMemory
  \/ RegisterOk \/ RegisterFails \/ UndoRemove \/ UndoClose

ExistingConnectionStep ==
  FindNone \/ FindNode \/ PeekGone \/ DropEvent \/ DropRemove

Next ==
  \/ EpollWait \/ BatchDone \/ NewConnectionStep \/ ExistingConnectionStep
  \/ TimeoutSweep
  \/ \E c \in listed : Terminate(sensorId[c])
  \/ \E c \in Conn : Connect(c) \/ Shut(c) \/ Age(c) \/ Refresh(c)

Spec == Init /\ [][Next]_vars
------------------------------------------------------------------------------
(* Properties. *)

\* The displayed number of connections is the length of the list, although
\* three threads change both.
CountMatchesList == activeCount = Cardinality(listed)

\* Every slot the limiter has given out belongs to a listed node, to the node
\* the connection thread is about to push, or to one that could not be
\* allocated: no removal path forgets its slot or returns it twice.
InFlight == {c \in {cc} : pc = "push"}

SlotHolders == listed \cup leaked \cup InFlight

SlotsAccounted ==
  \A ip \in Ip : count[ip] = Cardinality({c \in SlotHolders : IpOf[c] = ip})

\* MAX_CONNECTIONS_PER_IP bounds the listed sensors of an address, although
\* the check and the push are made under two different mutexes.
PerIpCap == \A ip \in Ip : Cardinality(ListedFrom(ip)) <= MaxPerIp

\* handle_new_connection checks the port long before it pushes the node; no
\* two listed sensors share one all the same.
PortsUnique == \A c, d \in listed : PortOf[c] = PortOf[d] => c = d

\* The table, seen from outside, is the abstract table of Admission.
Table == INSTANCE Admission WITH sessions <- listed, past <- Freed

TableSpec == Table!Spec

\* shared_data.h:103 calls sensor_id the "Unique ID per sensor".
UniqueSensorIds == \A c, d \in listed : sensorId[c] = sensorId[d] => c = d

\* connection.c:708 calls the lookup by descriptor thread-safe: the node it
\* returns is still allocated when handle_existing_connection reads it.
FoundNodeAllocated == pc = "drop" => found \notin Freed
------------------------------------------------------------------------------
(***************************************************************************)
(* The inductive invariant behind the safety properties: what the          *)
(* connection thread knows about the client it is serving at each point.   *)
(***************************************************************************)
ServingPCs == {"handshake", "packet", "portcheck", "readid", "allow", "push",
               "register", "undo", "undoclose"}

\* Not pushed yet, and nothing taken on its behalf.
Fresh(c) == stamp[c] = 0 /\ c \notin leaked

ServingInv ==
  /\ pc \in ServingPCs => cc \in Conn /\ cfd \in Fd
  /\ pc \in ServingPCs \ {"handshake"} => sslFd[cc] \in Fd
  /\ \A c \in Conn : epoll[c] # "out" => sslFd[c] \in Fd
  /\ pc \in {"peek", "drop", "remove"} => found \in Conn

FreshInv ==
  /\ pc \in {"handshake", "packet", "portcheck", "readid", "allow", "push"} =>
       Fresh(cc) /\ cc \notin backlog /\ peer[cc] # "new"
  /\ \A c \in backlog : Fresh(c) /\ peer[c] # "new"
  /\ \A c \in Conn : peer[c] = "new" => Fresh(c)
  /\ \A c \in listed : stamp[c] > 0
  /\ \A c \in leaked : stamp[c] = 0

PortInv == pc \in {"readid", "allow", "push"} => ~PortTaken(PortOf[cc])

IndInv == /\ TypeOK /\ EntriesInv /\ CountMatchesList /\ SlotsAccounted
          /\ ServingInv /\ FreshInv /\ PortInv /\ PortsUnique
==============================================================================
