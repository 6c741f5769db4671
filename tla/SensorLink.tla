----------------------------- MODULE SensorLink -----------------------------
(***************************************************************************)
(* Sensors and the gateway they connect to, over TLS on blocking sockets   *)
(* (Final_Project/src/socket, security and connection).                    *)
(*                                                                         *)
(* A sensor is a process of the same program.  Each "connect" command      *)
(* starts a detached thread (client_thread_main) that connects, shakes     *)
(* hands, sends its packet and ends; it leaves the socket open and nothing *)
(* in the process reads it again.  The gateway's connection thread serves  *)
(* one client at a time; its main thread executes "terminate"; the timeout *)
(* thread drops nodes whose time is old.  That time is not the sensor's:   *)
(* the update thread renews it for every node its walk comes to, every     *)
(* three seconds, whether the sensor lives or not.                         *)
(*                                                                         *)
(* ssl_close calls SSL_shutdown a second time when the first returns 0.    *)
(* The second call reads until the peer's close_notify, which a sensor     *)
(* never sends, or the end of its socket.  A close is therefore two steps  *)
(* here, and the second waits for the sensor.  remove_connection closes    *)
(* with connection_manager.mutex held.                                     *)
(*                                                                         *)
(* A call on a number that is closed fails at once.  A call that already   *)
(* waits when another thread closes its number goes on waiting: only the   *)
(* sensor ends it.                                                         *)
(*                                                                         *)
(* A node carries the CLIENT's number of its socket, so what the gateway   *)
(* closes or finds by that number may be any accepted socket, any node or  *)
(* nothing: ConnectionTable follows the numbers, this module leaves the    *)
(* choice open.                                                            *)
(***************************************************************************)
EXTENDS Integers, FiniteSets

CONSTANTS Conn,     \* "connect" commands, with the connection each makes
          Proc,     \* sensor processes
          ProcOf,   \* the process that gives the command
          PortOf,   \* running_port of each process
          Fd,       \* descriptor numbers of a process
          NONE

ASSUME LinkAssumption ==
  /\ ProcOf \in [Conn -> Proc]
  /\ Fd \subseteq Nat
  /\ NONE \notin Conn /\ NONE \notin Fd

VARIABLES
  alive,    \* processes that have not ended
  fds,      \* which connection each number of a process stands for
  cpc,      \* the client threads
  sock,     \* sock_fd of each client thread
  said,     \* the last message a client has put on the wire
  up,       \* is the gateway running?
  queue,    \* connections waiting to be accepted
  held,     \* accepted sockets the gateway has open
  armed,    \* sockets in the epoll set whose hang-up was not reported yet
  listed,   \* connections with a node on the list
  idle,     \* those whose node has not been refreshed for 30 s
  upc,      \* the update thread: "asleep", or "walk" when it is to walk the list
  gpc, gc, gv,  \* connection thread: its place, the client served, the node removed
  mpc, mv       \* main thread: its place, the node removed

clientVars  == <<alive, fds, cpc, sock, said>>
tableVars   == <<listed, idle, upc>>
serverVars  == <<gpc, gc, gv>>
mainVars    == <<mpc, mv>>
socketVars  == <<queue, held, armed>>
vars == <<clientVars, up, socketVars, tableVars, serverVars, mainVars>>

TypeOK ==
  /\ alive \in SUBSET Proc
  /\ fds \in [Proc -> [Fd -> Conn \cup {NONE}]]
  /\ cpc \in [Conn -> {"none", "create", "dial", "shake", "send", "close",
                       "linked", "failed"}]
  /\ sock \in [Conn -> Fd \cup {NONE}]
  /\ said \in [Conn -> {"nothing", "finished", "packet"}]
  /\ up \in BOOLEAN
  /\ queue \in SUBSET Conn /\ held \in SUBSET Conn /\ armed \in SUBSET held
  /\ listed \in SUBSET Conn /\ idle \in SUBSET listed /\ upc \in {"asleep", "walk"}
  /\ gpc \in {"wait", "shake", "packet", "check", "admit", "register", "undo",
              "undoing", "close", "remove", "removing"}
  /\ gc \in Conn \cup {NONE} /\ gv \in Conn \cup {NONE}
  /\ mpc \in {"input", "removing"}
  /\ mv \in Conn \cup {NONE}

Init ==
  /\ alive = Proc
  /\ fds = [p \in Proc |-> [f \in Fd |-> NONE]]
  /\ cpc = [c \in Conn |-> "none"]
  /\ sock = [c \in Conn |-> NONE]
  /\ said = [c \in Conn |-> "nothing"]
  /\ up = TRUE
  /\ queue = {} /\ held = {} /\ armed = {} /\ listed = {} /\ idle = {} /\ upc = "asleep"
  /\ gpc = "wait" /\ gc = NONE /\ gv = NONE
  /\ mpc = "input" /\ mv = NONE
------------------------------------------------------------------------------
(* The sensors. *)

Running(c) == ProcOf[c] \in alive

\* The descriptors of c's process.
Table(c) == fds[ProcOf[c]]

\* Does c's number still stand for c's socket?
Own(c) == sock[c] \in Fd /\ Table(c)[sock[c]] = c

\* No descriptor of the sensor is left: the gateway reads the end of the
\* stream or a reset.
PeerGone(c) == \A f \in Fd : Table(c)[f] # c

\* The gateway no longer has a number for the other end.
Dropped(c) == c \notin queue \cup held

Goto(c, l) == cpc' = [cpc EXCEPT ![c] = l]

\* close(sock_fd), whatever the number stands for by now.
CloseNumber(c) == fds' = [fds EXCEPT ![ProcOf[c]][sock[c]] = NONE]

\* "connect <ip> <port>" with valid parameters starts the thread.
ConnectCommand(c) ==
  /\ Running(c) /\ cpc[c] = "none"
  /\ Goto(c, "create")
  /\ UNCHANGED <<alive, fds, sock, said, up, socketVars, tableVars, serverVars, mainVars>>

\* socket() returns the lowest free number.
CreateSocket(c) ==
  /\ Running(c) /\ cpc[c] = "create"
  /\ \E f \in Fd :
       /\ Table(c)[f] = NONE /\ \A g \in Fd : Table(c)[g] = NONE => f <= g
       /\ fds' = [fds EXCEPT ![ProcOf[c]][f] = c]
       /\ sock' = [sock EXCEPT ![c] = f]
  /\ Goto(c, "dial")
  /\ UNCHANGED <<alive, said, up, socketVars, tableVars, serverVars, mainVars>>

CreateFails(c) ==
  /\ Running(c) /\ cpc[c] = "create"
  /\ Goto(c, "failed")
  /\ UNCHANGED <<alive, fds, sock, said, up, socketVars, tableVars, serverVars, mainVars>>

\* connect() succeeds as soon as the connection is in the listen queue.
Dial(c) ==
  /\ Running(c) /\ cpc[c] = "dial" /\ Own(c) /\ up
  /\ queue' = queue \cup {c}
  /\ Goto(c, "shake")
  /\ UNCHANGED <<alive, fds, sock, said, up, held, armed, tableVars, serverVars, mainVars>>

\* Mutant of GiveUp: the early return forgets its socket.
GiveUpLeaves(c) ==
  /\ Goto(c, "failed")
  /\ UNCHANGED <<alive, fds, sock, said, up, socketVars, tableVars, serverVars, mainVars>>

\* An early return before the packet: close(sock_fd).
GiveUp(c) ==
  /\ CloseNumber(c)
  /\ Goto(c, "failed")
  /\ UNCHANGED <<alive, sock, said, up, socketVars, tableVars, serverVars, mainVars>>

\* connect or getsockname fails.
DialFails(c) == Running(c) /\ cpc[c] = "dial" /\ GiveUp(c)

\* The gateway is in SSL_accept for c, and c has been sent its flight.
Answered(c) == up /\ gpc = "shake" /\ gc = c

ClientShakes(c) ==
  /\ Running(c) /\ cpc[c] = "shake" /\ Own(c) /\ Answered(c)
  /\ said' = [said EXCEPT ![c] = "finished"]
  /\ Goto(c, "send")
  /\ UNCHANGED <<alive, fds, sock, up, socketVars, tableVars, serverVars, mainVars>>

\* The certificate is refused, or an end of the connection is closed.
ClientShakeFails(c) ==
  /\ Running(c) /\ cpc[c] = "shake"
  /\ Answered(c) \/ Dropped(c) \/ ~Own(c)
  /\ GiveUp(c)

\* The packet goes into the kernel's buffer even if the gateway has closed.
Send(c) ==
  /\ Running(c) /\ cpc[c] = "send" /\ Own(c)
  /\ said' = [said EXCEPT ![c] = "packet"]
  /\ Goto(c, "linked")
  /\ UNCHANGED <<alive, fds, sock, up, socketVars, tableVars, serverVars, mainVars>>

\* destroy_secure_connection closes the number ...
SendFails(c) ==
  /\ Running(c) /\ cpc[c] = "send"
  /\ Dropped(c) \/ ~Own(c)
  /\ CloseNumber(c)
  /\ Goto(c, "close")
  /\ UNCHANGED <<alive, sock, said, up, socketVars, tableVars, serverVars, mainVars>>

\* ... and the thread closes it again, when it may be another thread's.
CloseAgain(c) == Running(c) /\ cpc[c] = "close" /\ GiveUp(c)

\* The process leaves, in whatever way; the kernel closes its sockets.
ProcessEnds(p) ==
  /\ p \in alive
  /\ alive' = alive \ {p}
  /\ fds' = [fds EXCEPT ![p] = [f \in Fd |-> NONE]]
  /\ UNCHANGED <<cpc, sock, said, up, socketVars, tableVars, serverVars, mainVars>>

ClientThread(c) ==
  \/ CreateSocket(c) \/ CreateFails(c) \/ Dial(c) \/ DialFails(c)
  \/ ClientShakes(c) \/ ClientShakeFails(c) \/ Send(c) \/ SendFails(c)
  \/ CloseAgain(c)
------------------------------------------------------------------------------
(* The gateway: what its threads share. *)

\* A thread inside ssl_close of a node holds connection_manager.mutex.
MutexFree == mpc # "removing" /\ gpc \notin {"undoing", "removing"}

\* A call on c's socket may end without an answer: the sensor's end is closed,
\* or c's number was closed before the call began.
Ends(c) == PeerGone(c) \/ c \notin held

\* The sockets F leave the process and the epoll set.
Release(F) == held' = held \ F /\ armed' = armed \ F

\* Mutant of Unlink: the time of the node is still looked at.
UnlinkKeepsTime(v) == listed' = listed \ {v} /\ UNCHANGED <<idle, upc>>

\* Unlink the node of v; its close is still to come.
Unlink(v) == listed' = listed \ {v} /\ idle' = idle \ {v} /\ UNCHANGED upc

\* destroy_secure_connection and close(socket_fd) for a node: the second
\* number, and the first if v's was closed before, may stand for others.
ReleaseNode(v) == \E F \in SUBSET held : Release({v} \cup F)
------------------------------------------------------------------------------
(* The connection thread: handle_new_connection. *)

Serve(l) == gpc' = l /\ UNCHANGED <<gc, gv>>

\* Back in epoll_wait.
Done == gpc' = "wait" /\ gc' = NONE /\ gv' = NONE

Accept(c) ==
  /\ up /\ gpc = "wait" /\ c \in queue
  /\ queue' = queue \ {c} /\ held' = held \cup {c}
  /\ gpc' = "shake" /\ gc' = c /\ UNCHANGED gv
  /\ UNCHANGED <<clientVars, up, armed, tableVars, mainVars>>

\* No memory for the secure connection: the client is closed at once.
AcceptDrops(c) ==
  /\ up /\ gpc = "wait" /\ c \in queue
  /\ queue' = queue \ {c}
  /\ UNCHANGED <<clientVars, up, held, armed, tableVars, serverVars, mainVars>>

ServerShakes ==
  /\ up /\ gpc = "shake" /\ gc \in held /\ said[gc] # "nothing"
  /\ Serve("packet")
  /\ UNCHANGED <<clientVars, up, socketVars, tableVars, mainVars>>

\* Mutant of ServerShakeFails: the end of the stream is not taken for an error.
ServerShakeWaits ==
  /\ up /\ gpc = "shake" /\ gc \notin held
  /\ Release({gc})
  /\ Done
  /\ UNCHANGED <<clientVars, up, queue, tableVars, mainVars>>

ServerShakeFails ==
  /\ up /\ gpc = "shake" /\ Ends(gc)
  /\ Release({gc})
  /\ Done
  /\ UNCHANGED <<clientVars, up, queue, tableVars, mainVars>>

RecvPacket ==
  /\ up /\ gpc = "packet" /\ gc \in held /\ said[gc] = "packet"
  /\ Serve("check")
  /\ UNCHANGED <<clientVars, up, socketVars, tableVars, mainVars>>

\* Mutant of RecvFails: the result of recv_all is ignored.
RecvIgnored ==
  /\ up /\ gpc = "packet" /\ Ends(gc)
  /\ Serve("check")
  /\ UNCHANGED <<clientVars, up, socketVars, tableVars, mainVars>>

RecvFails ==
  /\ up /\ gpc = "packet" /\ Ends(gc)
  /\ Serve("close")
  /\ UNCHANGED <<clientVars, up, socketVars, tableVars, mainVars>>

PortTaken(c) == \E d \in listed : PortOf[ProcOf[d]] = PortOf[ProcOf[c]]

CheckPort ==
  /\ up /\ gpc = "check" /\ MutexFree
  /\ Serve(IF PortTaken(gc) THEN "close" ELSE "admit")
  /\ UNCHANGED <<clientVars, up, socketVars, tableVars, mainVars>>

Admit ==
  /\ up /\ gpc = "admit" /\ MutexFree
  /\ listed' = listed \cup {gc}
  /\ Serve("register")
  /\ UNCHANGED <<clientVars, up, socketVars, idle, upc, mainVars>>

\* The limiter refuses, or there is no memory for the node: the client is
\* registered all the same.
NotAdmitted ==
  /\ up /\ gpc = "admit"
  /\ Serve("register")
  /\ UNCHANGED <<clientVars, up, socketVars, tableVars, mainVars>>

Register ==
  /\ up /\ gpc = "register" /\ gc \in held
  /\ armed' = armed \cup {gc}
  /\ Done
  /\ UNCHANGED <<clientVars, up, queue, held, tableVars, mainVars>>

RegisterFails ==
  /\ up /\ gpc = "register"
  /\ Serve("undo")
  /\ UNCHANGED <<clientVars, up, socketVars, tableVars, mainVars>>

\* Mutant of CloseEnds: SSL_shutdown is repeated until the sensor answers.
CloseInsists ==
  /\ up /\ gpc = "close" /\ gc \notin held
  /\ Release({gc})
  /\ Done
  /\ UNCHANGED <<clientVars, up, queue, tableVars, mainVars>>

\* The early returns with a TLS object, and the second destruction after a
\* failed registration: no mutex is held.
CloseEnds ==
  /\ up /\ gpc = "close" /\ Ends(gc)
  /\ Release({gc})
  /\ Done
  /\ UNCHANGED <<clientVars, up, queue, tableVars, mainVars>>
------------------------------------------------------------------------------
(* Hang-ups, removals and the timeout. *)

\* No node has this number.
HangUpIgnored(c) ==
  /\ up /\ gpc = "wait" /\ MutexFree
  /\ c \in armed /\ PeerGone(c)
  /\ armed' = armed \ {c}
  /\ UNCHANGED <<clientVars, up, queue, held, tableVars, serverVars, mainVars>>

HangUpFound(c) ==
  /\ up /\ gpc = "wait" /\ MutexFree
  /\ c \in armed /\ PeerGone(c) /\ listed # {}
  /\ armed' = armed \ {c}
  /\ Serve("remove")
  /\ UNCHANGED <<clientVars, up, queue, held, tableVars, mainVars>>

\* remove_connection by the id of the node found, or of the node just added.
RemoveBegins(v) ==
  /\ up /\ gpc \in {"undo", "remove"} /\ MutexFree /\ v \in listed
  /\ Unlink(v)
  /\ gv' = v
  /\ gpc' = IF gpc = "undo" THEN "undoing" ELSE "removing"
  /\ UNCHANGED <<clientVars, up, socketVars, gc, mainVars>>

\* No node has that id any more.
RemoveFindsNone ==
  /\ up /\ gpc \in {"undo", "remove"} /\ MutexFree
  /\ Serve(IF gpc = "undo" THEN "close" ELSE "wait")
  /\ UNCHANGED <<clientVars, up, socketVars, tableVars, mainVars>>

RemoveEnds ==
  /\ up /\ gpc \in {"undoing", "removing"} /\ Ends(gv)
  /\ ReleaseNode(gv)
  /\ gpc' = (IF gpc = "undoing" THEN "close" ELSE "wait")
  /\ gv' = NONE /\ UNCHANGED gc
  /\ UNCHANGED <<clientVars, up, queue, tableVars, mainVars>>

\* "terminate <id>" on the main thread.
TerminateBegins(v) ==
  /\ up /\ mpc = "input" /\ MutexFree /\ v \in listed
  /\ Unlink(v)
  /\ mpc' = "removing" /\ mv' = v
  /\ UNCHANGED <<clientVars, up, socketVars, serverVars>>

TerminateEnds ==
  /\ up /\ mpc = "removing" /\ Ends(mv)
  /\ ReleaseNode(mv)
  /\ mpc' = "input" /\ mv' = NONE
  /\ UNCHANGED <<clientVars, up, queue, tableVars, serverVars>>

\* check_and_cleanup_inactive_connections makes no TLS close.
Sweep ==
  /\ up /\ MutexFree /\ idle # {}
  /\ listed' = listed \ idle /\ idle' = {}
  /\ \E F \in SUBSET held : Release(F)
  /\ UNCHANGED <<clientVars, up, queue, upc, serverVars, mainVars>>

\* The update thread sleeps for three seconds between its walks.
Wakes ==
  /\ up /\ upc = "asleep"
  /\ upc' = "walk"
  /\ UNCHANGED <<clientVars, up, socketVars, listed, idle, serverVars, mainVars>>

\* The walk renews the time of every node it comes to, without the mutex and
\* without a word from a sensor.  One it has missed for 30 seconds is idle:
\* behind another node with its id, or beyond a freed one (SensorUpdates).
UpdateWalk ==
  /\ up /\ upc = "walk"
  /\ upc' = "asleep"
  /\ \E missed \in SUBSET listed : idle' = missed
  /\ UNCHANGED <<clientVars, up, socketVars, listed, serverVars, mainVars>>

\* SIGINT, an error that exits, or SIGPIPE when a close writes to a sensor
\* that is gone; its threads end with the process.
GatewayEnds ==
  /\ up
  /\ up' = FALSE
  /\ queue' = {} /\ held' = {} /\ armed' = {} /\ listed' = {} /\ idle' = {}
  /\ upc' = "asleep" /\ Done /\ mpc' = "input" /\ mv' = NONE
  /\ UNCHANGED clientVars
------------------------------------------------------------------------------
ReadClient == ServerShakes \/ ServerShakeFails \/ RecvPacket \/ RecvFails

ConnectionThread ==
  \/ ReadClient \/ CheckPort \/ Admit \/ NotAdmitted \/ Register \/ RegisterFails
  \/ CloseEnds \/ RemoveFindsNone \/ RemoveEnds
  \/ \E c \in Conn : \/ Accept(c) \/ AcceptDrops(c)
                     \/ HangUpIgnored(c) \/ HangUpFound(c) \/ RemoveBegins(c)

Next ==
  \/ \E c \in Conn : ConnectCommand(c) \/ ClientThread(c) \/ TerminateBegins(c)
  \/ \E p \in Proc : ProcessEnds(p)
  \/ ConnectionThread \/ TerminateEnds \/ Sweep \/ Wakes \/ UpdateWalk \/ GatewayEnds

Spec == Init /\ [][Next]_vars

\* What the connection thread reads of its client is there.
Arrived == \/ gpc = "shake" /\ said[gc] # "nothing"
           \/ gpc = "packet" /\ said[gc] = "packet"

\* The connection thread is in a call that waits for a sensor, unless the
\* number was closed before the call.
Blocked ==
  \/ gpc \in {"shake", "packet"} /\ ~Arrived /\ ~PeerGone(gc)
  \/ gpc = "close" /\ ~PeerGone(gc)
  \/ gpc \in {"undoing", "removing"} /\ ~PeerGone(gv)

\* A thread that can go on does, and gets a mutex that is free again and again;
\* nothing is assumed of a call that only the sensor may end.
FairSpec ==
  /\ Spec
  /\ \A c \in Conn : WF_vars(ClientThread(c))
  /\ SF_vars(~Blocked /\ ConnectionThread)
  /\ WF_vars(TerminateEnds /\ PeerGone(mv))
  /\ SF_vars(Sweep) /\ WF_vars(Wakes) /\ WF_vars(UpdateWalk)
------------------------------------------------------------------------------
(* Properties. *)

\* Whatever step of client_thread_main fails, and although one path closes
\* its number twice, a socket still open in a sensor belongs to a thread at
\* work on it or to one that has sent its packet.
NoSocketLeftOpen ==
  \A p \in Proc, f \in Fd :
    fds[p][f] # NONE => cpc[fds[p][f]] \in {"dial", "shake", "send", "linked"}

\* The two ends agree: a sensor on the gateway's list is one whose thread
\* ended in the belief that it is connected, not one that gave up.
ListedLinked == \A c \in listed : cpc[c] = "linked"

\* What the connection thread waits for, in the handshake and for the packet, is
\* there, or its client is about to send it, or the sensor's end is closed: a
\* client thread that has given up, or whose process died, has closed its
\* socket.  And the client waits for nothing else: the two ends never wait for
\* each other, even when another thread has closed the gateway's number.
ReadsAnswered ==
  up /\ gpc \in {"shake", "packet"} =>
    \/ Arrived \/ PeerGone(gc)
    \/ Running(gc) /\ cpc[gc] = (IF gpc = "shake" THEN "shake" ELSE "send")

\* The thread that serves every event reads its clients with blocking calls
\* (connection.c:519 and :528).  None of this program's clients keeps it
\* there, whether it goes on, fails or dies.
HandshakesEnd == gpc \in {"shake", "packet"} ~> (gpc \notin {"shake", "packet"} \/ ~up)

\* Once no sensor is left every wait in the gateway ends, those with the list's
\* mutex held included: what is in the listen queue is served and turned away,
\* every hang-up is taken from the epoll set, and both threads come back.
WaitsEnd ==
  alive = {} ~>
    \/ ~up
    \/ gpc = "wait" /\ mpc = "input" /\ queue = {} /\ armed = {}

\* README.md:91 promises "Automatic disconnection after inactivity (timeout)":
\* a sensor whose end is closed leaves the list, as long as the connection
\* thread and the mutex are not kept for ever by another sensor.
GoneDropped ==
  []<>(MutexFree /\ ~Blocked) =>
    \A c \in Conn : (c \in listed /\ PeerGone(c)) ~> (c \notin listed \/ ~up)

\* user_interface.c:236 says of "terminate" that it "removes the sensor
\* connection with the specified sensor ID and logs the termination": it
\* comes to an end.
TerminateReturns == mpc = "removing" ~> (mpc = "input" \/ ~up)
------------------------------------------------------------------------------
(***************************************************************************)
(* The inductive invariant behind the safety properties.                   *)
(***************************************************************************)

\* A socket is only ever found behind the number its thread was given.
DescriptorInv ==
  \A p \in Proc, f \in Fd, c \in Conn : fds[p][f] = c => p = ProcOf[c] /\ f = sock[c]

\* A client that has sent its packet is done.
SaidInv == \A c \in Conn : said[c] = "packet" => cpc[c] = "linked"

\* What the connection thread knows about the client it serves.
ServedInv ==
  /\ gpc \notin {"wait", "remove", "removing"} => gc \in Conn
  /\ gpc \in {"check", "admit"} => said[gc] = "packet"

IndInv == /\ TypeOK /\ DescriptorInv /\ NoSocketLeftOpen
          /\ SaidInv /\ ServedInv /\ ListedLinked

\* What a client has said, by where its thread is.
WireInv ==
  /\ \A c \in Conn : /\ cpc[c] \in {"none", "create", "dial", "shake"} => said[c] = "nothing"
                     /\ cpc[c] = "send" => said[c] = "finished"
                     /\ cpc[c] = "linked" => said[c] = "packet"
  /\ gpc = "packet" => said[gc] # "nothing"

\* The client whose handshake or packet the connection thread reads, whether or
\* not its number is still open.
Served == {c \in {gc} : gpc \in {"shake", "packet"}}

\* A socket the gateway has, reads or is about to accept belongs to a thread
\* that is still at it, or its sensor's end is closed.
EndsInv ==
  /\ \A c \in Conn : ~Running(c) => PeerGone(c)
  /\ \A c \in queue \cup held \cup Served :
       /\ cpc[c] \notin {"none", "create", "dial"}
       /\ cpc[c] \in {"close", "failed"} => PeerGone(c)

AnswerInv == WireInv /\ EndsInv
==============================================================================
