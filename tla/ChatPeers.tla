------------------------------ MODULE ChatPeers ------------------------------
(***************************************************************************)
(* One process of the chat program of Lesson6_Chat_Application: the table  *)
(* of peers, the main thread with its commands, the accept thread, and a   *)
(* receive thread for each connection, which all open and close            *)
(* descriptors of one table.  The other ends of the connections are        *)
(* processes of the same program; here they are the environment.           *)
(*                                                                         *)
(* A received text that changes nothing here ("send", "exit" and unknown   *)
(* ones, which are only printed) is left out.                              *)
(***************************************************************************)
EXTENDS Integers, Sequences, FiniteSets

CONSTANTS
  Inbound,   \* connections to come that other programs make
  Outbound,  \* and those that execute_connect makes
  AddrOf,    \* address and port of the program at the other end
  Fd,        \* descriptor numbers besides the standard ones and the listener
  Terminating,  \* those whose other end may send "terminate"
  Leaving,   \* and those whose other end may leave of its own accord
  MaxPeers,  \* MAX_PEERS
  MaxThreads,  \* MAX_THREADS
  NONE

Conn == Inbound \cup Outbound

ASSUME ChatAssumption ==
  /\ IsFiniteSet(Conn) /\ Inbound \cap Outbound = {} /\ NONE \notin Conn
  /\ Terminating \subseteq Conn /\ Leaving \subseteq Conn
  /\ Fd \subseteq Nat /\ IsFiniteSet(Fd) /\ NONE \notin Fd
  /\ MaxPeers \in Nat \ {0} /\ MaxThreads \in Nat \ {0}

VARIABLES
  table,    \* the slots of peer_manager; one that is not active is NoPeer
  count,    \* connection_count
  fds,      \* the connection each descriptor is open on
  stop,     \* keep_running is false
  mpc,      \* where the main thread is
  mconn,    \* the connection that execute_connect is making
  marg,     \* its sockfd, or the id given to execute_terminate
  apc,      \* where the accept thread is
  aconn,    \* the connection it has accepted
  afd,      \* the descriptor of that connection
  rpc,      \* where the receive thread started for a connection is
  sock,     \* the sockfd of that thread
  on,       \* the connection that its call of recv waits on
  timed,    \* connections with a receive timeout
  managed,  \* the threads that the thread manager knows
  backlog,  \* connections that accept has not returned yet
  remote,   \* the other end of each connection
  inbox     \* messages sent by it and not received yet

tableVars  == <<table, count>>
mainVars   == <<mpc, mconn, marg>>
acceptVars == <<apc, aconn, afd>>
recvVars   == <<rpc, sock, on>>
netVars    == <<fds, remote, inbox, timed>>
vars == <<tableVars, netVars, stop, mainVars, acceptVars, recvVars, managed, backlog>>

Slot == 0 .. MaxPeers - 1

NoPeer == [id |-> 0, fd |-> NONE, conn |-> NONE]

NoPeers == [i \in Slot |-> NoPeer]

\* A receive thread in a call of recv, and one that has not left its loop.  A
\* call that has no timeout is in "block".
Calling == {"recv", "block"}
InLoop  == {"start", "loop"} \cup Calling

TypeOK ==
  /\ table \in [Slot -> [id : Slot, fd : Fd \cup {NONE}, conn : Conn \cup {NONE}]]
  /\ count \in 0 .. MaxPeers
  /\ fds \in [Fd -> Conn \cup {NONE}]
  /\ stop \in BOOLEAN
  /\ mpc \in {"prompt", "add", "greet", "remove", "cleanup", "closeAll",
              "joining", "returned", "killed"}
  /\ mconn \in Conn \cup {NONE}
  /\ marg \in Fd \cup Slot \cup {NONE}
  /\ apc \in {"accept", "spawn", "unlist", "register", "end"}
  /\ aconn \in Conn \cup {NONE}
  /\ afd \in Fd \cup {NONE}
  /\ rpc \in [Conn -> {"none", "unlist", "end"} \cup InLoop]
  /\ sock \in [Conn -> Fd \cup {NONE}]
  /\ on \in [Conn -> Conn \cup {NONE}]
  /\ timed \in SUBSET Conn
  /\ managed \in SUBSET (Conn \cup {"accept"})
  /\ backlog \in SUBSET Conn
  /\ remote \in [Conn -> {"none", "up", "shut", "over"}]
  /\ inbox \in [Conn -> {<<>>, <<"connect">>, <<"terminate">>, <<"connect", "terminate">>}]

\* server_start may fail: the program then goes on without the accept thread.
Init ==
  /\ table = NoPeers /\ count = 0
  /\ fds = [f \in Fd |-> NONE]
  /\ stop = FALSE
  /\ mpc = "prompt" /\ mconn = NONE /\ marg = NONE
  /\ \/ apc = "accept" /\ managed = {"accept"}
     \/ apc = "end" /\ managed = {}
  /\ aconn = NONE /\ afd = NONE
  /\ rpc = [c \in Conn |-> "none"] /\ sock = [c \in Conn |-> NONE]
  /\ on = [c \in Conn |-> NONE] /\ timed = {}
  /\ backlog = {}
  /\ remote = [c \in Conn |-> "none"] /\ inbox = [c \in Conn |-> <<>>]
------------------------------------------------------------------------------
(* Descriptors and the table of peers. *)

Running == mpc \notin {"returned", "killed"}

First(S) == CHOOSE x \in S : \A y \in S : x <= y

FreeFds == {f \in Fd : fds[f] = NONE}

\* The connections open on a number or waited for by a call.
Held == {fds[f] : f \in Fd} \cup {on[c] : c \in Conn}

\* A connection that was held and is no more is over, and what it still holds
\* is lost with its timeout; q is what the step has left of the messages.
Settle(q) ==
  LET over == Held \ Held'
  IN  /\ remote' = [c \in Conn |-> IF c \in over THEN "over" ELSE remote[c]]
      /\ inbox' = [c \in Conn |-> IF c \in over THEN <<>> ELSE q[c]]
      /\ timed' = timed \ over

Without(F) == [f \in Fd |-> IF f \in F THEN NONE ELSE fds[f]]

\* close frees the number, and does nothing if it is not open.  A call that
\* waits on the connection keeps it, and goes on waiting.
Close(F) == fds' = Without(F) /\ UNCHANGED on /\ Settle(inbox)

Active == {i \in Slot : table[i] # NoPeer}

Listed == {table[i].conn : i \in Active}

HasRoom == count < MaxPeers

\* Mutant of AddPeer: the first slot is taken whether it is active or not.
AddPeerAtHead(c, f) ==
  IF HasRoom
  THEN /\ table' = [table EXCEPT ![0] = [id |-> count, fd |-> f, conn |-> c]]
       /\ count' = count + 1
  ELSE UNCHANGED tableVars

AddPeer(c, f) ==
  IF HasRoom
  THEN /\ table' = [table EXCEPT ![First(Slot \ Active)] =
                      [id |-> count, fd |-> f, conn |-> c]]
       /\ count' = count + 1
  ELSE UNCHANGED tableVars

HasSocket(f) == {i \in Active : table[i].fd = f}

\* Mutant of RemoveBySocket: the count goes down although nothing was found.
RemoveBySocketCounts(f) ==
  /\ table' = [i \in Slot |-> IF HasSocket(f) # {} /\ i = First(HasSocket(f)) THEN NoPeer
                              ELSE table[i]]
  /\ count' = count - 1

\* The first slot with the socket is left empty and the others stay where they
\* are.  The socket is closed if there is such a slot.
RemoveBySocket(f) ==
  IF HasSocket(f) = {} THEN UNCHANGED tableVars
  ELSE /\ table' = [table EXCEPT ![First(HasSocket(f))] = NoPeer]
       /\ count' = count - 1

CloseIf(closed, f) == IF closed THEN Close({f}) ELSE UNCHANGED netVars

Moved(j) == IF j + 1 \in Active THEN [table[j + 1] EXCEPT !.id = j] ELSE NoPeer

\* Mutant of RemoveById: the last slot is not cleared after the move.
RemoveByIdKeepsLast(id) ==
  LET found == {i \in Active : table[i].id = id}
      at    == First(found)
  IN  IF found = {} THEN UNCHANGED <<tableVars, netVars>>
      ELSE /\ Close({table[at].fd})
           /\ table' = [j \in Slot |->
                          IF at <= j /\ j < MaxPeers - 1 THEN Moved(j) ELSE table[j]]
           /\ count' = count - 1

\* The first slot with that id goes; those behind it, active or not, move up
\* and are renumbered by their place.
RemoveById(id) ==
  LET found == {i \in Active : table[i].id = id}
      at    == First(found)
  IN  IF found = {} THEN UNCHANGED <<tableVars, netVars>>
      ELSE /\ Close({table[at].fd})
           /\ table' = [j \in Slot |->
                          IF j < at THEN table[j]
                          ELSE IF j < MaxPeers - 1 THEN Moved(j)
                          ELSE NoPeer]
           /\ count' = count - 1

\* Mutant of CloseAllPeers: connection_count is not reset.
CloseAllPeersCounted ==
  /\ Close({table[i].fd : i \in Active})
  /\ table' = NoPeers
  /\ UNCHANGED count

CloseAllPeers ==
  /\ Close({table[i].fd : i \in Active})
  /\ table' = NoPeers
  /\ count' = 0
------------------------------------------------------------------------------
(* The other ends. *)

Listening == apc # "end" /\ Running /\ mpc \notin {"closeAll", "joining"}

\* A program whose own list is full does not greet.
RemoteConnects(c) ==
  /\ Listening /\ remote[c] = "none"
  /\ remote' = [remote EXCEPT ![c] = "up"]
  /\ \E m \in {<<>>, <<"connect">>} : inbox' = [inbox EXCEPT ![c] = m]
  /\ backlog' = backlog \cup {c}
  /\ UNCHANGED <<tableVars, fds, timed, stop, mainVars, acceptVars, recvVars, managed>>

\* "terminate" is sent to the peer in a slot, and the peer that has the slot's
\* number is then closed, which need not be the same one.
RemoteTerminates(c) ==
  /\ Running /\ remote[c] = "up" /\ inbox[c] \in {<<>>, <<"connect">>}
  /\ inbox' = [inbox EXCEPT ![c] = Append(@, "terminate")]
  /\ UNCHANGED <<tableVars, fds, remote, timed, stop, mainVars, acceptVars, recvVars,
                 managed, backlog>>

\* Closed by a command, refused for lack of room, exited or killed.
RemoteShuts(c) ==
  /\ Running /\ remote[c] = "up"
  /\ remote' = [remote EXCEPT ![c] = "shut"]
  /\ UNCHANGED <<tableVars, fds, inbox, timed, stop, mainVars, acceptVars, recvVars,
                 managed, backlog>>
------------------------------------------------------------------------------
(* The main thread: run_command_loop.  A command that has been read is     *)
(* executed although keep_running may have become false meanwhile.         *)

NextCommand ==
  /\ mpc' = IF stop THEN "cleanup" ELSE "prompt"
  /\ mconn' = NONE /\ marg' = NONE

Interrupt ==
  /\ Running /\ ~stop
  /\ stop' = TRUE
  /\ UNCHANGED <<tableVars, netVars, mainVars, acceptVars, recvVars, managed, backlog>>

PeerExists(addr) == \E i \in Active : AddrOf[table[i].conn] = addr

EstablishConnection(c, f) ==
  /\ fds' = [fds EXCEPT ![f] = c]
  /\ remote' = [remote EXCEPT ![c] = "up"]

\* A command that is refused, or whose connection cannot be made, changes
\* nothing.
ConnectCommand(c) ==
  /\ mpc = "prompt" /\ remote[c] = "none"
  /\ ~PeerExists(AddrOf[c])
  /\ FreeFds # {} /\ marg' = First(FreeFds)
  /\ EstablishConnection(c, First(FreeFds))
  /\ mpc' = "add" /\ mconn' = c
  /\ UNCHANGED <<tableVars, inbox, timed, stop, acceptVars, recvVars, managed, backlog>>

Added ==
  /\ mpc = "add" /\ HasRoom
  /\ AddPeer(mconn, marg)
  /\ mpc' = "greet"
  /\ UNCHANGED <<netVars, stop, mconn, marg, acceptVars, recvVars, managed, backlog>>

NotAdded ==
  /\ mpc = "add" /\ ~HasRoom
  /\ Close({marg})
  /\ NextCommand
  /\ UNCHANGED <<tableVars, stop, acceptVars, recvVars, managed, backlog>>

\* thread_manager_add: the threads are never forgotten, and one too many is
\* left out.
Manage(t) ==
  managed' = IF Cardinality(managed) < MaxThreads THEN managed \cup {t} ELSE managed

StartReceiver(c, f) ==
  /\ rpc' = [rpc EXCEPT ![c] = "start"] /\ sock' = [sock EXCEPT ![c] = f]
  /\ UNCHANGED on

\* start_client_receive_thread, after the greeting.
ReceiverStarts ==
  /\ mpc = "greet"
  /\ StartReceiver(mconn, marg) /\ Manage(mconn)
  /\ NextCommand
  /\ UNCHANGED <<tableVars, netVars, stop, acceptVars, backlog>>

ReceiverFails ==
  /\ mpc = "greet"
  /\ NextCommand
  /\ UNCHANGED <<tableVars, netVars, stop, acceptVars, recvVars, managed, backlog>>

\* execute_terminate looks the slot up, tells the peer in it and then removes
\* the first peer with that number.
TerminateCommand(i) ==
  /\ mpc = "prompt" /\ i \in Active
  /\ mpc' = "remove" /\ marg' = i
  /\ UNCHANGED <<tableVars, netVars, stop, mconn, acceptVars, recvVars, managed, backlog>>

Removes ==
  /\ mpc = "remove"
  /\ RemoveById(marg)
  /\ NextCommand
  /\ UNCHANGED <<stop, acceptVars, recvVars, managed, backlog>>

\* A send (of "send", "connect" or "terminate") to a peer that has gone raises
\* SIGPIPE, which keeps its default action.
Shut(f) == fds[f] # NONE /\ remote[fds[f]] = "shut"

\* What the process held goes with it.
KilledBySend ==
  /\ \/ mpc = "prompt" /\ \E i \in Active : Shut(table[i].fd)
     \/ mpc = "greet" /\ Shut(marg)
     \/ mpc = "remove" /\ marg \in Active /\ Shut(table[marg].fd)
  /\ mpc' = "killed" /\ mconn' = NONE /\ marg' = NONE
  /\ table' = NoPeers /\ count' = 0
  /\ fds' = [f \in Fd |-> NONE] /\ backlog' = {}
  /\ remote' = [c \in Conn |-> "over"] /\ inbox' = [c \in Conn |-> <<>>]
  /\ apc' = "end" /\ aconn' = NONE /\ afd' = NONE
  /\ rpc' = [c \in Conn |-> "end"] /\ sock' = [c \in Conn |-> NONE]
  /\ on' = [c \in Conn |-> NONE] /\ timed' = {}
  /\ UNCHANGED <<stop, managed>>

ExitCommand ==
  /\ mpc = "prompt"
  /\ CloseAllPeers
  /\ stop' = TRUE
  /\ mpc' = "cleanup"
  /\ UNCHANGED <<mconn, marg, acceptVars, recvVars, managed, backlog>>

\* The end of the input, or any line without effect after a signal, such as the
\* address of a program that does not answer.
InputEnds ==
  /\ mpc = "prompt"
  /\ mpc' = "cleanup"
  /\ UNCHANGED <<tableVars, netVars, stop, mconn, marg, acceptVars, recvVars, managed, backlog>>

\* socket_stop: the listener first ...
StopServer ==
  /\ mpc = "cleanup"
  /\ stop' = TRUE
  /\ mpc' = "closeAll"
  /\ UNCHANGED <<tableVars, netVars, mconn, marg, acceptVars, recvVars, managed, backlog>>

\* ... then the peers.  Next, thread_manager_join_all takes the lock of the
\* thread manager and holds it until every thread has ended.
StopPeers ==
  /\ mpc = "closeAll"
  /\ CloseAllPeers
  /\ mpc' = "joining"
  /\ UNCHANGED <<stop, mconn, marg, acceptVars, recvVars, managed, backlog>>

\* Mutant of JoinsAndReturns: only the accept thread is waited for.
JoinsAcceptOnly ==
  /\ mpc = "joining"
  /\ "accept" \in managed => apc = "end"
  /\ CloseAllPeers
  /\ mpc' = "returned"
  /\ UNCHANGED <<stop, mconn, marg, acceptVars, recvVars, managed, backlog>>

\* Only threads that the manager knows are waited for.
JoinsAndReturns ==
  /\ mpc = "joining"
  /\ "accept" \in managed => apc = "end"
  /\ \A c \in managed \cap Conn : rpc[c] = "end"
  /\ CloseAllPeers
  /\ mpc' = "returned"
  /\ UNCHANGED <<stop, mconn, marg, acceptVars, recvVars, managed, backlog>>
------------------------------------------------------------------------------
(* The accept thread: server_accept_loop. *)

NextAccept == apc' = IF stop THEN "end" ELSE "accept"

\* accept returns the next connection, on the lowest free number.
Accepts(c) ==
  /\ Running /\ apc = "accept" /\ Listening
  /\ c \in backlog /\ FreeFds # {}
  /\ fds' = [fds EXCEPT ![First(FreeFds)] = c]
  /\ apc' = "spawn" /\ aconn' = c /\ afd' = First(FreeFds)
  /\ backlog' = backlog \ {c}
  /\ UNCHANGED <<tableVars, remote, inbox, timed, stop, mainVars, recvVars, managed>>

\* Its receive thread is started, and is still to be registered.
Spawns ==
  /\ Running /\ apc = "spawn"
  /\ StartReceiver(aconn, afd)
  /\ apc' = "register" /\ afd' = NONE
  /\ UNCHANGED <<tableVars, netVars, stop, mainVars, aconn, managed, backlog>>

\* No memory or no thread: the socket is closed, and then looked for in the
\* table by its number.
SpawnFails ==
  /\ Running /\ apc = "spawn"
  /\ Close({afd})
  /\ apc' = "unlist" /\ aconn' = NONE
  /\ UNCHANGED <<tableVars, stop, mainVars, afd, recvVars, managed, backlog>>

AcceptUnlists ==
  /\ Running /\ apc = "unlist"
  /\ RemoveBySocket(afd) /\ CloseIf(HasSocket(afd) # {}, afd)
  /\ NextAccept /\ afd' = NONE
  /\ UNCHANGED <<stop, mainVars, aconn, recvVars, managed, backlog>>

\* The listener has been shut down.
AcceptFails ==
  /\ Running /\ apc = "accept" /\ stop /\ ~Listening
  /\ apc' = "end"
  /\ UNCHANGED <<tableVars, netVars, stop, mainVars, aconn, afd, recvVars, managed, backlog>>

\* thread_manager_add waits while the main thread joins.
Registers ==
  /\ Running /\ apc = "register" /\ mpc # "joining"
  /\ Manage(aconn)
  /\ NextAccept /\ aconn' = NONE
  /\ UNCHANGED <<tableVars, netVars, stop, mainVars, afd, recvVars, backlog>>
------------------------------------------------------------------------------
(* The receive threads: client_receive_loop.  A thread keeps its number,   *)
(* which others may close and which may then stand for another connection. *)

\* The timeout is set on what the number stands for by now.
SetsTimeout(c) ==
  /\ Running /\ rpc[c] = "start"
  /\ timed' = timed \cup ({fds[sock[c]]} \ {NONE})
  /\ rpc' = [rpc EXCEPT ![c] = "loop"]
  /\ UNCHANGED <<tableVars, fds, remote, inbox, stop, mainVars, acceptVars, sock, on,
                 managed, backlog>>

\* recv waits on the connection that the number stands for when it is called.
\* If there is none it fails at once, which is taken for a timeout.
Calls(c) ==
  /\ Running /\ rpc[c] = "loop" /\ ~stop
  /\ fds[sock[c]] # NONE
  /\ on' = [on EXCEPT ![c] = fds[sock[c]]]
  /\ rpc' = [rpc EXCEPT ![c] = IF on'[c] \in timed THEN "recv" ELSE "block"]
  /\ UNCHANGED <<tableVars, netVars, stop, mainVars, acceptVars, sock, managed, backlog>>

Returns(c, to) ==
  /\ Running /\ rpc[c] \in Calling
  /\ on' = [on EXCEPT ![c] = NONE] /\ rpc' = [rpc EXCEPT ![c] = to]
  /\ UNCHANGED <<stop, mainVars, acceptVars, sock, managed, backlog>>

TimesOut(c) ==
  /\ rpc[c] = "recv"
  /\ Returns(c, "loop")
  /\ UNCHANGED <<tableVars, fds>> /\ Settle(inbox)

\* What one recv returns is taken for one message, however many were sent:
\* split_string leaves the rest in the words behind those that are used.
Rests(q) == {<<>>, Tail(q)}

\* "connect" is the next message of c.
Greets(c) == inbox[c] # <<>> /\ Head(inbox[c]) = "connect"

\* handle_connected enters the sender with this thread's number.
HandlesConnect(c) ==
  /\ rpc[c] \in Calling /\ Greets(on[c])
  /\ Returns(c, "loop")
  /\ AddPeer(on[c], sock[c])
  /\ UNCHANGED fds
  /\ \E rest \in Rests(inbox[on[c]]) : Settle([inbox EXCEPT ![on[c]] = rest])

\* handle_terminated removes by this thread's number, whoever sent the message.
\* The socket is closed with the slot, and the loop goes on with its number.
HandlesTerminate(c) ==
  /\ rpc[c] \in Calling /\ inbox[on[c]] = <<"terminate">>
  /\ Returns(c, "loop")
  /\ RemoveBySocket(sock[c])
  /\ fds' = IF HasSocket(sock[c]) # {} THEN Without({sock[c]}) ELSE fds
  /\ Settle([inbox EXCEPT ![on[c]] = <<>>])

\* recv returns 0 at the end of the stream; the number is closed.
EndOfStream(c) ==
  /\ rpc[c] \in Calling /\ inbox[on[c]] = <<>> /\ remote[on[c]] = "shut"
  /\ Returns(c, "unlist")
  /\ UNCHANGED tableVars
  /\ fds' = Without({sock[c]}) /\ Settle(inbox)

\* Mutant of LeavesLoop: keep_running is looked at only when recv has failed
\* for another reason than a timeout.
LeavesLoopIfClosed(c) ==
  /\ Running /\ rpc[c] = "loop" /\ stop
  /\ fds[sock[c]] = NONE
  /\ Close({sock[c]})
  /\ rpc' = [rpc EXCEPT ![c] = "unlist"]
  /\ UNCHANGED <<tableVars, stop, mainVars, acceptVars, sock, managed, backlog>>

\* Mutant of LeavesLoop: the socket is left to remove_peer_by_socket.
LeavesLoopOpen(c) ==
  /\ Running /\ rpc[c] = "loop" /\ stop
  /\ rpc' = [rpc EXCEPT ![c] = "unlist"]
  /\ UNCHANGED <<tableVars, netVars, stop, mainVars, acceptVars, sock, on, managed, backlog>>

\* keep_running is false.
LeavesLoop(c) ==
  /\ Running /\ rpc[c] = "loop" /\ stop
  /\ Close({sock[c]})
  /\ rpc' = [rpc EXCEPT ![c] = "unlist"]
  /\ UNCHANGED <<tableVars, stop, mainVars, acceptVars, sock, managed, backlog>>

\* The number, closed by now, is looked for in the table.
Unlists(c) ==
  /\ Running /\ rpc[c] = "unlist"
  /\ RemoveBySocket(sock[c]) /\ CloseIf(HasSocket(sock[c]) # {}, sock[c])
  /\ rpc' = [rpc EXCEPT ![c] = "end"] /\ sock' = [sock EXCEPT ![c] = NONE]
  /\ UNCHANGED <<stop, mainVars, acceptVars, on, managed, backlog>>
------------------------------------------------------------------------------
Remote ==
  \/ \E c \in Inbound : RemoteConnects(c)
  \/ \E c \in Terminating : RemoteTerminates(c)
  \/ \E c \in Leaving : RemoteShuts(c)

Command ==
  \/ ExitCommand \/ InputEnds
  \/ \E c \in Outbound : ConnectCommand(c)
  \/ \E i \in Slot : TerminateCommand(i)

\* The steps of a command that has begun, and the cleanup.
MainThread ==
  \/ Added \/ NotAdded \/ ReceiverStarts \/ ReceiverFails
  \/ Removes \/ StopServer \/ StopPeers \/ JoinsAndReturns

AcceptThread == Spawns \/ SpawnFails \/ AcceptFails \/ AcceptUnlists \/ Registers

Receiver(c) ==
  \/ SetsTimeout(c) \/ Calls(c) \/ TimesOut(c) \/ HandlesConnect(c) \/ HandlesTerminate(c)
  \/ EndOfStream(c) \/ LeavesLoop(c) \/ Unlists(c)

Next ==
  \/ Command \/ MainThread \/ KilledBySend \/ Interrupt
  \/ AcceptThread
  \/ \E c \in Inbound : Accepts(c)
  \/ \E c \in Conn : Receiver(c)
  \/ Remote

Spec == Init /\ [][Next]_vars

\* The threads run; users, signals and other programs do as they like.
FairSpec == /\ Spec
            /\ WF_vars(MainThread) /\ WF_vars(AcceptThread)
            /\ \A c \in Conn : WF_vars(Receiver(c))
------------------------------------------------------------------------------
(* Properties. *)

\* Two ways of removing, which leave the table differently, and three threads
\* that do it: connection_count is the number of active slots, so that a new
\* peer finds a slot whenever the count has room.
CountMatchesSlots == count = Cardinality(Active)

\* Moving slots up, or adding by whichever thread read the greeting, never
\* enters a connection twice.
ListedOnce == \A i, j \in Active : table[i].conn = table[j].conn => i = j

Book == INSTANCE PeerBook WITH book <- Listed

\* The table implements the abstract list of peers.
BookSpec == Book!Spec

\* A socket is closed by a command, by its receive thread or by the cleanup, and
\* any of them may find that another has been there first: an open one always
\* has a slot or a thread that will still close it.  When main returns the only
\* ones open are those of threads that the manager did not know.
SocketsHeld ==
  \A f \in Fd : fds[f] # NONE =>
    /\ mpc = "returned" => \E c \in Conn \ managed : sock[c] = f
    /\ \/ \E i \in Active : table[i].fd = f
       \/ \E c \in Conn : sock[c] = f
       \/ mpc = "add" /\ marg = f
       \/ apc = "spawn" /\ afd = f

\* Once keep_running is false the receive threads end, for good, though their
\* peers say nothing and their numbers may be closed or another's, but for those
\* that wait on a connection without a timeout, unless main returns, which only
\* those can see that it does not join.
ReceiversEnd ==
  stop ~> [](mpc = "returned" \/ \A c \in Conn : rpc[c] \in {"none", "end", "block"})

\* README.md:102 says of the command exit that it "closes all connections and
\* terminates the process".
ExitEnds == (mpc = "cleanup") ~> (mpc \in {"returned", "killed"})
------------------------------------------------------------------------------
(***************************************************************************)
(* The inductive invariant behind the safety properties.                   *)
(***************************************************************************)
\* A slot in use holds a connection and its socket.
SlotsFull == \A i \in Active : table[i].conn \in Conn /\ table[i].fd \in Fd

\* Only a program that has connected greets, and only until it is listed.
GreetingInv ==
  /\ \A c \in Conn : Greets(c) => c \in Inbound /\ c \notin Listed
  /\ \A c \in Conn : remote[c] = "none" =>
       inbox[c] = <<>> /\ rpc[c] = "none" /\ c \notin Listed \cup backlog
  /\ \A c \in backlog : c \in Inbound /\ rpc[c] = "none"

\* What the main thread knows of the connection it is making.
DialInv ==
  /\ mpc \in {"add", "greet"} =>
       /\ mconn \in Outbound /\ marg \in Fd
       /\ remote[mconn] # "none" /\ rpc[mconn] = "none"
  /\ mpc = "add" => mconn \notin Listed

\* What the accept thread knows of the connection it has accepted.
SpawnInv ==
  /\ apc = "spawn" =>
       /\ aconn \in Inbound \ backlog /\ afd \in Fd
       /\ remote[aconn] # "none" /\ rpc[aconn] = "none"
  /\ apc = "register" => aconn \in Conn
  /\ apc = "unlist" => afd \in Fd

\* An open socket is in a slot, or its receive thread has not left its loop.
HeldInv ==
  /\ \A c \in Conn : rpc[c] \in InLoop \cup {"unlist"} => sock[c] \in Fd
  /\ \A c \in Conn : rpc[c] \in Calling => on[c] \in Conn
  /\ \A f \in Fd : fds[f] # NONE =>
       \/ \E i \in Active : table[i].fd = f
       \/ \E c \in Conn : sock[c] = f /\ rpc[c] \in InLoop
       \/ mpc = "add" /\ marg = f
       \/ apc = "spawn" /\ afd = f

IndInv == /\ TypeOK /\ SlotsFull /\ CountMatchesSlots /\ ListedOnce
          /\ GreetingInv /\ DialInv /\ SpawnInv /\ HeldInv
==============================================================================
