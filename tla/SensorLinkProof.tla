--------------------------- MODULE SensorLinkProof ---------------------------
(***************************************************************************)
(* Proofs about SensorLink, for any sensors, processes and descriptors.    *)
(***************************************************************************)
EXTENDS SensorLink, TLAPS

\* Nothing is open, sent or listed at the start.
LEMMA InitInv == Init => IndInv
  BY LinkAssumption
  DEF Init, IndInv, TypeOK, DescriptorInv, NoSocketLeftOpen, SaidInv, ServedInv, ListedLinked

\* Closing a number leaves the tables well formed; no other entry changes, and
\* the socket its thread was given is not found any more.
LEMMA CloseNumberEffect ==
  ASSUME IndInv, NEW c \in Conn, CloseNumber(c)
  PROVE  /\ fds' \in [Proc -> [Fd -> Conn \cup {NONE}]]
         /\ \A p \in Proc, f \in Fd : fds'[p][f] \in {fds[p][f], NONE}
         /\ \A p \in Proc, f \in Fd : fds'[p][f] # c
<1>1. fds' = [fds EXCEPT ![ProcOf[c]][sock[c]] = NONE]
  BY DEF CloseNumber
<1>2. fds \in [Proc -> [Fd -> Conn \cup {NONE}]] /\ ProcOf[c] \in Proc
  BY LinkAssumption DEF IndInv, TypeOK
<1>3. \A p \in Proc, f \in Fd :
        fds'[p][f] = IF p = ProcOf[c] /\ f = sock[c] THEN NONE ELSE fds[p][f]
  BY <1>1, <1>2
<1>4. fds' \in [Proc -> [Fd -> Conn \cup {NONE}]]
  BY <1>1, <1>2
<1>5. \A p \in Proc, f \in Fd : fds'[p][f] # c
  BY <1>3, LinkAssumption DEF IndInv, DescriptorInv
<1> QED
  BY <1>3, <1>4, <1>5

\* An early return of a client thread: the number is closed and the thread
\* goes to l, where it has no socket.
LEMMA CloseStep ==
  ASSUME IndInv, NEW c \in Conn, CloseNumber(c),
         NEW l \in {"close", "failed"}, Goto(c, l), cpc[c] # "linked",
         UNCHANGED <<alive, sock, said, up, socketVars, tableVars, serverVars, mainVars>>
  PROVE  IndInv'
<1>1. cpc' = [cpc EXCEPT ![c] = l] /\ cpc \in [Conn -> {"none", "create", "dial",
        "shake", "send", "close", "linked", "failed"}]
  BY DEF Goto, IndInv, TypeOK
<1>2. TypeOK'
  BY <1>1, CloseNumberEffect
  DEF IndInv, TypeOK, socketVars, tableVars, serverVars, mainVars
<1>3. DescriptorInv'
  BY CloseNumberEffect, LinkAssumption DEF IndInv, DescriptorInv
<1>4. NoSocketLeftOpen'
  <2> SUFFICES ASSUME NEW p \in Proc, NEW f \in Fd, fds'[p][f] # NONE
               PROVE  cpc'[fds'[p][f]] \in {"dial", "shake", "send", "linked"}
    BY DEF NoSocketLeftOpen
  <2>1. fds'[p][f] = fds[p][f] /\ fds[p][f] # c /\ fds[p][f] \in Conn
    BY CloseNumberEffect DEF IndInv, TypeOK
  <2> QED
    BY <2>1, <1>1 DEF IndInv, NoSocketLeftOpen
<1>5. SaidInv' /\ ServedInv' /\ ListedLinked'
  BY <1>1 DEF IndInv, TypeOK, SaidInv, ServedInv, ListedLinked, socketVars, tableVars, serverVars
<1> QED
  BY <1>2, <1>3, <1>4, <1>5 DEF IndInv

\* A client's new socket is one that nobody holds.
LEMMA CreateSocketStep ==
  ASSUME IndInv, NEW c \in Conn, CreateSocket(c) PROVE IndInv'
<1>1. PICK f \in Fd : /\ fds' = [fds EXCEPT ![ProcOf[c]][f] = c]
                      /\ sock' = [sock EXCEPT ![c] = f]
                      /\ Table(c)[f] = NONE
  BY DEF CreateSocket
<1>2. /\ cpc[c] = "create" /\ cpc' = [cpc EXCEPT ![c] = "dial"]
      /\ UNCHANGED <<alive, said, up, socketVars, tableVars, serverVars, mainVars>>
  BY DEF CreateSocket, Goto
<1>3. \A p \in Proc, g \in Fd : fds[p][g] # c
  BY <1>2, LinkAssumption DEF IndInv, NoSocketLeftOpen
<1>4. /\ ProcOf[c] \in Proc
      /\ \A p \in Proc, g \in Fd :
           fds'[p][g] = IF p = ProcOf[c] /\ g = f THEN c ELSE fds[p][g]
  BY <1>1, LinkAssumption DEF IndInv, TypeOK
<1>5. TypeOK'
  BY <1>1, <1>2, <1>4 DEF IndInv, TypeOK, socketVars, tableVars, serverVars, mainVars
<1>6. DescriptorInv'
  BY <1>1, <1>3, <1>4 DEF IndInv, TypeOK, DescriptorInv
<1>7. NoSocketLeftOpen'
  <2> SUFFICES ASSUME NEW p \in Proc, NEW g \in Fd, fds'[p][g] # NONE
               PROVE  cpc'[fds'[p][g]] \in {"dial", "shake", "send", "linked"}
    BY DEF NoSocketLeftOpen
  <2>1. CASE fds'[p][g] = c
    BY <2>1, <1>2 DEF IndInv, TypeOK
  <2>2. CASE fds'[p][g] # c
    BY <2>2, <1>2, <1>4 DEF IndInv, NoSocketLeftOpen
  <2> QED
    BY <2>1, <2>2
<1>8. SaidInv' /\ ServedInv' /\ ListedLinked'
  BY <1>2 DEF IndInv, TypeOK, SaidInv, ServedInv, ListedLinked, socketVars, tableVars, serverVars
<1> QED
  BY <1>5, <1>6, <1>7, <1>8 DEF IndInv

\* Steps of the sensors.
LEMMA ClientStep ==
  ASSUME IndInv, NEW c \in Conn, ConnectCommand(c) \/ ClientThread(c) PROVE IndInv'
<1>1. CASE CreateSocket(c)
  BY <1>1, CreateSocketStep
<1>2. CASE DialFails(c)
  BY <1>2, CloseStep DEF DialFails, GiveUp
<1>3. CASE ClientShakeFails(c)
  BY <1>3, CloseStep DEF ClientShakeFails, GiveUp
<1>4. CASE SendFails(c)
  BY <1>4, CloseStep DEF SendFails
<1>5. CASE CloseAgain(c)
  BY <1>5, CloseStep DEF CloseAgain, GiveUp
<1> USE LinkAssumption
        DEF IndInv, TypeOK, DescriptorInv, NoSocketLeftOpen, SaidInv, ServedInv, ListedLinked,
            Goto, socketVars, tableVars, serverVars, mainVars
<1>6. CASE ConnectCommand(c)
  BY <1>6 DEF ConnectCommand
<1>7. CASE CreateFails(c)
  BY <1>7 DEF CreateFails
<1>8. CASE Dial(c)
  BY <1>8 DEF Dial
<1>9. CASE ClientShakes(c)
  BY <1>9 DEF ClientShakes
<1>10. CASE Send(c)
  BY <1>10 DEF Send
<1> QED
  BY <1>1, <1>2, <1>3, <1>4, <1>5, <1>6, <1>7, <1>8, <1>9, <1>10 DEF ClientThread

\* The end of a process leaves no descriptor behind.
LEMMA ProcessStep == ASSUME IndInv, NEW p \in Proc, ProcessEnds(p) PROVE IndInv'
<1>1. /\ alive' = alive \ {p}
      /\ fds' = [fds EXCEPT ![p] = [f \in Fd |-> NONE]]
      /\ UNCHANGED <<cpc, sock, said, up, socketVars, tableVars, serverVars, mainVars>>
  BY DEF ProcessEnds
<1>2. \A r \in Proc, f \in Fd : fds'[r][f] = IF r = p THEN NONE ELSE fds[r][f]
  BY <1>1 DEF IndInv, TypeOK
<1>3. TypeOK'
  BY <1>1 DEF IndInv, TypeOK, socketVars, tableVars, serverVars, mainVars
<1>4. DescriptorInv' /\ NoSocketLeftOpen'
  BY <1>1, <1>2, LinkAssumption DEF IndInv, DescriptorInv, NoSocketLeftOpen
<1>5. SaidInv' /\ ServedInv' /\ ListedLinked'
  BY <1>1 DEF IndInv, SaidInv, ServedInv, ListedLinked, socketVars, tableVars, serverVars
<1> QED
  BY <1>3, <1>4, <1>5 DEF IndInv

\* Steps of the gateway change nothing in the sensors.
LEMMA GatewayStep ==
  ASSUME IndInv,
         \/ ConnectionThread \/ TerminateEnds \/ Sweep \/ Wakes \/ UpdateWalk \/ GatewayEnds
         \/ \E c \in Conn : TerminateBegins(c)
  PROVE  IndInv'
<1> USE LinkAssumption
        DEF IndInv, TypeOK, DescriptorInv, NoSocketLeftOpen, SaidInv, ServedInv, ListedLinked,
            Serve, Done, Release, ReleaseNode, Unlink,
            clientVars, socketVars, tableVars, serverVars, mainVars
<1>2. CASE ServerShakes
  BY <1>2 DEF ServerShakes
<1>3. CASE ServerShakeFails
  BY <1>3 DEF ServerShakeFails
<1>4. CASE RecvPacket
  BY <1>4 DEF RecvPacket
<1>5. CASE RecvFails
  BY <1>5 DEF RecvFails
<1>6. CASE CheckPort
  BY <1>6 DEF CheckPort
<1>7. CASE Admit
  BY <1>7 DEF Admit
<1>8. CASE NotAdmitted
  BY <1>8 DEF NotAdmitted
<1>9. CASE Register
  BY <1>9 DEF Register
<1>10. CASE RegisterFails
  BY <1>10 DEF RegisterFails
<1>11. CASE CloseEnds
  BY <1>11 DEF CloseEnds
<1>12. CASE RemoveFindsNone
  BY <1>12 DEF RemoveFindsNone
<1>13. CASE RemoveEnds
  BY <1>13 DEF RemoveEnds
<1>14. ASSUME NEW c \in Conn, Accept(c) PROVE IndInv'
  BY <1>14 DEF Accept
<1>15. ASSUME NEW c \in Conn, AcceptDrops(c) PROVE IndInv'
  BY <1>15 DEF AcceptDrops
<1>16. ASSUME NEW c \in Conn, HangUpIgnored(c) PROVE IndInv'
  BY <1>16 DEF HangUpIgnored
<1>17. ASSUME NEW c \in Conn, HangUpFound(c) PROVE IndInv'
  BY <1>17 DEF HangUpFound
<1>18. ASSUME NEW c \in Conn, RemoveBegins(c) PROVE IndInv'
  BY <1>18 DEF RemoveBegins
<1>19. ASSUME NEW c \in Conn, TerminateBegins(c) PROVE IndInv'
  BY <1>19 DEF TerminateBegins
<1>20. CASE TerminateEnds
  BY <1>20 DEF TerminateEnds
<1>21. CASE Sweep
  BY <1>21 DEF Sweep
<1>22. CASE Wakes
  BY <1>22 DEF Wakes
<1>23. CASE UpdateWalk
  BY <1>23 DEF UpdateWalk
<1>24. CASE GatewayEnds
  <2>1. /\ up' = FALSE /\ queue' = {} /\ held' = {} /\ armed' = {}
        /\ listed' = {} /\ idle' = {} /\ upc' = "asleep"
        /\ gpc' = "wait" /\ gc' = NONE /\ gv' = NONE /\ mpc' = "input" /\ mv' = NONE
        /\ UNCHANGED <<alive, fds, cpc, sock, said>>
    BY <1>24 DEF GatewayEnds
  <2>2. TypeOK'
    BY <2>1
  <2> QED
    BY <2>1, <2>2
<1> HIDE DEF IndInv
<1> QED
  BY <1>2, <1>3, <1>4, <1>5, <1>6, <1>7, <1>8, <1>9, <1>10, <1>11, <1>12, <1>13,
     <1>14, <1>15, <1>16, <1>17, <1>18, <1>19, <1>20, <1>21, <1>22, <1>23, <1>24
  DEF ConnectionThread, ReadClient

(***************************************************************************)
(* IndInv holds in every reachable state, whatever ends fail or die, and   *)
(* in whatever order the threads of the processes go on.                   *)
(***************************************************************************)
THEOREM Invariance == Spec => []IndInv
<1>1. Init => IndInv
  BY InitInv
<1>2. IndInv /\ [Next]_vars => IndInv'
  <2> SUFFICES ASSUME IndInv, [Next]_vars PROVE IndInv'
    OBVIOUS
  <2>1. CASE \E c \in Conn : ConnectCommand(c) \/ ClientThread(c)
    BY <2>1, ClientStep
  <2>2. CASE \E p \in Proc : ProcessEnds(p)
    BY <2>2, ProcessStep
  <2>3. CASE \/ ConnectionThread \/ TerminateEnds \/ Sweep \/ Wakes \/ UpdateWalk \/ GatewayEnds
             \/ \E c \in Conn : TerminateBegins(c)
    BY <2>3, GatewayStep
  <2>4. CASE UNCHANGED vars
    BY <2>4 DEF IndInv, TypeOK, DescriptorInv, NoSocketLeftOpen, SaidInv, ServedInv, ListedLinked,
                vars, clientVars, socketVars, tableVars, serverVars, mainVars
  <2> QED
    BY <2>1, <2>2, <2>3, <2>4 DEF Next
<1> QED
  BY <1>1, <1>2, PTL DEF Spec

(***************************************************************************)
(* Every variable keeps its type.                                          *)
(***************************************************************************)
THEOREM TypeCorrect == Spec => []TypeOK
<1>1. IndInv => TypeOK
  BY DEF IndInv
<1> QED
  BY <1>1, Invariance, PTL

(***************************************************************************)
(* No error path of client_thread_main leaves its socket open, for any     *)
(* number of commands in a process.                                        *)
(***************************************************************************)
THEOREM NoLeak == Spec => []NoSocketLeftOpen
<1>1. IndInv => NoSocketLeftOpen
  BY DEF IndInv
<1> QED
  BY <1>1, Invariance, PTL

(***************************************************************************)
(* A listed sensor has sent its packet and ended in the belief that it is  *)
(* connected.                                                              *)
(***************************************************************************)
THEOREM Agreement == Spec => []ListedLinked
<1>1. IndInv => ListedLinked
  BY DEF IndInv
<1> QED
  BY <1>1, Invariance, PTL
------------------------------------------------------------------------------
(* The connection thread and its clients. *)

\* What is closed stays closed unless its own thread opens a socket.
LEMMA GoneStays ==
  ASSUME IndInv, NEW c \in Conn,
         \A p \in Proc, f \in Fd : fds'[p][f] # c \/ fds'[p][f] = fds[p][f]
  PROVE  PeerGone(c) => PeerGone(c)'
BY LinkAssumption DEF PeerGone, Table

\* A client thread that returns early has closed its socket.
LEMMA CloseAnswers ==
  ASSUME IndInv, AnswerInv, NEW c \in Conn, CloseNumber(c),
         NEW l \in {"close", "failed"}, Goto(c, l),
         UNCHANGED <<alive, sock, said, up, socketVars, tableVars, serverVars, mainVars>>
  PROVE  AnswerInv'
<1>1. cpc' = [cpc EXCEPT ![c] = l] /\ DOMAIN cpc = Conn
  BY DEF Goto, IndInv, TypeOK
<1>2. \A d \in Conn : PeerGone(d) => PeerGone(d)'
  <2> SUFFICES ASSUME NEW d \in Conn PROVE PeerGone(d) => PeerGone(d)'
    OBVIOUS
  <2>1. \A p \in Proc, f \in Fd : fds'[p][f] # d \/ fds'[p][f] = fds[p][f]
    BY CloseNumberEffect, LinkAssumption
  <2> QED BY <2>1, GoneStays
<1>3. PeerGone(c)'
  BY CloseNumberEffect, LinkAssumption DEF PeerGone, Table
<1>4. WireInv'
  BY <1>1 DEF AnswerInv, WireInv, serverVars
<1>5. EndsInv'
  <2>1. \A d \in Conn : Running(d)' = Running(d)
    BY DEF Running
  <2>2. \A d \in Conn : ~Running(d)' => PeerGone(d)'
    BY <1>2, <2>1 DEF AnswerInv, EndsInv
  <2>3. ASSUME NEW d \in (queue \cup held \cup Served)'
        PROVE  /\ cpc'[d] \notin {"none", "create", "dial"}
               /\ cpc'[d] \in {"close", "failed"} => PeerGone(d)'
    <3>1. d \in queue \cup held \cup Served /\ d \in Conn
      BY <2>3 DEF socketVars, serverVars, Served, IndInv, TypeOK, ServedInv
    <3>2. CASE d = c
      BY <1>1, <1>3, <3>2
    <3>3. CASE d # c
      BY <1>1, <1>2, <3>1, <3>3 DEF AnswerInv, EndsInv
    <3> QED BY <3>2, <3>3
  <2> QED BY <2>2, <2>3 DEF EndsInv
<1> QED
  BY <1>4, <1>5 DEF AnswerInv

\* A new socket leaves every wait as it is.
LEMMA CreateAnswers ==
  ASSUME IndInv, AnswerInv, NEW c \in Conn, CreateSocket(c) PROVE AnswerInv'
<1>1. PICK f \in Fd : fds' = [fds EXCEPT ![ProcOf[c]][f] = c]
  BY DEF CreateSocket
<1>2. /\ cpc[c] = "create" /\ cpc' = [cpc EXCEPT ![c] = "dial"] /\ Running(c)
      /\ UNCHANGED <<alive, said, up, socketVars, tableVars, serverVars, mainVars>>
  BY DEF CreateSocket, Goto
<1>3. \A d \in Conn : d # c /\ PeerGone(d) => PeerGone(d)'
  <2> SUFFICES ASSUME NEW d \in Conn, d # c PROVE PeerGone(d) => PeerGone(d)'
    OBVIOUS
  <2>1. \A p \in Proc, g \in Fd : fds'[p][g] # d \/ fds'[p][g] = fds[p][g]
    BY <1>1, LinkAssumption DEF IndInv, TypeOK
  <2> QED BY <2>1, GoneStays
<1>4. c \notin queue \cup held \cup Served
  BY <1>2 DEF AnswerInv, EndsInv
<1>5. WireInv'
  BY <1>2 DEF AnswerInv, WireInv, IndInv, TypeOK, serverVars
<1>6. EndsInv'
  <2>1. \A d \in Conn : Running(d)' = Running(d)
    BY <1>2 DEF Running
  <2> QED BY <1>2, <1>3, <1>4, <2>1 DEF AnswerInv, EndsInv, Served, IndInv, TypeOK, ServedInv, socketVars, serverVars
<1> QED
  BY <1>5, <1>6 DEF AnswerInv

\* The client's steps keep what every waiting end waits for.
LEMMA ClientAnswers ==
  ASSUME IndInv, AnswerInv, NEW c \in Conn, ConnectCommand(c) \/ ClientThread(c)
  PROVE  AnswerInv'
<1>1. CASE CreateSocket(c)
  BY <1>1, CreateAnswers
<1>2. CASE DialFails(c)
  BY <1>2, CloseAnswers DEF DialFails, GiveUp
<1>3. CASE ClientShakeFails(c)
  BY <1>3, CloseAnswers DEF ClientShakeFails, GiveUp
<1>4. CASE SendFails(c)
  BY <1>4, CloseAnswers DEF SendFails
<1>5. CASE CloseAgain(c)
  BY <1>5, CloseAnswers DEF CloseAgain, GiveUp
<1> USE DEF IndInv, TypeOK, AnswerInv, WireInv, EndsInv, Served, ServedInv, Running, PeerGone, Table,
            Goto, socketVars, tableVars, serverVars, mainVars
<1>6. CASE ConnectCommand(c)
  BY <1>6 DEF ConnectCommand
<1>7. CASE CreateFails(c)
  BY <1>7 DEF CreateFails
<1>8. CASE Dial(c)
  BY <1>8 DEF Dial
<1>9. CASE ClientShakes(c)
  BY <1>9 DEF ClientShakes
<1>10. CASE Send(c)
  BY <1>10 DEF Send
<1> QED
  BY <1>1, <1>2, <1>3, <1>4, <1>5, <1>6, <1>7, <1>8, <1>9, <1>10 DEF ClientThread

\* A client process that ends answers, by its end, all who wait for it.
LEMMA ProcessAnswers ==
  ASSUME IndInv, AnswerInv, NEW p \in Proc, ProcessEnds(p) PROVE AnswerInv'
<1>1. /\ alive' = alive \ {p}
      /\ fds' = [fds EXCEPT ![p] = [f \in Fd |-> NONE]]
      /\ UNCHANGED <<cpc, sock, said, up, socketVars, tableVars, serverVars, mainVars>>
  BY DEF ProcessEnds
<1>2. \A r \in Proc, f \in Fd : fds'[r][f] = IF r = p THEN NONE ELSE fds[r][f]
  BY <1>1 DEF IndInv, TypeOK
<1>3. \A d \in Conn : PeerGone(d) => PeerGone(d)'
  <2> SUFFICES ASSUME NEW d \in Conn PROVE PeerGone(d) => PeerGone(d)'
    OBVIOUS
  <2>1. \A r \in Proc, f \in Fd : fds'[r][f] # d \/ fds'[r][f] = fds[r][f]
    BY <1>2, LinkAssumption
  <2> QED BY <2>1, GoneStays
<1>4. \A d \in Conn : ProcOf[d] = p => PeerGone(d)'
  BY <1>2, LinkAssumption DEF PeerGone, Table
<1>5. EndsInv'
  BY <1>1, <1>3, <1>4 DEF AnswerInv, EndsInv, Served, Running, IndInv, TypeOK, ServedInv, socketVars, serverVars
<1>6. WireInv'
  BY <1>1 DEF AnswerInv, WireInv, serverVars
<1> QED
  BY <1>5, <1>6 DEF AnswerInv

\* The gateway only takes sockets from the queue, and goes on to the packet
\* when the client's last message of the handshake is there.
LEMMA GatewayAnswers ==
  ASSUME IndInv, AnswerInv,
         \/ ConnectionThread \/ TerminateEnds \/ Sweep \/ Wakes \/ UpdateWalk \/ GatewayEnds
         \/ \E c \in Conn : TerminateBegins(c)
  PROVE  AnswerInv'
<1>1. UNCHANGED clientVars
  BY DEF ConnectionThread, ReadClient, ServerShakes, ServerShakeFails, RecvPacket, RecvFails,
         CheckPort, Admit, NotAdmitted, Register, RegisterFails, CloseEnds, RemoveFindsNone,
         RemoveEnds, Accept, AcceptDrops, HangUpIgnored, HangUpFound, RemoveBegins,
         TerminateEnds, Sweep, GatewayEnds, Wakes, UpdateWalk, TerminateBegins
<1>2. (queue \cup held \cup Served)' \subseteq queue \cup held \cup Served
  <2>1. (queue \cup held)' \subseteq queue \cup held \/ \E c \in Conn : Accept(c)
    BY DEF ConnectionThread, ReadClient, ServerShakes, ServerShakeFails, RecvPacket, RecvFails,
           CheckPort, Admit, NotAdmitted, Register, RegisterFails, CloseEnds, RemoveFindsNone,
           RemoveEnds, AcceptDrops, HangUpIgnored, HangUpFound, RemoveBegins,
           TerminateEnds, Sweep, GatewayEnds, Wakes, UpdateWalk, TerminateBegins,
           Release, ReleaseNode, socketVars
  <2>2. Served' \subseteq Served \/ \E c \in Conn : Accept(c)
    BY DEF ConnectionThread, ReadClient, ServerShakes, ServerShakeFails, RecvPacket, RecvFails,
           CheckPort, Admit, NotAdmitted, Register, RegisterFails, CloseEnds, RemoveFindsNone,
           RemoveEnds, AcceptDrops, HangUpIgnored, HangUpFound, RemoveBegins,
           TerminateEnds, Sweep, GatewayEnds, Wakes, UpdateWalk, TerminateBegins,
           Serve, Done, serverVars, Served
  <2>3. ASSUME NEW c \in Conn, Accept(c)
        PROVE  (queue \cup held \cup Served)' \subseteq queue \cup held \cup Served
    BY <2>3 DEF Accept, Serve, Served
  <2> QED BY <2>1, <2>2, <2>3
<1>3. \/ gpc' # "packet"
      \/ gpc' = gpc /\ gc' = gc
      \/ said[gc] # "nothing" /\ gc' = gc
  BY DEF ConnectionThread, ReadClient, ServerShakes, ServerShakeFails, RecvPacket, RecvFails,
         CheckPort, Admit, NotAdmitted, Register, RegisterFails, CloseEnds, RemoveFindsNone,
         RemoveEnds, Accept, AcceptDrops, HangUpIgnored, HangUpFound, RemoveBegins,
         TerminateEnds, Sweep, GatewayEnds, Wakes, UpdateWalk, TerminateBegins, Serve, Done,
         serverVars
<1>4. EndsInv'
  BY <1>1, <1>2 DEF AnswerInv, EndsInv, Running, PeerGone, Table, clientVars
<1>5. WireInv'
  BY <1>1, <1>3 DEF AnswerInv, WireInv, clientVars
<1> QED
  BY <1>4, <1>5 DEF AnswerInv

\* Every step keeps what every waiting end waits for.
LEMMA AnswerStep == IndInv /\ AnswerInv /\ [Next]_vars => AnswerInv'
<1> SUFFICES ASSUME IndInv, AnswerInv, [Next]_vars PROVE AnswerInv'
  OBVIOUS
<1>1. CASE \E c \in Conn : ConnectCommand(c) \/ ClientThread(c)
  BY <1>1, ClientAnswers
<1>2. CASE \E p \in Proc : ProcessEnds(p)
  BY <1>2, ProcessAnswers
<1>3. CASE \/ ConnectionThread \/ TerminateEnds \/ Sweep \/ Wakes \/ UpdateWalk \/ GatewayEnds
           \/ \E c \in Conn : TerminateBegins(c)
  BY <1>3, GatewayAnswers
<1>4. CASE UNCHANGED vars
  BY <1>4 DEF AnswerInv, WireInv, EndsInv, Served, Running, PeerGone, Table,
              vars, clientVars, socketVars, serverVars
<1> QED
  BY <1>1, <1>2, <1>3, <1>4 DEF Next

(***************************************************************************)
(* The one thread that serves all sensors never waits for a client that    *)
(* will neither send nor close, whichever ends fail, and in whatever order *)
(* the commands of a process close each other's numbers.                   *)
(***************************************************************************)
THEOREM ReadsCorrect == Spec => []ReadsAnswered
<1>1. Init => AnswerInv
  BY LinkAssumption DEF Init, AnswerInv, WireInv, EndsInv, Running, Served
<1>2. IndInv /\ AnswerInv => ReadsAnswered
  <2> SUFFICES ASSUME IndInv, AnswerInv, gpc \in {"shake", "packet"}, ~PeerGone(gc)
               PROVE  Running(gc) /\ cpc[gc] \in {"shake", "send", "linked"}
    BY DEF ReadsAnswered, Arrived, IndInv, ServedInv, AnswerInv, WireInv
  <2>1. gc \in Conn /\ cpc[gc] \in {"none", "create", "dial", "shake", "send", "close",
                                    "linked", "failed"}
    BY DEF IndInv, TypeOK, ServedInv
  <2> QED BY <2>1 DEF AnswerInv, EndsInv, Served
<1> QED
  BY <1>1, <1>2, AnswerStep, Invariance, PTL DEF Spec
==============================================================================
