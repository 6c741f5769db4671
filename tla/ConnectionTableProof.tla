------------------------- MODULE ConnectionTableProof -------------------------
(***************************************************************************)
(* ConnectionTable is type correct, its count and its limiter are exact,   *)
(* its two admission rules hold, and it implements Admission, for every    *)
(* set of clients, whatever they report, and for every limit.              *)
(***************************************************************************)
EXTENDS ConnectionTable, FiniteSetTheorems, WellFoundedInduction, TLAPS

(***************************************************************************)
(* The list and the holders of the limiter's slots are finite sets.        *)
(***************************************************************************)
LEMMA FiniteParts ==
  ASSUME TypeOK, ServingInv
  PROVE  /\ IsFiniteSet(listed) /\ IsFiniteSet(SlotHolders)
         /\ SlotHolders \subseteq Conn
         /\ \A S \in SUBSET Conn : IsFiniteSet(S) /\ Cardinality(S) \in Nat
<1>1. SlotHolders \subseteq Conn
  BY DEF SlotHolders, InFlight, TypeOK, ServingInv, ServingPCs
<1>2. \A S \in SUBSET Conn : IsFiniteSet(S) /\ Cardinality(S) \in Nat
  BY TableAssumption, FS_Subset, FS_CardinalityType
<1> QED
  BY <1>1, <1>2 DEF TypeOK

(***************************************************************************)
(* A step that touches neither the list nor the limiter keeps both counts. *)
(***************************************************************************)
LEMMA QuietStep ==
  ASSUME IndInv, InFlight' = InFlight,
         UNCHANGED <<limiterVars, listed, activeCount, leaked>>
  PROVE  CountMatchesList' /\ SlotsAccounted' /\ PortsUnique' /\ EntriesInv'
<1>1. SlotHolders' = SlotHolders
  BY DEF SlotHolders
<1> QED
  BY <1>1 DEF IndInv, CountMatchesList, SlotsAccounted, PortsUnique,
              EntriesInv, limiterVars

(***************************************************************************)
(* Dropping listed nodes gives back exactly the slots they held.           *)
(***************************************************************************)
LEMMA DropStep ==
  ASSUME IndInv, NEW C \in SUBSET listed, DropNodes(C), InFlight' = InFlight
  PROVE  /\ CountMatchesList' /\ SlotsAccounted' /\ PortsUnique'
         /\ activeCount' \in Nat
         /\ LimiterTypeOK' /\ EntriesInv'
<1>0. C \in SUBSET Conn /\ IsFiniteSet(C) /\ IsFiniteSet(listed)
  BY FiniteParts DEF IndInv, TypeOK
<1>1. /\ Cardinality(listed \ C) = Cardinality(listed) - Cardinality(C)
      /\ Cardinality(listed \ C) \in Nat
  <2>1. listed \cap C = C
    OBVIOUS
  <2>2. Cardinality(listed \ C) = Cardinality(listed) - Cardinality(listed \cap C)
    BY <1>0, FS_Difference
  <2>3. Cardinality(listed \ C) \in Nat
    BY FiniteParts DEF IndInv, TypeOK
  <2> QED
    BY <2>1, <2>2, <2>3
<1>2. CountMatchesList' /\ activeCount' \in Nat
  BY <1>1 DEF CountMatchesList, IndInv, DropNodes
<1>3. SlotHolders' = SlotHolders \ C
  <2>1. C \cap leaked = {}
    BY DEF IndInv, FreshInv
  <2>2. C \cap InFlight = {}
    BY DEF IndInv, FreshInv, Fresh, InFlight, TypeOK
  <2> QED
    BY <2>1, <2>2 DEF SlotHolders, DropNodes
<1>4. ASSUME NEW ip \in Ip
      PROVE  /\ count'[ip] = Cardinality({c \in SlotHolders' : IpOf[c] = ip})
             /\ count'[ip] \in 0 .. MaxPerIp
  <2> DEFINE H == {c \in SlotHolders : IpOf[c] = ip}
             D == {c \in C : IpOf[c] = ip}
  <2>1. {c \in SlotHolders' : IpOf[c] = ip} = H \ D
    BY <1>3
  <2>2. H \cap D = D
    BY DEF SlotHolders
  <2>3. IsFiniteSet(H) /\ Cardinality(H) \in Nat /\ Cardinality(D) \in Nat
        /\ Cardinality(H \ D) \in Nat
    BY FiniteParts, <1>0 DEF IndInv
  <2>4. Cardinality(H \ D) = Cardinality(H) - Cardinality(D)
    BY <2>2, <2>3, FS_Difference
  <2>5. count[ip] = Cardinality(H) /\ count[ip] \in 0 .. MaxPerIp
    BY DEF IndInv, SlotsAccounted, TypeOK, LimiterTypeOK
  <2>6. count'[ip] = IF Cardinality(D) < count[ip]
                     THEN count[ip] - Cardinality(D) ELSE 0
    BY DEF DropNodes, GiveBack
  <2>7. Cardinality({c \in SlotHolders' : IpOf[c] = ip}) = Cardinality(H \ D)
    BY <2>1, Zenon
  <2>8. Cardinality(D) \in Nat /\ Cardinality(H) \in Nat /\ MaxPerIp \in Nat
        /\ Cardinality(H \ D) \in Nat
    BY <2>3, LimiterAssumption
  <2> HIDE DEF H, D
  <2>9. count'[ip] = Cardinality(H \ D) /\ count'[ip] \in 0 .. MaxPerIp
    BY <2>4, <2>5, <2>6, <2>8
  <2> QED
    BY <2>7, <2>9
<1>5. LimiterTypeOK'
  BY <1>4 DEF LimiterTypeOK, DropNodes, GiveBack, IndInv, TypeOK
<1>6. EntriesInv'
  <2>1. \A ip \in Ip : Cardinality({c \in C : IpOf[c] = ip}) \in Nat
    BY FiniteParts, <1>0 DEF IndInv
  <2> QED
    BY <2>1 DEF EntriesInv, IndInv, DropNodes, GiveBack
<1> QED
  BY <1>2, <1>4, <1>5, <1>6 DEF SlotsAccounted, PortsUnique, IndInv, DropNodes

(***************************************************************************)
(* Closing descriptors keeps their table well formed and registers nobody. *)
(***************************************************************************)
LEMMA CloseStep ==
  ASSUME TypeOK, NEW F, Close(F)
  PROVE  /\ fds' \in [Fd -> Conn \cup {NULL, LISTENER}]
         /\ epoll' \in [Conn -> {"out", "armed", "reported"}]
         /\ \A c \in Conn : epoll'[c] # "out" => epoll[c] # "out"
  BY TableAssumption DEF TypeOK, Close

\* destroy_secure_connection keeps the life of each secure_comm well typed.
LEMMA DestroyStep ==
  ASSUME TypeOK, NEW c \in Conn, comm' = [comm EXCEPT ![c] = CommAfterDestroy(c)]
  PROVE  comm' \in [Conn -> {"none", "live", "destroyed", "twice"}]
  BY DEF TypeOK, CommAfterDestroy

(***************************************************************************)
(* remove_connection keeps everything that is said about the table.        *)
(***************************************************************************)
LEMMA RemoveStep ==
  ASSUME IndInv, NEW i, RemoveById(i), InFlight' = InFlight
  PROVE  /\ CountMatchesList' /\ SlotsAccounted' /\ PortsUnique'
         /\ activeCount' \in Nat /\ LimiterTypeOK' /\ EntriesInv'
         /\ listed' \subseteq listed /\ idle' \subseteq idle
         /\ UNCHANGED <<stamp, sensorId, leaked, sslFd>>
         /\ fds' \in [Fd -> Conn \cup {NULL, LISTENER}]
         /\ comm' \in [Conn -> {"none", "live", "destroyed", "twice"}]
         /\ epoll' \in [Conn -> {"out", "armed", "reported"}]
         /\ \A c \in Conn : epoll'[c] # "out" => epoll[c] # "out"
<1>1. CASE UNCHANGED <<limiterVars, tableVars, fdVars>>
  <2>1. CountMatchesList' /\ SlotsAccounted' /\ PortsUnique' /\ EntriesInv'
    BY <1>1, QuietStep DEF tableVars
  <2> QED
    BY <1>1, <2>1 DEF IndInv, TypeOK, LimiterTypeOK, limiterVars, tableVars, fdVars
<1>2. ASSUME NEW c \in Conn, c \in listed, DropNodes({c}),
             IF SockFdOf[c] >= 0
             THEN /\ Close({sslFd[c], SockFdOf[c]})
                  /\ comm' = [comm EXCEPT ![c] = CommAfterDestroy(c)]
             ELSE UNCHANGED <<fds, epoll, comm>>,
             UNCHANGED sslFd
      PROVE  /\ CountMatchesList' /\ SlotsAccounted' /\ PortsUnique'
             /\ activeCount' \in Nat /\ LimiterTypeOK' /\ EntriesInv'
             /\ listed' \subseteq listed /\ idle' \subseteq idle
             /\ UNCHANGED <<stamp, sensorId, leaked, sslFd>>
             /\ fds' \in [Fd -> Conn \cup {NULL, LISTENER}]
             /\ comm' \in [Conn -> {"none", "live", "destroyed", "twice"}]
             /\ epoll' \in [Conn -> {"out", "armed", "reported"}]
             /\ \A d \in Conn : epoll'[d] # "out" => epoll[d] # "out"
  <2>1. CountMatchesList' /\ SlotsAccounted' /\ PortsUnique'
        /\ activeCount' \in Nat /\ LimiterTypeOK' /\ EntriesInv'
    BY <1>2, DropStep
  <2>2. listed' \subseteq listed /\ idle' \subseteq idle
        /\ UNCHANGED <<stamp, sensorId, leaked, sslFd>>
    BY <1>2 DEF DropNodes
  <2>3. /\ fds' \in [Fd -> Conn \cup {NULL, LISTENER}]
        /\ comm' \in [Conn -> {"none", "live", "destroyed", "twice"}]
        /\ epoll' \in [Conn -> {"out", "armed", "reported"}]
        /\ \A d \in Conn : epoll'[d] # "out" => epoll[d] # "out"
    <3>1. CASE SockFdOf[c] >= 0
      BY <1>2, <3>1, CloseStep, DestroyStep DEF IndInv
    <3>2. CASE ~(SockFdOf[c] >= 0)
      BY <1>2, <3>2 DEF IndInv, TypeOK
    <3> QED
      BY <3>1, <3>2
  <2> QED
    BY <2>1, <2>2, <2>3
<1> QED
  BY <1>1, <1>2 DEF RemoveById, First, WithId

(***************************************************************************)
(* IndInv is inductive: it holds initially and every action of every       *)
(* thread keeps it.                                                        *)
(***************************************************************************)
LEMMA InitInv == Init => IndInv
<1> SUFFICES ASSUME Init PROVE IndInv
  OBVIOUS
<1>1. TypeOK
  BY TableAssumption, LimiterAssumption
  DEF Init, TypeOK, LimiterInit, LimiterTypeOK, PCs
<1>2. CountMatchesList
  BY FS_EmptySet DEF Init, CountMatchesList
<1>3. SlotsAccounted
  <2>1. SlotHolders = {}
    BY DEF Init, SlotHolders, InFlight
  <2>2. \A ip \in Ip : {c \in SlotHolders : IpOf[c] = ip} = {}
    BY <2>1
  <2> QED
    BY <2>2, FS_EmptySet DEF Init, LimiterInit, SlotsAccounted
<1>4. ServingInv /\ FreshInv /\ PortInv /\ PortsUnique /\ EntriesInv
  BY DEF Init, LimiterInit, EntriesInv, ServingInv, ServingPCs, FreshInv, Fresh, PortInv, PortsUnique
<1> QED
  BY <1>1, <1>2, <1>3, <1>4 DEF IndInv

\* Every step of every thread keeps the invariant.
LEMMA NextInv == IndInv /\ [Next]_vars => IndInv'
<1> SUFFICES ASSUME IndInv, [Next]_vars PROVE IndInv'
  OBVIOUS
<1> USE DEF IndInv, limiterVars, tableVars, fdVars, peerVars, connVars
<1>1. CASE EpollWait
  <2>1. CountMatchesList' /\ SlotsAccounted' /\ PortsUnique' /\ EntriesInv'
    BY <1>1, QuietStep DEF EpollWait, InFlight, TypeOK, Goto
  <2>2. TypeOK'
    BY <1>1, TableAssumption DEF EpollWait, TypeOK, LimiterTypeOK, PCs, Goto, HungUp, ServingInv
  <2>3. ServingInv' /\ FreshInv' /\ PortInv'
    BY <1>1, TableAssumption DEF EpollWait, TypeOK, ServingInv, ServingPCs, FreshInv, Fresh,
       PortInv, PortTaken, Goto, HungUp
  <2> QED
    BY <2>1, <2>2, <2>3
<1>2. CASE BatchDone
  <2>1. CountMatchesList' /\ SlotsAccounted' /\ PortsUnique' /\ EntriesInv'
    BY <1>2, QuietStep DEF BatchDone, InFlight, TypeOK, Goto
  <2>2. TypeOK'
    BY <1>2 DEF BatchDone, TypeOK, LimiterTypeOK, PCs, Goto
  <2>3. ServingInv' /\ FreshInv' /\ PortInv'
    BY <1>2 DEF BatchDone, TypeOK, ServingInv, ServingPCs, FreshInv, Fresh,
       PortInv, PortTaken, Goto
  <2> QED
    BY <2>1, <2>2, <2>3
<1>3. CASE AcceptClient
  <2>1. CountMatchesList' /\ SlotsAccounted' /\ PortsUnique' /\ EntriesInv'
    BY <1>3, QuietStep DEF AcceptClient, InFlight, TypeOK, Goto
  <2>2. TypeOK'
    BY <1>3, TableAssumption DEF AcceptClient, TypeOK, LimiterTypeOK, PCs, Goto
  <2>3. ServingInv' /\ FreshInv' /\ PortInv'
    BY <1>3, TableAssumption DEF AcceptClient, TypeOK, ServingInv, ServingPCs, FreshInv, Fresh,
       PortInv, PortTaken, Goto
  <2> QED
    BY <2>1, <2>2, <2>3
<1>4. CASE AcceptFails
  <2>1. CountMatchesList' /\ SlotsAccounted' /\ PortsUnique' /\ EntriesInv'
    BY <1>4, QuietStep DEF AcceptFails, InFlight, TypeOK, Goto
  <2>2. TypeOK'
    BY <1>4, TableAssumption DEF AcceptFails, TypeOK, LimiterTypeOK, PCs, Goto
  <2>3. ServingInv' /\ FreshInv' /\ PortInv'
    BY <1>4, TableAssumption DEF AcceptFails, TypeOK, ServingInv, ServingPCs, FreshInv, Fresh,
       PortInv, PortTaken, Goto
  <2> QED
    BY <2>1, <2>2, <2>3
<1>5. CASE HandshakeOk
  <2>1. CountMatchesList' /\ SlotsAccounted' /\ PortsUnique' /\ EntriesInv'
    BY <1>5, QuietStep DEF HandshakeOk, InFlight, TypeOK, Goto
  <2>2. TypeOK'
    BY <1>5 DEF HandshakeOk, TypeOK, LimiterTypeOK, PCs, Goto, ServingInv, ServingPCs
  <2>3. ServingInv' /\ FreshInv' /\ PortInv'
    BY <1>5 DEF HandshakeOk, TypeOK, ServingInv, ServingPCs, FreshInv, Fresh,
       PortInv, PortTaken, Goto
  <2> QED
    BY <2>1, <2>2, <2>3
<1>6. CASE HandshakeFails
  <2>1. CountMatchesList' /\ SlotsAccounted' /\ PortsUnique' /\ EntriesInv'
    BY <1>6, QuietStep DEF HandshakeFails, InFlight, TypeOK, Goto
  <2>2. TypeOK'
    BY <1>6, CloseStep DEF HandshakeFails, TypeOK, LimiterTypeOK, PCs, Goto
  <2>3. ServingInv' /\ FreshInv' /\ PortInv'
    BY <1>6, CloseStep DEF HandshakeFails, TypeOK, ServingInv, ServingPCs, FreshInv, Fresh,
       PortInv, PortTaken, Goto
  <2> QED
    BY <2>1, <2>2, <2>3
<1>7. CASE PacketOk
  <2>1. CountMatchesList' /\ SlotsAccounted' /\ PortsUnique' /\ EntriesInv'
    BY <1>7, QuietStep DEF PacketOk, InFlight, TypeOK, Goto
  <2>2. TypeOK'
    BY <1>7 DEF PacketOk, TypeOK, LimiterTypeOK, PCs, Goto
  <2>3. ServingInv' /\ FreshInv' /\ PortInv'
    BY <1>7 DEF PacketOk, TypeOK, ServingInv, ServingPCs, FreshInv, Fresh,
       PortInv, PortTaken, Goto
  <2> QED
    BY <2>1, <2>2, <2>3
<1>8. CASE PacketFails
  <2>1. CountMatchesList' /\ SlotsAccounted' /\ PortsUnique' /\ EntriesInv'
    BY <1>8, QuietStep DEF PacketFails, Abandon, InFlight, TypeOK, Goto
  <2>2. TypeOK'
    BY <1>8, CloseStep, DestroyStep DEF PacketFails, TypeOK, LimiterTypeOK, PCs, Goto, Abandon, ServingInv, ServingPCs
  <2>3. ServingInv' /\ FreshInv' /\ PortInv'
    BY <1>8, CloseStep, DestroyStep DEF PacketFails, TypeOK, ServingInv, ServingPCs, FreshInv, Fresh,
       PortInv, PortTaken, Goto, Abandon
  <2> QED
    BY <2>1, <2>2, <2>3
<1>9. CASE PortRefused
  <2>1. CountMatchesList' /\ SlotsAccounted' /\ PortsUnique' /\ EntriesInv'
    BY <1>9, QuietStep DEF PortRefused, Abandon, InFlight, TypeOK, Goto
  <2>2. TypeOK'
    BY <1>9, CloseStep, DestroyStep DEF PortRefused, TypeOK, LimiterTypeOK, PCs, Goto, Abandon, ServingInv, ServingPCs
  <2>3. ServingInv' /\ FreshInv' /\ PortInv'
    BY <1>9, CloseStep, DestroyStep DEF PortRefused, TypeOK, ServingInv, ServingPCs, FreshInv, Fresh,
       PortInv, PortTaken, Goto, Abandon
  <2> QED
    BY <2>1, <2>2, <2>3
<1>10. CASE PortFree
  <2>1. CountMatchesList' /\ SlotsAccounted' /\ PortsUnique' /\ EntriesInv'
    BY <1>10, QuietStep DEF PortFree, InFlight, TypeOK, Goto
  <2>2. TypeOK'
    BY <1>10 DEF PortFree, TypeOK, LimiterTypeOK, PCs, Goto
  <2>3. ServingInv' /\ FreshInv' /\ PortInv'
    BY <1>10 DEF PortFree, TypeOK, ServingInv, ServingPCs, FreshInv, Fresh,
       PortInv, PortTaken, Goto
  <2> QED
    BY <2>1, <2>2, <2>3
<1>11. CASE ReadId
  <2>1. CountMatchesList' /\ SlotsAccounted' /\ PortsUnique' /\ EntriesInv'
    BY <1>11, QuietStep DEF ReadId, InFlight, TypeOK, Goto
  <2>2. TypeOK'
    BY <1>11 DEF ReadId, TypeOK, LimiterTypeOK, PCs, Goto
  <2>3. ServingInv' /\ FreshInv' /\ PortInv'
    BY <1>11 DEF ReadId, TypeOK, ServingInv, ServingPCs, FreshInv, Fresh,
       PortInv, PortTaken, Goto
  <2> QED
    BY <2>1, <2>2, <2>3
<1>12. CASE AdmitSlot
  <2>1. cc \in Conn /\ IpOf[cc] \in Ip /\ cc \notin SlotHolders /\ InFlight = {}
    BY <1>12, TableAssumption DEF AdmitSlot, ServingInv, ServingPCs, FreshInv, Fresh,
       SlotHolders, InFlight
  <2>2. SlotHolders' = SlotHolders \cup {cc}
    BY <1>12 DEF AdmitSlot, SlotHolders, InFlight, Goto
  <2>3. SlotsAccounted' /\ LimiterTypeOK'
    <3>0. known' \in SUBSET Ip /\ DOMAIN count' = Ip
      BY <1>12, <2>1 DEF AdmitSlot, TakeSlot, TypeOK, LimiterTypeOK
    <3>1. ASSUME NEW ip \in Ip
          PROVE  /\ count'[ip] = Cardinality({c \in SlotHolders' : IpOf[c] = ip})
                 /\ count'[ip] \in 0 .. MaxPerIp
      <4> DEFINE H == {c \in SlotHolders : IpOf[c] = ip}
                 G == {c \in SlotHolders' : IpOf[c] = ip}
      <4>1. /\ IsFiniteSet(H) /\ Cardinality(H) \in Nat
            /\ count[ip] = Cardinality(H) /\ count[ip] \in 0 .. MaxPerIp
        BY FiniteParts DEF SlotsAccounted, TypeOK, LimiterTypeOK
      <4>2. CASE IpOf[cc] = ip
        <5>1. G = H \cup {cc} /\ cc \notin H
          BY <2>1, <2>2, <4>2
        <5>2. Cardinality(G) = Cardinality(H) + 1
          BY <4>1, <5>1, FS_AddElement
        <5>3. count'[ip] = count[ip] + 1
          BY <1>12, <4>2 DEF AdmitSlot, TakeSlot, TypeOK, LimiterTypeOK
        <5>4. count[ip] < MaxPerIp
          BY <1>12, <4>2, LimiterAssumption DEF AdmitSlot, TakeSlot, HasRoom, EntriesInv,
             TypeOK, LimiterTypeOK
        <5> HIDE DEF G, H
        <5>5. count'[ip] = Cardinality(G) /\ count'[ip] \in 0 .. MaxPerIp
          BY <4>1, <5>2, <5>3, <5>4, LimiterAssumption
        <5> QED
          BY <5>5 DEF G
      <4>3. CASE IpOf[cc] # ip
        <5>1. G = H
          BY <2>2, <4>3
        <5>2. count'[ip] = count[ip]
          BY <1>12, <4>3 DEF AdmitSlot, TakeSlot, TypeOK, LimiterTypeOK
        <5> QED
          BY <4>1, <5>1, <5>2
      <4> QED
        BY <4>2, <4>3
    <3>2. count' \in [Ip -> 0 .. MaxPerIp]
      BY <1>12, <3>1 DEF AdmitSlot, TakeSlot, TypeOK, LimiterTypeOK
    <3> QED
      BY <3>0, <3>1, <3>2 DEF SlotsAccounted, LimiterTypeOK
  <2>4. TypeOK'
    BY <1>12, <2>3 DEF AdmitSlot, TypeOK, PCs, Goto
  <2>5. CountMatchesList' /\ PortsUnique' /\ EntriesInv'
    BY <1>12, <2>1 DEF AdmitSlot, TakeSlot, CountMatchesList, PortsUnique, EntriesInv,
       TypeOK, LimiterTypeOK
  <2>6. ServingInv' /\ FreshInv' /\ PortInv'
    BY <1>12 DEF AdmitSlot, TypeOK, ServingInv, ServingPCs, FreshInv, Fresh,
       PortInv, PortTaken, Goto
  <2> QED
    BY <2>3, <2>4, <2>5, <2>6
<1>13. CASE LimiterRefuses
  <2>1. CountMatchesList' /\ SlotsAccounted' /\ PortsUnique' /\ EntriesInv'
    BY <1>13, QuietStep DEF LimiterRefuses, InFlight, TypeOK, Goto
  <2>2. TypeOK'
    BY <1>13 DEF LimiterRefuses, TypeOK, LimiterTypeOK, PCs, Goto
  <2>3. ServingInv' /\ FreshInv' /\ PortInv'
    BY <1>13 DEF LimiterRefuses, TypeOK, ServingInv, ServingPCs, FreshInv, Fresh,
       PortInv, PortTaken, Goto
  <2> QED
    BY <2>1, <2>2, <2>3
<1>14. CASE Push
  <2>1. /\ cc \in Conn /\ cc \notin listed /\ stamp[cc] = 0 /\ cc \notin leaked
        /\ InFlight = {cc} /\ ~PortTaken(PortOf[cc])
    BY <1>14 DEF Push, ServingInv, ServingPCs, FreshInv, Fresh, InFlight, PortInv
  <2>2. CountMatchesList' /\ activeCount' \in Nat
    BY <1>14, <2>1, FiniteParts, FS_AddElement DEF Push, CountMatchesList, TypeOK
  <2>3. SlotsAccounted'
    <3>1. SlotHolders' = SlotHolders
      BY <1>14, <2>1 DEF Push, SlotHolders, InFlight, Goto
    <3> QED
      BY <1>14, <3>1 DEF Push, SlotsAccounted
  <2>4. PortsUnique' /\ EntriesInv'
    BY <1>14, <2>1 DEF Push, PortsUnique, PortTaken, EntriesInv
  <2>5. stamp'[cc] > 0 /\ stamp' \in [Conn -> Nat]
    <3>1. Cardinality({c \in Conn : stamp[c] > 0}) \in Nat
      BY FiniteParts
    <3> QED
      BY <1>14, <2>1, <3>1 DEF Push, TypeOK
  <2>6. TypeOK'
    BY <1>14, <2>1, <2>2, <2>5 DEF Push, TypeOK, LimiterTypeOK, PCs, Goto
  <2>7. ServingInv' /\ FreshInv' /\ PortInv'
    BY <1>14, <2>1, <2>5 DEF Push, TypeOK, ServingInv, ServingPCs, FreshInv, Fresh,
       PortInv, Goto
  <2> QED
    BY <2>2, <2>3, <2>4, <2>6, <2>7
<1>15. CASE PushNoMemory
  <2>1. cc \in Conn /\ stamp[cc] = 0 /\ InFlight = {cc}
    BY <1>15 DEF PushNoMemory, ServingInv, ServingPCs, FreshInv, Fresh, InFlight
  <2>2. SlotHolders' = SlotHolders
    BY <1>15, <2>1 DEF PushNoMemory, SlotHolders, InFlight, Goto
  <2>3. CountMatchesList' /\ SlotsAccounted' /\ PortsUnique' /\ EntriesInv'
    BY <1>15, <2>2 DEF PushNoMemory, CountMatchesList, SlotsAccounted, PortsUnique,
       EntriesInv
  <2>4. TypeOK'
    BY <1>15, <2>1 DEF PushNoMemory, TypeOK, LimiterTypeOK, PCs, Goto
  <2>5. ServingInv' /\ FreshInv' /\ PortInv'
    BY <1>15, <2>1 DEF PushNoMemory, TypeOK, ServingInv, ServingPCs, FreshInv, Fresh,
       PortInv, Goto
  <2> QED
    BY <2>3, <2>4, <2>5
<1>16. CASE RegisterOk
  <2>1. CountMatchesList' /\ SlotsAccounted' /\ PortsUnique' /\ EntriesInv'
    BY <1>16, QuietStep DEF RegisterOk, InFlight, TypeOK, Goto
  <2>2. TypeOK'
    BY <1>16 DEF RegisterOk, TypeOK, LimiterTypeOK, PCs, Goto, ServingInv, ServingPCs
  <2>3. ServingInv' /\ FreshInv' /\ PortInv'
    BY <1>16 DEF RegisterOk, TypeOK, ServingInv, ServingPCs, FreshInv, Fresh,
       PortInv, PortTaken, Goto
  <2> QED
    BY <2>1, <2>2, <2>3
<1>17. CASE RegisterFails
  <2>1. CountMatchesList' /\ SlotsAccounted' /\ PortsUnique' /\ EntriesInv'
    BY <1>17, QuietStep DEF RegisterFails, InFlight, TypeOK, Goto
  <2>2. TypeOK'
    BY <1>17 DEF RegisterFails, TypeOK, LimiterTypeOK, PCs, Goto
  <2>3. ServingInv' /\ FreshInv' /\ PortInv'
    BY <1>17 DEF RegisterFails, TypeOK, ServingInv, ServingPCs, FreshInv, Fresh,
       PortInv, PortTaken, Goto
  <2> QED
    BY <2>1, <2>2, <2>3
<1>18. CASE UndoRemove
  <2>1. InFlight' = InFlight /\ RemoveById(id)
    BY <1>18 DEF UndoRemove, InFlight, Goto
  <2>2. TypeOK'
    BY <1>18, <2>1, RemoveStep DEF UndoRemove, TypeOK, LimiterTypeOK, PCs, Goto
  <2>3. ServingInv' /\ FreshInv' /\ PortInv'
    BY <1>18, <2>1, RemoveStep DEF UndoRemove, TypeOK, ServingInv, ServingPCs,
       FreshInv, Fresh, PortInv, PortTaken, Goto
  <2> QED
    BY <2>1, <2>2, <2>3, RemoveStep
<1>19. CASE UndoClose
  <2>1. CountMatchesList' /\ SlotsAccounted' /\ PortsUnique' /\ EntriesInv'
    BY <1>19, QuietStep DEF UndoClose, Abandon, InFlight, TypeOK, Goto
  <2>2. TypeOK'
    BY <1>19, CloseStep, DestroyStep DEF UndoClose, TypeOK, LimiterTypeOK, PCs, Goto, Abandon, ServingInv, ServingPCs
  <2>3. ServingInv' /\ FreshInv' /\ PortInv'
    BY <1>19, CloseStep, DestroyStep DEF UndoClose, TypeOK, ServingInv, ServingPCs, FreshInv, Fresh,
       PortInv, PortTaken, Goto, Abandon
  <2> QED
    BY <2>1, <2>2, <2>3
<1>20. CASE FindNone
  <2>1. CountMatchesList' /\ SlotsAccounted' /\ PortsUnique' /\ EntriesInv'
    BY <1>20, QuietStep DEF FindNone, InFlight, TypeOK, Goto
  <2>2. TypeOK'
    BY <1>20 DEF FindNone, TypeOK, LimiterTypeOK, PCs, Goto
  <2>3. ServingInv' /\ FreshInv' /\ PortInv'
    BY <1>20 DEF FindNone, TypeOK, ServingInv, ServingPCs, FreshInv, Fresh,
       PortInv, PortTaken, Goto
  <2> QED
    BY <2>1, <2>2, <2>3
<1>21. CASE FindNode
  <2>1. CountMatchesList' /\ SlotsAccounted' /\ PortsUnique' /\ EntriesInv'
    BY <1>21, QuietStep DEF FindNode, InFlight, TypeOK, Goto
  <2>2. TypeOK'
    BY <1>21, TableAssumption DEF FindNode, TypeOK, LimiterTypeOK, PCs, Goto
  <2>3. ServingInv' /\ FreshInv' /\ PortInv'
    BY <1>21, TableAssumption DEF FindNode, TypeOK, ServingInv, ServingPCs, FreshInv, Fresh,
       PortInv, PortTaken, Goto
  <2> QED
    BY <2>1, <2>2, <2>3
<1>22. CASE PeekGone
  <2>1. CountMatchesList' /\ SlotsAccounted' /\ PortsUnique' /\ EntriesInv'
    BY <1>22, QuietStep DEF PeekGone, InFlight, TypeOK, Goto
  <2>2. TypeOK'
    BY <1>22 DEF PeekGone, TypeOK, LimiterTypeOK, PCs, Goto
  <2>3. ServingInv' /\ FreshInv' /\ PortInv'
    BY <1>22 DEF PeekGone, TypeOK, ServingInv, ServingPCs, FreshInv, Fresh,
       PortInv, PortTaken, Goto
  <2> QED
    BY <2>1, <2>2, <2>3
<1>23. CASE DropEvent
  <2>1. CountMatchesList' /\ SlotsAccounted' /\ PortsUnique' /\ EntriesInv'
    BY <1>23, QuietStep DEF DropEvent, InFlight, TypeOK, Goto
  <2>2. TypeOK'
    BY <1>23 DEF DropEvent, TypeOK, LimiterTypeOK, PCs, Goto, IdsThrough, ServingInv
  <2>3. ServingInv' /\ FreshInv' /\ PortInv'
    BY <1>23 DEF DropEvent, TypeOK, ServingInv, ServingPCs, FreshInv, Fresh,
       PortInv, PortTaken, Goto
  <2> QED
    BY <2>1, <2>2, <2>3
<1>24. CASE DropRemove
  <2>1. InFlight' = InFlight /\ RemoveById(id)
    BY <1>24 DEF DropRemove, InFlight, Goto
  <2>2. TypeOK'
    BY <1>24, <2>1, RemoveStep DEF DropRemove, TypeOK, LimiterTypeOK, PCs, Goto
  <2>3. ServingInv' /\ FreshInv' /\ PortInv'
    BY <1>24, <2>1, RemoveStep DEF DropRemove, TypeOK, ServingInv, ServingPCs,
       FreshInv, Fresh, PortInv, PortTaken, Goto
  <2> QED
    BY <2>1, <2>2, <2>3, RemoveStep
<1>25. CASE TimeoutSweep
  <2> DEFINE C == idle \cap listed
  <2>1. C \in SUBSET listed /\ DropNodes(C) /\ InFlight' = InFlight
    BY <1>25 DEF TimeoutSweep, InFlight
  <2> HIDE DEF C
  <2>2. /\ CountMatchesList' /\ SlotsAccounted' /\ PortsUnique'
        /\ activeCount' \in Nat /\ LimiterTypeOK' /\ EntriesInv'
    BY <2>1, DropStep
  <2>3. TypeOK'
    BY <1>25, <2>1, <2>2, CloseStep DEF TimeoutSweep, DropNodes, TypeOK
  <2>4. ServingInv' /\ FreshInv' /\ PortInv'
    BY <1>25, <2>1, CloseStep DEF TimeoutSweep, DropNodes, TypeOK, ServingInv, ServingPCs,
       FreshInv, Fresh, PortInv, PortTaken
  <2> QED
    BY <2>2, <2>3, <2>4
<1>26. ASSUME NEW i, Terminate(i) PROVE IndInv'
  <2>1. InFlight' = InFlight /\ RemoveById(i)
    BY <1>26 DEF Terminate, InFlight, Goto
  <2>2. TypeOK'
    BY <1>26, <2>1, RemoveStep DEF Terminate, TypeOK, LimiterTypeOK, PCs, Goto
  <2>3. ServingInv' /\ FreshInv' /\ PortInv'
    BY <1>26, <2>1, RemoveStep DEF Terminate, TypeOK, ServingInv, ServingPCs,
       FreshInv, Fresh, PortInv, PortTaken, Goto
  <2> QED
    BY <2>1, <2>2, <2>3, RemoveStep
<1>27. ASSUME NEW c \in Conn, Connect(c) PROVE IndInv'
  <2>1. CountMatchesList' /\ SlotsAccounted' /\ PortsUnique' /\ EntriesInv'
    BY <1>27, QuietStep DEF Connect, InFlight, TypeOK, Goto
  <2>2. TypeOK'
    BY <1>27 DEF Connect, TypeOK, LimiterTypeOK, PCs, Goto
  <2>3. ServingInv' /\ FreshInv' /\ PortInv'
    BY <1>27 DEF Connect, TypeOK, ServingInv, ServingPCs, FreshInv, Fresh,
       PortInv, PortTaken, Goto
  <2> QED
    BY <2>1, <2>2, <2>3
<1>28. ASSUME NEW c \in Conn, Shut(c) PROVE IndInv'
  <2>1. CountMatchesList' /\ SlotsAccounted' /\ PortsUnique' /\ EntriesInv'
    BY <1>28, QuietStep DEF Shut, InFlight, TypeOK, Goto
  <2>2. TypeOK'
    BY <1>28 DEF Shut, TypeOK, LimiterTypeOK, PCs, Goto
  <2>3. ServingInv' /\ FreshInv' /\ PortInv'
    BY <1>28 DEF Shut, TypeOK, ServingInv, ServingPCs, FreshInv, Fresh,
       PortInv, PortTaken, Goto
  <2> QED
    BY <2>1, <2>2, <2>3
<1>29. ASSUME NEW c \in Conn, Age(c) PROVE IndInv'
  <2>1. CountMatchesList' /\ SlotsAccounted' /\ PortsUnique' /\ EntriesInv'
    BY <1>29, QuietStep DEF Age, InFlight, TypeOK, Goto
  <2>2. TypeOK'
    BY <1>29 DEF Age, TypeOK, LimiterTypeOK, PCs, Goto
  <2>3. ServingInv' /\ FreshInv' /\ PortInv'
    BY <1>29 DEF Age, TypeOK, ServingInv, ServingPCs, FreshInv, Fresh,
       PortInv, PortTaken, Goto
  <2> QED
    BY <2>1, <2>2, <2>3
<1>30. ASSUME NEW c \in Conn, Refresh(c) PROVE IndInv'
  <2>1. CountMatchesList' /\ SlotsAccounted' /\ PortsUnique' /\ EntriesInv'
    BY <1>30, QuietStep DEF Refresh, InFlight, TypeOK, Goto
  <2>2. TypeOK'
    BY <1>30 DEF Refresh, TypeOK, LimiterTypeOK, PCs, Goto
  <2>3. ServingInv' /\ FreshInv' /\ PortInv'
    BY <1>30 DEF Refresh, TypeOK, ServingInv, ServingPCs, FreshInv, Fresh,
       PortInv, PortTaken, Goto
  <2> QED
    BY <2>1, <2>2, <2>3
<1>31. CASE UNCHANGED vars
  BY <1>31 DEF vars, TypeOK, LimiterTypeOK, CountMatchesList, SlotsAccounted, SlotHolders,
     InFlight, PortsUnique, EntriesInv, ServingInv, FreshInv, Fresh, PortInv, PortTaken
<1> QED
  BY <1>1, <1>2, <1>3, <1>4, <1>5, <1>6, <1>7, <1>8, <1>9, <1>10, <1>11,
     <1>12, <1>13, <1>14, <1>15, <1>16, <1>17, <1>18, <1>19, <1>20, <1>21,
     <1>22, <1>23, <1>24, <1>25, <1>26, <1>27, <1>28, <1>29, <1>30, <1>31
  DEF Next, NewConnectionStep, ExistingConnectionStep

(***************************************************************************)
(* IndInv holds in every reachable state: the connection thread's view of  *)
(* the client it serves (ServingInv, FreshInv), the freedom of the port it *)
(* has checked (PortInv) and the fate of every slot (SlotHolders) survive  *)
(* each step of the connection, timeout and command threads.               *)
(***************************************************************************)
THEOREM Invariance == Spec => []IndInv
<1>1. Init => IndInv
  BY InitInv
<1>2. IndInv /\ [Next]_vars => IndInv'
  BY NextInv
<1> QED
  BY <1>1, <1>2, PTL DEF Spec

(***************************************************************************)
(* Every variable keeps its type; in particular no limiter count passes    *)
(* MaxPerIp and active_count does not go below zero.                       *)
(***************************************************************************)
THEOREM TypeCorrect == Spec => []TypeOK
  BY Invariance, PTL DEF IndInv

(***************************************************************************)
(* active_count is the length of the list whenever the mutex is free.      *)
(***************************************************************************)
THEOREM CountCorrect == Spec => []CountMatchesList
  BY Invariance, PTL DEF IndInv

(***************************************************************************)
(* The limiter's counts are exact: no path loses or duplicates a slot      *)
(* except the failed allocation of a node.                                 *)
(***************************************************************************)
THEOREM SlotsCorrect == Spec => []SlotsAccounted
  BY Invariance, PTL DEF IndInv

(***************************************************************************)
(* No two listed sensors report the same port.                             *)
(***************************************************************************)
THEOREM PortsCorrect == Spec => []PortsUnique
  BY Invariance, PTL DEF IndInv

(***************************************************************************)
(* An address never has more than MaxPerIp sensors on the list, and fewer  *)
(* while one more is about to be pushed.                                   *)
(***************************************************************************)
LEMMA CapFromSlots ==
  ASSUME IndInv, NEW ip \in Ip
  PROVE  /\ Cardinality(ListedFrom(ip)) <= MaxPerIp
         /\ pc = "push" /\ IpOf[cc] = ip => Cardinality(ListedFrom(ip)) < MaxPerIp
<1> DEFINE H == {c \in SlotHolders : IpOf[c] = ip}
           L == ListedFrom(ip)
<1>1. IsFiniteSet(H) /\ IsFiniteSet(L) /\ Cardinality(H) \in Nat /\ Cardinality(L) \in Nat
  BY FiniteParts DEF IndInv, ListedFrom, TypeOK
<1>2. L \subseteq H
  BY DEF ListedFrom, SlotHolders
<1>3. Cardinality(H) <= MaxPerIp
  BY DEF IndInv, SlotsAccounted, TypeOK, LimiterTypeOK
<1>4. Cardinality(L) <= Cardinality(H)
  BY <1>1, <1>2, FS_Subset
<1>5. ASSUME pc = "push", IpOf[cc] = ip PROVE Cardinality(L) < Cardinality(H)
  <2>1. cc \in H /\ cc \notin L
    BY <1>5 DEF SlotHolders, InFlight, ListedFrom, IndInv, FreshInv, Fresh
  <2>2. L # H
    BY <2>1
  <2>3. Cardinality(L) # Cardinality(H)
    BY <1>1, <1>2, <2>2, FS_Subset
  <2> HIDE DEF H, L
  <2> QED
    BY <1>1, <1>4, <2>3
<1> HIDE DEF H
<1> QED
  BY <1>1, <1>3, <1>4, <1>5, LimiterAssumption

\* MAX_CONNECTIONS_PER_IP bounds the listed sensors of each address, although
\* the limit is checked before the sensor is pushed and under another mutex.
THEOREM CapCorrect == Spec => []PerIpCap
<1>1. IndInv => PerIpCap
  BY CapFromSlots DEF PerIpCap
<1> QED
  BY <1>1, Invariance, PTL

(***************************************************************************)
(* The table implements Admission: a push is Open, a removal by any thread *)
(* is CloseAll, and everything else leaves the abstract table alone.       *)
(***************************************************************************)
LEMMA RefineInit == Init => Table!Init
  BY DEF Init, Table!Init, Freed

\* Every step is one of Admission or leaves the abstract table alone.
LEMMA RefineNext == IndInv /\ [Next]_vars => [Table!Next]_(Table!sessionVars)
<1> SUFFICES ASSUME IndInv, [Next]_vars PROVE [Table!Next]_(Table!sessionVars)
  OBVIOUS
<1> USE DEF limiterVars, tableVars, fdVars, peerVars, connVars
<1>1. ASSUME NEW C \in SUBSET listed, DropNodes(C)
      PROVE  [Table!Next]_(Table!sessionVars)
  <2>1. listed' = listed \ C /\ Freed' = Freed \cup C
    BY <1>1 DEF DropNodes, Freed, IndInv, FreshInv, TypeOK
  <2>2. CASE C = {}
    BY <2>1, <2>2 DEF Table!sessionVars
  <2>3. CASE C # {}
    BY <2>1, <2>3 DEF Table!Next, Table!CloseAll
  <2> QED
    BY <2>2, <2>3
<1>2. ASSUME UNCHANGED <<listed, stamp>>
      PROVE  [Table!Next]_(Table!sessionVars)
  BY <1>2 DEF Table!sessionVars, Freed
<1>3. ASSUME NEW i, RemoveById(i)
      PROVE  [Table!Next]_(Table!sessionVars)
  BY <1>1, <1>2, <1>3 DEF RemoveById, First, WithId
<1>4. CASE Push
  <2>1. /\ cc \in Conn /\ cc \notin listed /\ stamp[cc] = 0 /\ ~PortTaken(PortOf[cc])
        /\ IpOf[cc] \in Ip
    BY <1>4, TableAssumption
    DEF Push, IndInv, ServingInv, ServingPCs, FreshInv, Fresh, PortInv
  <2>2. stamp'[cc] > 0 /\ \A c \in Conn \ {cc} : stamp'[c] = stamp[c]
    <3>1. Cardinality({c \in Conn : stamp[c] > 0}) \in Nat
      BY FiniteParts DEF IndInv
    <3> QED
      BY <1>4, <2>1, <3>1 DEF Push, IndInv, TypeOK
  <2>3. listed' = listed \cup {cc} /\ Freed' = Freed
    BY <1>4, <2>1, <2>2 DEF Push, Freed
  <2>4. Cardinality({s \in listed : IpOf[s] = IpOf[cc]}) < MaxPerIp
    BY <1>4, <2>1, CapFromSlots DEF Push, ListedFrom
  <2>5. Table!Cardinality({s \in listed : IpOf[s] = IpOf[cc]})
          = Cardinality({s \in listed : IpOf[s] = IpOf[cc]})
    BY Zenon DEF Table!Cardinality, Cardinality
  <2>6. Table!Open(cc)
    BY <2>1, <2>3, <2>4, <2>5 DEF Table!Open, Freed, PortTaken
  <2> QED
    BY <2>1, <2>6 DEF Table!Next
<1>5. CASE UndoRemove \/ DropRemove
  BY <1>3, <1>5 DEF UndoRemove, DropRemove
<1>6. ASSUME NEW i, Terminate(i) PROVE [Table!Next]_(Table!sessionVars)
  BY <1>3, <1>6 DEF Terminate
<1>7. CASE TimeoutSweep
  BY <1>1, <1>7 DEF TimeoutSweep
<1>8. CASE \/ EpollWait \/ BatchDone \/ AcceptClient \/ AcceptFails \/ HandshakeOk
           \/ HandshakeFails \/ PacketOk \/ PacketFails \/ PortRefused \/ PortFree
           \/ ReadId \/ AdmitSlot \/ LimiterRefuses \/ PushNoMemory \/ RegisterOk
           \/ RegisterFails \/ UndoClose \/ FindNone \/ FindNode \/ PeekGone
           \/ DropEvent
  BY <1>2, <1>8
  DEF EpollWait, BatchDone, AcceptClient, AcceptFails, HandshakeOk, HandshakeFails,
      PacketOk, PacketFails, PortRefused, PortFree, ReadId, AdmitSlot, LimiterRefuses,
      PushNoMemory, RegisterOk, RegisterFails, UndoClose, FindNone, FindNode,
      PeekGone, DropEvent, Abandon
<1>9. ASSUME NEW c \in Conn, Connect(c) \/ Shut(c) \/ Age(c) \/ Refresh(c)
      PROVE  [Table!Next]_(Table!sessionVars)
  BY <1>2, <1>9 DEF Connect, Shut, Age, Refresh
<1>10. CASE UNCHANGED vars
  BY <1>2, <1>10 DEF vars
<1> QED
  BY <1>4, <1>5, <1>6, <1>7, <1>8, <1>9, <1>10
  DEF Next, NewConnectionStep, ExistingConnectionStep

\* Seen from outside, the table admits a sensor once, within the cap of its
\* address and on a port nobody holds, and one that has left never comes back.
THEOREM Refinement == Spec => TableSpec
<1>1. Init => Table!Init
  BY RefineInit
<1>2. IndInv /\ [Next]_vars => [Table!Next]_(Table!sessionVars)
  BY RefineNext
<1> QED
  BY <1>1, <1>2, Invariance, PTL DEF Spec, TableSpec, Table!Spec

\* A freed node stays freed, and is not on the list for anybody to free again.
FreedForGood == Freed \subseteq Freed' /\ listed' \cap Freed = {}

\* No node is freed twice, whichever of the connection, timeout and command
\* threads comes to it first: a consequence of the abstract table, in which one
\* that has left never comes back.
THEOREM FreedOnce == Spec => [][FreedForGood]_vars
<1>1. IndInv /\ [Next]_vars => [FreedForGood]_vars
  <2> SUFFICES ASSUME IndInv, [Next]_vars PROVE FreedForGood
    OBVIOUS
  <2>0. listed \cap Freed = {}
    BY DEF Freed
  <2>1. CASE UNCHANGED Table!sessionVars
    BY <2>0, <2>1 DEF Table!sessionVars, FreedForGood
  <2>2. ASSUME NEW c, Table!Open(c) PROVE FreedForGood
    BY <2>0, <2>2 DEF Table!Open, FreedForGood
  <2>3. ASSUME NEW C, Table!CloseAll(C) PROVE FreedForGood
    BY <2>0, <2>3 DEF Table!CloseAll, FreedForGood
  <2> QED BY <2>1, <2>2, <2>3, RefineNext DEF Table!Next
<1> QED BY <1>1, Invariance, PTL DEF Spec
------------------------------------------------------------------------------
(* The list as `listed' and `stamp' represent it. *)

\* The nodes that were ever on the list.
Pushed == {c \in Conn : stamp[c] > 0}

\* No two nodes share a stamp, and the next one is greater than all of them.
StampInv ==
  \A c \in Pushed : /\ stamp[c] <= Cardinality(Pushed)
                    /\ \A d \in Pushed : stamp[d] = stamp[c] => d = c

\* Only create_node gives a node its place.
LEMMA StampFrame == [Next]_vars => Push \/ UNCHANGED stamp
<1> USE DEF tableVars
<1>1. \A i : RemoveById(i) => UNCHANGED stamp
  BY DEF RemoveById, DropNodes
<1>2. CASE UndoRemove \/ DropRemove \/ TimeoutSweep
  BY <1>1, <1>2 DEF UndoRemove, DropRemove, TimeoutSweep, DropNodes
<1>3. ASSUME NEW i, Terminate(i) PROVE UNCHANGED stamp
  BY <1>1, <1>3 DEF Terminate
<1>4. CASE \/ EpollWait \/ BatchDone \/ AcceptClient \/ AcceptFails \/ HandshakeOk
           \/ HandshakeFails \/ PacketOk \/ PacketFails \/ PortRefused \/ PortFree
           \/ ReadId \/ AdmitSlot \/ LimiterRefuses \/ PushNoMemory \/ RegisterOk
           \/ RegisterFails \/ UndoClose \/ FindNone \/ FindNode \/ PeekGone
           \/ DropEvent
  BY <1>4
  DEF EpollWait, BatchDone, AcceptClient, AcceptFails, HandshakeOk, HandshakeFails,
      PacketOk, PacketFails, PortRefused, PortFree, ReadId, AdmitSlot, LimiterRefuses,
      PushNoMemory, RegisterOk, RegisterFails, UndoClose, FindNone, FindNode,
      PeekGone, DropEvent, Abandon
<1>5. ASSUME NEW c, Connect(c) \/ Shut(c) \/ Age(c) \/ Refresh(c)
      PROVE  UNCHANGED stamp
  BY <1>5 DEF Connect, Shut, Age, Refresh
<1> QED
  BY <1>2, <1>3, <1>4, <1>5 DEF Next, NewConnectionStep, ExistingConnectionStep, vars

\* A pushed node goes before every other one.
LEMMA PushStamp ==
  ASSUME IndInv, StampInv, Push
  PROVE  /\ cc \in Conn /\ stamp[cc] = 0 /\ Pushed' = Pushed \cup {cc}
         /\ \A c \in Pushed : c # cc /\ stamp'[c] = stamp[c] /\ stamp[c] < stamp'[cc]
         /\ StampInv'
<1> DEFINE n == Cardinality(Pushed)
<1>1. cc \in Conn /\ stamp[cc] = 0 /\ stamp \in [Conn -> Nat]
  BY DEF Push, IndInv, TypeOK, ServingInv, ServingPCs, FreshInv, Fresh
<1>2. n \in Nat /\ IsFiniteSet(Pushed) /\ cc \notin Pushed
  BY <1>1, FiniteParts DEF IndInv, Pushed
<1>3. stamp' = [stamp EXCEPT ![cc] = n + 1]
  BY DEF Push, Pushed
<1> HIDE DEF n
<1>4. stamp'[cc] = n + 1 /\ \A c \in Conn \ {cc} : stamp'[c] = stamp[c]
  BY <1>1, <1>3
<1>5. Pushed' = Pushed \cup {cc}
  BY <1>1, <1>2, <1>4 DEF Pushed
<1>6. Cardinality(Pushed') = n + 1
  BY <1>2, <1>5, FS_AddElement DEF n
<1>7. \A c \in Pushed : c # cc /\ stamp'[c] = stamp[c] /\ stamp[c] <= n /\ stamp[c] \in Nat
  BY <1>1, <1>2, <1>4 DEF Pushed, StampInv, n
<1>8. StampInv'
  <2>1. ASSUME NEW c \in Pushed' PROVE stamp'[c] <= n + 1
    BY <1>2, <1>4, <1>5, <1>7
  <2>2. ASSUME NEW c \in Pushed', NEW d \in Pushed', stamp'[d] = stamp'[c]
        PROVE  d = c
    <3>1. CASE c = cc \/ d = cc
      BY <1>2, <1>4, <1>5, <1>7, <2>2, <3>1
    <3>2. CASE c # cc /\ d # cc
      BY <1>5, <1>7, <2>2, <3>2 DEF StampInv
    <3> QED BY <3>1, <3>2
  <2> QED BY <1>6, <2>1, <2>2 DEF StampInv
<1> QED BY <1>1, <1>2, <1>4, <1>5, <1>7, <1>8

\* Stamps stay distinct under every step.
LEMMA StampStep == IndInv /\ StampInv /\ [Next]_vars => StampInv'
<1>1. UNCHANGED stamp /\ StampInv => StampInv'
  BY DEF StampInv, Pushed
<1> QED BY <1>1, StampFrame, PushStamp

\* Initially nothing was pushed; stamps are distinct in every reachable state.
LEMMA StampsDistinct == Spec => []StampInv
<1>1. Init => StampInv
  BY DEF Init, StampInv, Pushed
<1> QED BY <1>1, StampStep, Invariance, PTL DEF Spec

\* A walk over nodes meets one of them first.
LEMMA FirstExists ==
  ASSUME stamp \in [Conn -> Nat], NEW S \in SUBSET Conn, S # {}
  PROVE  \E c \in S : First(c, S)
<1> DEFINE From(c) == {d \in S : stamp[c] <= stamp[d]}
           B == {From(c) : c \in S}
<1>0. IsFiniteSet(S)
  BY TableAssumption, FS_Subset
<1>1. IsWellFoundedOn(StrictSubsetOrdering(S), SUBSET S)
  BY <1>0, FS_StrictSubsetOrderingWellFounded, FS_FiniteSubsetsOfFinite
<1>2. PICK T \in B : \A U \in B : ~(<<U, T>> \in StrictSubsetOrdering(S))
  <2>0. \A c \in S : From(c) \in SUBSET S /\ From(c) \in B
    OBVIOUS
  <2>1. B \in SUBSET (SUBSET S) /\ B # {}
    <3>1. \A T \in B : T \in SUBSET S
      BY <2>0
    <3>2. \E c : c \in S
      OBVIOUS
    <3> HIDE DEF B, From
    <3> QED BY <2>0, <3>1, <3>2
  <2> HIDE DEF B
  <2> QED BY <1>1, <2>1, WFMin
<1>3. PICK c \in S : T = From(c)
  OBVIOUS
<1>4. ASSUME NEW d \in S, ~(stamp[d] <= stamp[c]) PROVE FALSE
  <2>1. stamp[c] \in Nat /\ \A e \in S : stamp[e] \in Nat
    OBVIOUS
  <2>2. From(d) \subseteq From(c) /\ c \in From(c) /\ c \notin From(d)
    BY <1>4, <2>1
  <2>3. <<From(d), From(c)>> \in StrictSubsetOrdering(S)
    BY <2>2 DEF StrictSubsetOrdering
  <2> QED BY <1>2, <1>3, <2>3
<1> QED BY <1>4 DEF First

\* A walk from the head that looks for a node of S, stops at one node and at
\* no other, if there is one.
WalksMeetOne ==
  \A S \in SUBSET listed :
    /\ S # {} => \E c \in S : First(c, S)
    /\ \A c, d \in S : First(c, S) /\ First(d, S) => c = d

\* The set and the stamps stand for connection_manager.head: every lookup in
\* the list has one answer, although several nodes may match.
THEOREM ListWalked == Spec => []WalksMeetOne
<1>1. IndInv /\ StampInv => WalksMeetOne
  <2> SUFFICES ASSUME IndInv, StampInv, NEW S \in SUBSET listed
               PROVE  /\ S # {} => \E c \in S : First(c, S)
                      /\ \A c, d \in S : First(c, S) /\ First(d, S) => c = d
    BY DEF WalksMeetOne
  <2>1. stamp \in [Conn -> Nat] /\ listed \subseteq Conn /\ S \subseteq Pushed
    BY DEF IndInv, TypeOK, FreshInv, Pushed
  <2>2. S # {} => \E c \in S : First(c, S)
    BY <2>1, FirstExists
  <2>3. ASSUME NEW c \in S, NEW d \in S, First(c, S), First(d, S) PROVE c = d
    <3>1. stamp[c] = stamp[d]
      BY <2>1, <2>3 DEF First
    <3> QED BY <2>1, <3>1 DEF StampInv
  <2> QED BY <2>2, <2>3
<1> QED BY <1>1, Invariance, StampsDistinct, PTL
------------------------------------------------------------------------------
(* Sensor ids: what UniqueSensorIds still promises. *)

\* As long as no sensor has left, active_count is an id nobody has.
IdsFresh ==
  Freed = {} =>
    /\ \A c \in listed : sensorId[c] < activeCount
    /\ UniqueSensorIds
    /\ pc \in {"allow", "push"} => id = activeCount

\* A removal of a listed node leaves a sensor that has left.
LEMMA DropFrees ==
  ASSUME IndInv, NEW C \in SUBSET listed, DropNodes(C), C # {}
  PROVE  Freed' # {}
<1>1. PICK c \in C : TRUE
  OBVIOUS
<1>2. c \in Conn /\ stamp'[c] > 0 /\ c \notin listed'
  BY DEF DropNodes, IndInv, TypeOK, FreshInv
<1> QED BY <1>2 DEF Freed

\* remove_connection either finds nothing or makes a sensor leave.
LEMMA RemoveFrees ==
  ASSUME IndInv, NEW i, RemoveById(i)
  PROVE  Freed' # {} \/ UNCHANGED <<tableVars, fdVars>>
<1>1. ASSUME NEW c \in Conn, First(c, WithId(i)), DropNodes({c}) PROVE Freed' # {}
  <2>1. {c} \in SUBSET listed
    BY <1>1 DEF First, WithId
  <2> QED BY <1>1, <2>1, DropFrees
<1> QED BY <1>1 DEF RemoveById

\* Every step keeps fresh ids fresh until a sensor leaves.
LEMMA IdsStep == IndInv /\ IdsFresh /\ [Next]_vars => IdsFresh'
<1> SUFFICES ASSUME IndInv, IdsFresh, [Next]_vars, Freed' = {} PROVE IdsFresh'
  BY DEF IdsFresh
<1>t. /\ listed \subseteq Conn /\ activeCount \in Nat /\ sensorId \in [Conn -> Nat]
      /\ stamp \in [Conn -> Nat] /\ \A c \in listed : stamp[c] > 0
  BY DEF IndInv, TypeOK, FreshInv
<1> USE DEF tableVars
<1>1. CASE Push
  <2>1. cc \in Conn /\ stamp[cc] = 0
    BY <1>1 DEF Push, IndInv, ServingInv, ServingPCs, FreshInv, Fresh
  <2>2. Freed = {}
    <3>1. \A c \in Conn \ {cc} : stamp'[c] = stamp[c]
      BY <1>1, <1>t DEF Push
    <3>2. \A c \in Freed : c \in Conn \ {cc} /\ c \notin listed'
      BY <1>1, <2>1 DEF Freed, Push
    <3>3. \A c \in Freed : stamp'[c] > 0
      BY <3>1, <3>2 DEF Freed
    <3> QED BY <3>2, <3>3 DEF Freed
  <2>3. /\ listed' = listed \cup {cc} /\ activeCount' = activeCount + 1
        /\ sensorId'[cc] = activeCount /\ \A c \in Conn \ {cc} : sensorId'[c] = sensorId[c]
        /\ pc' = "register" /\ cc \notin listed
    BY <1>1, <1>t, <2>1, <2>2 DEF Push, Goto, IdsFresh
  <2>4. \A c \in listed : sensorId'[c] = sensorId[c] /\ sensorId[c] < activeCount
                          /\ sensorId[c] \in Nat
    BY <1>t, <2>2, <2>3 DEF IdsFresh
  <2>5. \A c \in listed' : sensorId'[c] < activeCount'
    BY <1>t, <2>3, <2>4
  <2>6. UniqueSensorIds'
    <3>1. ASSUME NEW c \in listed', NEW d \in listed', sensorId'[c] = sensorId'[d]
          PROVE  c = d
      <4>1. CASE c = cc \/ d = cc
        BY <1>t, <2>3, <2>4, <3>1, <4>1
      <4>2. CASE c # cc /\ d # cc
        BY <2>2, <2>3, <2>4, <3>1, <4>2 DEF IdsFresh, UniqueSensorIds
      <4> QED BY <4>1, <4>2
    <3> QED BY <3>1 DEF UniqueSensorIds
  <2> QED BY <2>3, <2>5, <2>6 DEF IdsFresh
<1>2. ASSUME UNCHANGED <<listed, stamp, activeCount, sensorId>>,
             \/ pc' \notin {"allow", "push"}
             \/ id' = activeCount
             \/ pc \in {"allow", "push"} /\ id' = id
      PROVE  IdsFresh'
  <2>1. Freed = {}
    BY <1>2 DEF Freed
  <2> QED BY <1>2, <2>1 DEF IdsFresh, UniqueSensorIds
<1>3. CASE UndoRemove \/ DropRemove
  <2>1. UNCHANGED tableVars
    BY <1>3, RemoveFrees DEF UndoRemove, DropRemove
  <2> QED BY <1>2, <1>3, <2>1 DEF UndoRemove, DropRemove, Goto
<1>4. ASSUME NEW i, Terminate(i) PROVE IdsFresh'
  <2>1. UNCHANGED <<tableVars, connVars>>
    BY <1>4, RemoveFrees DEF Terminate
  <2> QED BY <1>2, <2>1 DEF connVars
<1>5. CASE TimeoutSweep
  BY <1>5, DropFrees DEF TimeoutSweep
<1>6. CASE \/ AdmitSlot \/ ReadId
  BY <1>2, <1>6 DEF AdmitSlot, ReadId, Goto
<1>7. CASE \/ EpollWait \/ BatchDone \/ AcceptClient \/ AcceptFails \/ HandshakeOk
           \/ HandshakeFails \/ PacketOk \/ PacketFails \/ PortRefused \/ PortFree
           \/ LimiterRefuses \/ PushNoMemory \/ RegisterOk
           \/ RegisterFails \/ UndoClose \/ FindNone \/ FindNode \/ PeekGone
           \/ DropEvent
  BY <1>2, <1>7
  DEF EpollWait, BatchDone, AcceptClient, AcceptFails, HandshakeOk, HandshakeFails,
      PacketOk, PacketFails, PortRefused, PortFree, LimiterRefuses,
      PushNoMemory, RegisterOk, RegisterFails, UndoClose, FindNone, FindNode,
      PeekGone, DropEvent, Abandon, Goto
<1>8. ASSUME NEW c, Connect(c) \/ Shut(c) \/ Age(c) \/ Refresh(c)
      PROVE  IdsFresh'
  BY <1>2, <1>8 DEF Connect, Shut, Age, Refresh, connVars
<1>9. CASE UNCHANGED vars
  BY <1>2, <1>9 DEF vars, connVars
<1> QED
  BY <1>1, <1>3, <1>4, <1>5, <1>6, <1>7, <1>8, <1>9
  DEF Next, NewConnectionStep, ExistingConnectionStep

\* Two sensors share an id only once some sensor has left: until then the
\* active_count read without the mutex is a fresh id, whatever the timeout
\* and command threads do between the read and the push.
THEOREM IdsUntilDeparture == Spec => [](Freed = {} => UniqueSensorIds)
<1>1. Init => IdsFresh
  BY DEF Init, IdsFresh, UniqueSensorIds
<1>2. IdsFresh => (Freed = {} => UniqueSensorIds)
  BY DEF IdsFresh
<1> QED BY <1>1, <1>2, Invariance, IdsStep, PTL DEF Spec
------------------------------------------------------------------------------
(* How often secure_comm is destroyed.  A timed-out node is freed without it. *)

\* A listed node's secure_comm is alive, and so is the one of the client being
\* served until its node is on the list.  That node stays the head of the list
\* and carries the id the connection thread holds, so that undoing a failed
\* registration removes it and no other.
CommInv ==
  /\ \A c \in listed : comm[c] = "live"
  /\ pc \in {"packet", "portcheck", "readid", "allow", "push"} => comm[cc] = "live"
  /\ pc \in {"register", "undo"} /\ cc \in listed =>
       First(cc, listed) /\ sensorId[cc] = id
  /\ pc = "undoclose" => cc \notin listed

\* A secure_comm is destroyed a second time only where handle_new_connection
\* undoes a registration that failed.
DestroyedOnce ==
  \A c \in Conn :
    comm'[c] = "twice" => comm[c] = "twice" \/ (UndoClose /\ c = cc)

\* remove_connection removes the first node with the id, destroys a live
\* secure_comm or none, and leaves the others alone.
LEMMA RemoveComm ==
  ASSUME IndInv, StampInv, CommInv, NEW i, RemoveById(i)
  PROVE  /\ listed' \subseteq listed /\ UNCHANGED <<stamp, sensorId>>
         /\ \A c \in listed' : comm'[c] = "live"
         /\ \A c \in Conn : comm'[c] = comm[c] \/ comm'[c] = "destroyed"
         /\ \A c \in listed' : ~First(c, WithId(i))
<1>t. /\ listed \subseteq Conn /\ listed \subseteq Pushed /\ stamp \in [Conn -> Nat]
      /\ comm \in [Conn -> {"none", "live", "destroyed", "twice"}]
  BY DEF IndInv, TypeOK, FreshInv, Pushed
<1>1. CASE WithId(i) = {} /\ UNCHANGED <<limiterVars, tableVars, fdVars>>
  BY <1>1 DEF CommInv, tableVars, fdVars, First
<1>2. ASSUME NEW c \in Conn, First(c, WithId(i)), DropNodes({c}),
             IF SockFdOf[c] >= 0
             THEN comm' = [comm EXCEPT ![c] = CommAfterDestroy(c)]
             ELSE UNCHANGED comm
      PROVE  /\ listed' \subseteq listed /\ UNCHANGED <<stamp, sensorId>>
             /\ \A d \in listed' : comm'[d] = "live"
             /\ \A d \in Conn : comm'[d] = comm[d] \/ comm'[d] = "destroyed"
             /\ \A d \in listed' : ~First(d, WithId(i))
  <2>1. c \in listed /\ listed' = listed \ {c} /\ UNCHANGED <<stamp, sensorId>>
    BY <1>2 DEF First, WithId, DropNodes
  <2>2. comm[c] = "live"
    BY <2>1 DEF CommInv
  <2>3. \A d \in Conn : comm'[d] = comm[d] \/ (d = c /\ comm'[d] = "destroyed")
    BY <1>2, <1>t, <2>2 DEF CommAfterDestroy
  <2>4. ASSUME NEW d \in listed, First(d, WithId(i)) PROVE d = c
    <3>1. stamp[c] = stamp[d]
      BY <1>t, <1>2, <2>1, <2>4 DEF First
    <3> QED BY <1>t, <2>1, <3>1 DEF StampInv
  <2> QED BY <1>t, <2>1, <2>3, <2>4 DEF CommInv
<1> QED BY <1>1, <1>2 DEF RemoveById

\* Every step keeps CommInv, and destroys a second time at one place only.
LEMMA CommStep ==
  ASSUME IndInv, StampInv, CommInv, [Next]_vars
  PROVE  CommInv' /\ [DestroyedOnce]_vars
<1> SUFFICES CommInv' /\ DestroyedOnce
  OBVIOUS
<1>t. /\ listed \subseteq Conn /\ listed \subseteq Pushed /\ stamp \in [Conn -> Nat]
      /\ comm \in [Conn -> {"none", "live", "destroyed", "twice"}]
  BY DEF IndInv, TypeOK, FreshInv, Pushed
<1>s. pc \in ServingPCs => cc \in Conn
  BY DEF IndInv, ServingInv
<1>f. pc \in {"handshake", "packet", "portcheck", "readid", "allow", "push"} =>
        cc \notin listed
  BY DEF IndInv, FreshInv, Fresh
<1> USE DEF tableVars
<1>1. CASE Push
  <2>1. /\ cc \in Conn /\ cc \notin Pushed
        /\ \A c \in Pushed : stamp'[c] = stamp[c] /\ stamp[c] < stamp'[cc]
        /\ stamp'[cc] \in Nat
    BY <1>1, PushStamp, NextInv DEF Pushed, IndInv, TypeOK
  <2>2. /\ listed' = listed \cup {cc} /\ comm' = comm /\ pc' = "register" /\ cc' = cc
        /\ id' = id /\ comm[cc] = "live" /\ sensorId' = [sensorId EXCEPT ![cc] = id]
    BY <1>1 DEF Push, Goto, CommInv, fdVars
  <2>3. First(cc, listed)'
    BY <1>t, <2>1, <2>2 DEF First
  <2>4. sensorId'[cc] = id
    BY <2>1, <2>2 DEF IndInv, TypeOK
  <2> QED BY <2>2, <2>3, <2>4 DEF CommInv, DestroyedOnce
<1>2. ASSUME UNCHANGED <<listed, stamp, sensorId, comm>>,
             pc' \notin {"packet", "portcheck", "readid", "allow", "push",
                         "register", "undo", "undoclose"}
      PROVE  CommInv' /\ DestroyedOnce
  BY <1>2 DEF CommInv, DestroyedOnce
<1>3. CASE HandshakeOk
  <2>1. cc \in Conn /\ cc \notin listed
    BY <1>3, <1>s, <1>f DEF HandshakeOk, ServingPCs
  <2>2. /\ comm' = [comm EXCEPT ![cc] = "live"] /\ pc' = "packet" /\ cc' = cc
        /\ listed' = listed
    BY <1>3 DEF HandshakeOk, Goto
  <2> QED BY <1>t, <2>1, <2>2 DEF CommInv, DestroyedOnce
<1>4. CASE PacketFails \/ PortRefused
  <2>1. cc \in Conn /\ cc \notin listed /\ comm[cc] = "live"
    BY <1>4, <1>s, <1>f DEF PacketFails, PortRefused, ServingPCs, CommInv
  <2>2. /\ comm' = [comm EXCEPT ![cc] = "destroyed"] /\ pc' = "dispatch"
        /\ listed' = listed
    BY <1>4, <2>1 DEF PacketFails, PortRefused, Abandon, Goto, CommAfterDestroy
  <2> QED BY <1>t, <2>1, <2>2 DEF CommInv, DestroyedOnce
<1>5. CASE UndoClose
  <2>1. cc \in Conn /\ cc \notin listed
    BY <1>5, <1>s DEF UndoClose, ServingPCs, CommInv
  <2>2. /\ comm' = [comm EXCEPT ![cc] = CommAfterDestroy(cc)] /\ pc' = "dispatch"
        /\ listed' = listed
    BY <1>5 DEF UndoClose, Abandon, Goto
  <2> QED BY <1>t, <1>5, <2>1, <2>2 DEF CommInv, DestroyedOnce
<1>6. CASE UndoRemove
  <2>1. /\ listed' \subseteq listed
        /\ \A c \in listed' : comm'[c] = "live"
        /\ \A c \in Conn : comm'[c] = comm[c] \/ comm'[c] = "destroyed"
        /\ \A c \in listed' : ~First(c, WithId(id))
    BY <1>6, RemoveComm DEF UndoRemove
  <2>2. cc \in listed => First(cc, WithId(id))
    BY <1>6 DEF UndoRemove, CommInv, First, WithId
  <2>3. pc' = "undoclose" /\ cc' = cc
    BY <1>6 DEF UndoRemove, Goto
  <2> QED BY <2>1, <2>2, <2>3 DEF CommInv, DestroyedOnce
<1>7. CASE DropRemove
  <2>1. /\ \A c \in listed' : comm'[c] = "live"
        /\ \A c \in Conn : comm'[c] = comm[c] \/ comm'[c] = "destroyed"
    BY <1>7, RemoveComm DEF DropRemove
  <2> QED BY <1>7, <2>1 DEF DropRemove, Goto, CommInv, DestroyedOnce
<1>8. ASSUME listed' \subseteq listed, UNCHANGED <<stamp, sensorId, connVars>>,
             \A c \in listed' : comm'[c] = "live",
             \A c \in Conn : comm'[c] = comm[c] \/ comm'[c] = "destroyed",
             cc \in Conn \ listed => comm'[cc] = comm[cc]
      PROVE  CommInv' /\ DestroyedOnce
  <2>1. pc' = pc /\ cc' = cc /\ id' = id
    BY <1>8 DEF connVars
  <2>2. cc \in listed' => (First(cc, listed) => First(cc, listed)')
    BY <1>8, <2>1 DEF First
  <2> QED BY <1>8, <1>s, <1>f, <2>1, <2>2 DEF CommInv, DestroyedOnce, ServingPCs
<1>9. ASSUME NEW i, Terminate(i) PROVE CommInv' /\ DestroyedOnce
  <2>1. RemoveById(i) /\ UNCHANGED connVars
    BY <1>9 DEF Terminate
  <2>2. \A c \in Conn \ listed : comm'[c] = comm[c]
    BY <1>t, <2>1 DEF RemoveById, First, WithId, fdVars
  <2> QED BY <1>8, <2>1, <2>2, RemoveComm
<1>10. CASE TimeoutSweep
  <2>1. listed' \subseteq listed /\ UNCHANGED <<stamp, sensorId, connVars, comm>>
    BY <1>10 DEF TimeoutSweep, DropNodes
  <2> QED BY <1>8, <2>1 DEF CommInv
<1>11. ASSUME UNCHANGED <<listed, stamp, sensorId, comm, cc>>,
              \/ pc' = pc /\ id' = id
              \/ /\ pc \in {"packet", "portcheck", "readid", "allow"}
                 /\ pc' \in {"portcheck", "readid", "allow", "push"}
       PROVE  CommInv' /\ DestroyedOnce
  BY <1>11 DEF CommInv, DestroyedOnce, First
<1>12. CASE PacketOk \/ PortFree \/ ReadId \/ AdmitSlot
  BY <1>11, <1>12 DEF PacketOk, PortFree, ReadId, AdmitSlot, fdVars, Goto
<1>13. CASE LimiterRefuses \/ PushNoMemory
  <2>1. /\ UNCHANGED <<listed, comm, cc>> /\ pc' = "register" /\ cc \notin listed
    BY <1>13, <1>f DEF LimiterRefuses, PushNoMemory, fdVars, Goto
  <2> QED BY <2>1 DEF CommInv, DestroyedOnce
<1>14. CASE RegisterFails
  <2>1. UNCHANGED <<listed, stamp, sensorId, comm, cc, id>> /\ pc = "register" /\ pc' = "undo"
    BY <1>14 DEF RegisterFails, fdVars, Goto
  <2> QED BY <2>1 DEF CommInv, DestroyedOnce, First
<1>15. CASE \/ EpollWait \/ BatchDone \/ AcceptClient \/ AcceptFails \/ HandshakeFails
            \/ RegisterOk \/ FindNone \/ FindNode \/ PeekGone \/ DropEvent
  BY <1>2, <1>15
  DEF EpollWait, BatchDone, AcceptClient, AcceptFails, HandshakeFails, RegisterOk,
      FindNone, FindNode, PeekGone, DropEvent, fdVars, Goto
<1>16. ASSUME NEW c, Connect(c) \/ Shut(c) \/ Age(c) \/ Refresh(c)
       PROVE  CommInv' /\ DestroyedOnce
  <2>1. UNCHANGED <<listed, stamp, sensorId, comm, cc, pc, id>>
    BY <1>16 DEF Connect, Shut, Age, Refresh, connVars, fdVars
  <2> QED BY <1>11, <2>1
<1>17. CASE UNCHANGED vars
  BY <1>11, <1>17 DEF vars, connVars, fdVars
<1> QED
  BY <1>1, <1>3, <1>4, <1>5, <1>6, <1>7, <1>9, <1>10, <1>12, <1>13, <1>14, <1>15,
     <1>16, <1>17
  DEF Next, NewConnectionStep, ExistingConnectionStep

\* destroy_secure_connection is called a second time on a connection only by
\* handle_new_connection, for the client whose registration has just failed:
\* no race of a timeout, a hang-up and a terminate destroys one twice.
THEOREM CommDestroyedOnce == Spec => [][DestroyedOnce]_vars
<1>1. Init => CommInv
  BY DEF Init, CommInv
<1>2. IndInv /\ StampInv /\ CommInv /\ [Next]_vars => CommInv' /\ [DestroyedOnce]_vars
  BY CommStep
<1> QED BY <1>1, <1>2, Invariance, StampsDistinct, PTL DEF Spec
------------------------------------------------------------------------------
(* The node a lookup has found: what FoundNodeAllocated still promises. *)

\* The node was on the list when it was found, so it is listed or freed.
FoundInv == pc \in {"peek", "drop"} => found \in Pushed

\* Between the lookup and the last use of the node, it leaves the list only
\* in a step of the timeout thread or of the command thread.
FoundKept ==
  pc \in {"peek", "drop"} /\ found \in Freed' \ Freed =>
    TimeoutSweep \/ \E i : Terminate(i)

\* Every step keeps FoundInv, and only two threads can lose a found node.
LEMMA FoundStep ==
  ASSUME IndInv, StampInv, FoundInv, [Next]_vars
  PROVE  FoundInv' /\ [FoundKept]_vars
<1> SUFFICES FoundInv' /\ FoundKept
  OBVIOUS
<1> USE DEF tableVars
<1>1. Pushed \subseteq Pushed'
  <2>1. CASE Push
    BY <2>1, PushStamp
  <2>2. CASE UNCHANGED stamp
    BY <2>2 DEF Pushed
  <2> QED BY <2>1, <2>2, StampFrame
<1>2. FoundInv'
  <2>1. CASE FindNode
    <3>1. found' \in listed
      BY <2>1 DEF FindNode, First, WithFd
    <3> QED BY <1>1, <3>1 DEF FoundInv, IndInv, TypeOK, FreshInv, Pushed
  <2>2. CASE PeekGone \/ UNCHANGED connVars
    BY <1>1, <2>2 DEF PeekGone, connVars, FoundInv
  <2>3. CASE \/ EpollWait \/ BatchDone \/ AcceptClient \/ AcceptFails \/ HandshakeOk
             \/ HandshakeFails \/ PacketOk \/ PacketFails \/ PortRefused \/ PortFree
             \/ ReadId \/ AdmitSlot \/ LimiterRefuses \/ Push \/ PushNoMemory
             \/ RegisterOk \/ RegisterFails \/ UndoRemove \/ UndoClose \/ FindNone
             \/ DropEvent \/ DropRemove
    BY <2>3
    DEF EpollWait, BatchDone, AcceptClient, AcceptFails, HandshakeOk, HandshakeFails,
        PacketOk, PacketFails, PortRefused, PortFree, ReadId, AdmitSlot,
        LimiterRefuses, Push, PushNoMemory, RegisterOk, RegisterFails, UndoRemove,
        UndoClose, FindNone, DropEvent, DropRemove, Abandon, Goto, FoundInv
  <2>4. ASSUME NEW c, Connect(c) \/ Shut(c) \/ Age(c) \/ Refresh(c) \/ Terminate(c)
        PROVE  UNCHANGED connVars
    BY <2>4 DEF Connect, Shut, Age, Refresh, Terminate
  <2>5. CASE TimeoutSweep \/ UNCHANGED vars
    BY <2>2, <2>5 DEF TimeoutSweep, vars
  <2> QED
    BY <2>1, <2>2, <2>3, <2>4, <2>5 DEF Next, NewConnectionStep, ExistingConnectionStep
<1>3. FoundKept
  <2>1. UNCHANGED <<listed, stamp>> => Freed' = Freed
    BY DEF Freed
  <2>2. CASE pc \in {"peek", "drop"} /\ (PeekGone \/ DropEvent)
    BY <2>1, <2>2 DEF PeekGone, DropEvent, FoundKept
  <2>3. CASE pc \notin {"peek", "drop"}
    BY <2>3 DEF FoundKept
  <2>4. CASE \/ EpollWait \/ BatchDone \/ NewConnectionStep \/ FindNone \/ FindNode
             \/ DropRemove
    <3>1. pc \notin {"peek", "drop"}
      BY <2>4
      DEF EpollWait, BatchDone, NewConnectionStep, AcceptClient, AcceptFails,
          HandshakeOk, HandshakeFails, PacketOk, PacketFails, PortRefused, PortFree,
          ReadId, AdmitSlot, LimiterRefuses, Push, PushNoMemory, RegisterOk,
          RegisterFails, UndoRemove, UndoClose, FindNone, FindNode, DropRemove
    <3> QED BY <2>3, <3>1
  <2>5. ASSUME NEW c, Connect(c) \/ Shut(c) \/ Age(c) \/ Refresh(c) PROVE FoundKept
    BY <2>1, <2>5 DEF Connect, Shut, Age, Refresh, FoundKept
  <2>6. CASE UNCHANGED vars
    BY <2>1, <2>6 DEF vars, FoundKept
  <2>7. CASE TimeoutSweep \/ \E i : Terminate(i)
    BY <2>7 DEF FoundKept
  <2> QED
    BY <2>2, <2>3, <2>4, <2>5, <2>6, <2>7 DEF Next, ExistingConnectionStep
<1> QED BY <1>2, <1>3

\* The pointer find_connection_by_fd returned goes stale only through
\* check_and_cleanup_inactive_connections or "terminate": within the
\* connection thread the lookup and the use are in order.
THEOREM FoundLostToOthers == Spec => []FoundInv /\ [][FoundKept]_vars
<1>1. Init => FoundInv
  BY DEF Init, FoundInv
<1>2. IndInv /\ StampInv /\ FoundInv /\ [Next]_vars => FoundInv' /\ [FoundKept]_vars
  BY FoundStep
<1> QED BY <1>1, <1>2, Invariance, StampsDistinct, PTL DEF Spec
===============================================================================
