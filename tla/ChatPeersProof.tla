---------------------------- MODULE ChatPeersProof ----------------------------
(***************************************************************************)
(* Proofs about ChatPeers, for any number of connections, descriptors and  *)
(* slots.                                                                  *)
(*                                                                         *)
(* The lemmas on the table come first: what adding and the two ways of     *)
(* removing do to the slots in use, to the connections listed and to the   *)
(* sockets in slots.  Then one lemma says how the invariant survives a     *)
(* step that only closes and unlists, as most of them do.                  *)
(***************************************************************************)
EXTENDS ChatPeers, FiniteSetTheorems, SequenceTheorems, WellFoundedInduction,
        TLAPS

Peer == [id : Slot, fd : Fd \cup {NONE}, conn : Conn \cup {NONE}]

Inboxes == {<<>>, <<"connect">>, <<"terminate">>, <<"connect", "terminate">>}

Places == {"none", "unlist", "end"} \cup InLoop

Sockets == {table[i].fd : i \in Active}

TableInv == /\ table \in [Slot -> Peer] /\ count \in 0 .. MaxPeers
            /\ SlotsFull /\ CountMatchesSlots /\ ListedOnce

\* What is known of descriptors, other ends and messages when a step has
\* closed at least the descriptors F.
NetKept(F) ==
  /\ fds' \in [Fd -> Conn \cup {NONE}]
  /\ remote' \in [Conn -> {"none", "up", "shut", "over"}]
  /\ inbox' \in [Conn -> Inboxes]
  /\ timed' \in SUBSET Conn
  /\ \A f \in Fd : fds'[f] # NONE => fds'[f] = fds[f] /\ f \notin F
  /\ \A c \in Conn : inbox'[c] \in {<<>>, inbox[c]}
  /\ \A c \in Conn : remote'[c] = "none" => remote[c] = "none"

RestTypeOK ==
  /\ stop \in BOOLEAN
  /\ mpc \in {"prompt", "add", "greet", "remove", "cleanup", "closeAll",
              "joining", "returned", "killed"}
  /\ mconn \in Conn \cup {NONE}
  /\ marg \in Fd \cup Slot \cup {NONE}
  /\ apc \in {"accept", "spawn", "unlist", "register", "end"}
  /\ aconn \in Conn \cup {NONE}
  /\ afd \in Fd \cup {NONE}
  /\ rpc \in [Conn -> Places]
  /\ sock \in [Conn -> Fd \cup {NONE}]
  /\ on \in [Conn -> Conn \cup {NONE}]
  /\ managed \in SUBSET (Conn \cup {"accept"})
  /\ backlog \in SUBSET Conn

NetTypeOK ==
  /\ fds \in [Fd -> Conn \cup {NONE}]
  /\ remote \in [Conn -> {"none", "up", "shut", "over"}]
  /\ inbox \in [Conn -> Inboxes]
  /\ timed \in SUBSET Conn

\* The smallest of a set of numbers is one of them.
LEMMA FirstIn ==
  ASSUME NEW S \in SUBSET Nat, S # {}
  PROVE  First(S) \in S
<1>1. PICK x \in S : \A y \in S : <<y, x>> \notin OpToRel(<, Nat)
  BY NatLessThanWellFounded, WFMin
<1>2. ASSUME NEW y \in S PROVE x <= y
  <2>1. y \in Nat /\ x \in Nat
    OBVIOUS
  <2>2. <<y, x>> \notin {ss \in Nat \X Nat : ss[1] < ss[2]}
    BY <1>1 DEF OpToRel
  <2> QED BY <2>1, <2>2
<1> QED BY <1>2 DEF First

\* The slots are MaxPeers in number, and those in use are among them.
LEMMA SlotsFinite ==
  /\ Slot \subseteq Nat /\ MaxPeers \in Nat \ {0}
  /\ IsFiniteSet(Active) /\ Active \subseteq Slot
  /\ Cardinality(Active) \in Nat
  /\ IsFiniteSet(Slot) /\ Cardinality(Slot) = MaxPeers
<1>1. MaxPeers \in Nat \ {0} /\ Slot \subseteq Nat
  BY ChatAssumption DEF Slot
<1>2. IsFiniteSet(Slot) /\ Cardinality(Slot) = MaxPeers
  BY <1>1, FS_Interval DEF Slot
<1>3. Active \subseteq Slot
  BY DEF Active
<1> QED BY <1>1, <1>2, <1>3, FS_Subset, FS_CardinalityType
------------------------------------------------------------------------------
(* The table. *)

\* Each listed connection has one slot.
LEMMA ListedBound ==
  ASSUME TableInv
  PROVE  Cardinality(Listed) \in Nat /\ Cardinality(Listed) <= count
<1> DEFINE g == [i \in Active |-> table[i].conn]
<1>1. g \in Surjection(Active, Listed)
  BY DEF Surjection, Listed
<1> QED BY <1>1, SlotsFinite, FS_Surjection, FS_CardinalityType
           DEF TableInv, CountMatchesSlots

\* add_peer enters the connection with its socket, or finds the table full.
LEMMA AddStep ==
  ASSUME TableInv, NEW c \in Conn, c \notin Listed, NEW f \in Fd, AddPeer(c, f)
  PROVE  /\ TableInv' /\ Sockets \subseteq Sockets'
         /\ \/ ~HasRoom /\ Listed' = Listed
            \/ /\ HasRoom /\ f \in Sockets'
               /\ Listed' = Listed \cup {c} /\ Cardinality(Listed) < MaxPeers
<1>1. CASE ~HasRoom
  BY <1>1 DEF AddPeer, tableVars, TableInv, SlotsFull, CountMatchesSlots,
              ListedOnce, Active, Listed, Sockets
<1>2. CASE HasRoom
  <2> DEFINE x == First(Slot \ Active)
             r == [id |-> count, fd |-> f, conn |-> c]
  <2>1. x \in Slot /\ x \notin Active
    <3>0. Active # Slot
      BY <1>2, SlotsFinite DEF HasRoom, TableInv, CountMatchesSlots
    <3>1. Slot \ Active # {}
      BY <3>0, SlotsFinite
    <3> QED BY <3>1, SlotsFinite, FirstIn
  <2>2. r \in Peer /\ r # NoPeer
    BY <1>2, ChatAssumption DEF HasRoom, TableInv, Peer, NoPeer, Slot
  <2>3. table' = [table EXCEPT ![x] = r] /\ count' = count + 1
    BY <1>2 DEF AddPeer
  <2> HIDE DEF x, r
  <2>4. table' \in [Slot -> Peer]
    BY <2>1, <2>2, <2>3 DEF TableInv
  <2>5. Active' = Active \cup {x}
    BY <2>1, <2>2, <2>3 DEF Active, TableInv
  <2>6. \A i \in Active : table'[i] = table[i]
    BY <2>1, <2>3 DEF TableInv, Active
  <2>7. table'[x] = r
    BY <2>1, <2>3 DEF TableInv
  <2>8. count' \in 0 .. MaxPeers /\ CountMatchesSlots'
    <3>1. Cardinality(Active \cup {x}) = Cardinality(Active) + 1
      BY <2>1, SlotsFinite, FS_AddElement
    <3>2. CountMatchesSlots'
      BY <2>3, <2>5, <3>1 DEF TableInv, CountMatchesSlots
    <3> QED BY <1>2, <2>3, <3>2, SlotsFinite DEF HasRoom, TableInv
  <2>9. r.conn = c /\ r.fd = f
    BY DEF r
  <2>10. SlotsFull'
    BY <2>5, <2>6, <2>7, <2>9 DEF TableInv, SlotsFull
  <2>11. ListedOnce'
    BY <2>5, <2>6, <2>7, <2>9 DEF TableInv, ListedOnce, Listed
  <2>12. Sockets' = Sockets \cup {f}
    BY <2>5, <2>6, <2>7, <2>9 DEF Sockets
  <2>13. Listed' = Listed \cup {c}
    BY <2>5, <2>6, <2>7, <2>9 DEF Listed
  <2>14. Cardinality(Listed) < MaxPeers
    BY <1>2, ListedBound, SlotsFinite DEF HasRoom, TableInv
  <2> QED BY <1>2, <2>4, <2>8, <2>10, <2>11, <2>12, <2>13, <2>14 DEF TableInv
<1> QED BY <1>1, <1>2

\* remove_peer_by_socket takes out one connection, or finds none to take out.
LEMMA RemoveBySocketStep ==
  ASSUME TableInv, NEW f, RemoveBySocket(f)
  PROVE  /\ TableInv' /\ Sockets \ {f} \subseteq Sockets'
         /\ \/ HasSocket(f) = {} /\ Listed' = Listed /\ Sockets' = Sockets
            \/ HasSocket(f) # {} /\ f \in Fd
               /\ \E c \in Conn : Listed' = Listed \ {c}
<1>1. CASE HasSocket(f) = {}
  BY <1>1 DEF RemoveBySocket, tableVars, TableInv, SlotsFull, CountMatchesSlots,
              ListedOnce, Active, Listed, Sockets
<1>2. CASE HasSocket(f) # {}
  <2> DEFINE x == First(HasSocket(f))
  <2>1. x \in Active /\ table[x].fd = f
    <3>1. HasSocket(f) \subseteq Nat
      BY SlotsFinite DEF HasSocket
    <3>2. x \in HasSocket(f)
      BY <1>2, <3>1, FirstIn
    <3> QED BY <3>2 DEF HasSocket
  <2>2. table' = [table EXCEPT ![x] = NoPeer] /\ count' = count - 1
    BY <1>2 DEF RemoveBySocket
  <2> HIDE DEF x
  <2>3. x \in Slot /\ NoPeer \in Peer
    BY <2>1, ChatAssumption DEF Active, NoPeer, Peer, Slot
  <2>4. table' \in [Slot -> Peer]
    BY <2>2, <2>3 DEF TableInv
  <2>5. Active' = Active \ {x}
    BY <2>2, <2>3 DEF Active, TableInv
  <2>6. \A i \in Active \ {x} : table'[i] = table[i]
    BY <2>2 DEF TableInv, Active
  <2>7. count' \in 0 .. MaxPeers /\ CountMatchesSlots'
    <3>1. Cardinality(Active) # 0
      BY <2>1, SlotsFinite, FS_EmptySet
    <3>2. Cardinality(Active \ {x}) = Cardinality(Active) - 1
      BY <2>1, SlotsFinite, FS_RemoveElement
    <3>3. CountMatchesSlots'
      BY <2>2, <2>5, <3>2 DEF TableInv, CountMatchesSlots
    <3> QED BY <2>2, <3>1, <3>3, SlotsFinite DEF TableInv, CountMatchesSlots
  <2>8. SlotsFull' /\ ListedOnce'
    BY <2>5, <2>6 DEF TableInv, SlotsFull, ListedOnce
  <2>9. Listed' = Listed \ {table[x].conn}
    BY <2>1, <2>5, <2>6 DEF TableInv, ListedOnce, Listed
  <2>10. table[x].conn \in Conn /\ f \in Fd
    BY <2>1 DEF TableInv, SlotsFull
  <2>11. Sockets \ {f} \subseteq Sockets'
    BY <2>1, <2>5, <2>6 DEF Sockets
  <2> QED BY <1>2, <2>4, <2>7, <2>8, <2>9, <2>10, <2>11 DEF TableInv
<1> QED BY <1>1, <1>2

\* The slots behind the one that goes move up: j is filled from From(j).
LEMMA RemoveByIdStep ==
  ASSUME TypeOK, TableInv, NEW id, RemoveById(id)
  PROVE  /\ TableInv'
         /\ \/ UNCHANGED <<tableVars, netVars>>
            \/ \E f \in Fd, c \in Conn :
                 /\ Close({f}) /\ Sockets \ {f} \subseteq Sockets'
                 /\ Listed' = Listed \ {c}
<1> DEFINE found == {i \in Active : table[i].id = id}
           at == First(found)
<1>1. CASE found = {}
  BY <1>1 DEF RemoveById, tableVars, netVars, TableInv, SlotsFull, CountMatchesSlots,
              ListedOnce, Active, Listed, Sockets
<1>2. CASE found # {}
  <2> DEFINE From(j) == IF j < at THEN j ELSE j + 1
  <2>1. at \in Active /\ at \in Slot
    <3>1. found \subseteq Nat /\ found \subseteq Active
      BY SlotsFinite
    <3> QED BY <1>2, <3>1, FirstIn, SlotsFinite
  <2>2. /\ Close({table[at].fd}) /\ count' = count - 1
        /\ table' = [j \in Slot |-> IF j < at THEN table[j]
                                   ELSE IF j < MaxPeers - 1 THEN Moved(j)
                                   ELSE NoPeer]
    BY <1>2 DEF RemoveById
  <2> HIDE DEF at, found
  <2>3. table[at].fd \in Fd /\ table[at].conn \in Conn
    BY <2>1 DEF TableInv, SlotsFull
  <2>4. NoPeer \in Peer
    BY SlotsFinite DEF NoPeer, Peer, Slot
  <2>5. ASSUME NEW j \in Slot
        PROVE  /\ table'[j] \in Peer
               /\ table'[j] # NoPeer <=> From(j) \in Active
               /\ From(j) \in Active =>
                    table'[j].conn = table[From(j)].conn /\ table'[j].fd = table[From(j)].fd
    <3>1. CASE j < at
      BY <2>2, <3>1 DEF TableInv, Active
    <3>2. CASE ~(j < at) /\ j + 1 \in Active
      <4>1. j < MaxPeers - 1 /\ j + 1 \in Slot
        BY <3>2, SlotsFinite DEF Active, Slot
      <4>2. table[j + 1] \in Peer /\ table[j + 1].conn # NONE
        BY <3>2, <4>1, ChatAssumption DEF TableInv, SlotsFull
      <4>3. table'[j] = [table[j + 1] EXCEPT !.id = j]
        BY <2>2, <3>2, <4>1 DEF Moved
      <4> QED BY <3>2, <4>2, <4>3 DEF Peer, NoPeer
    <3>3. CASE ~(j < at) /\ j + 1 \notin Active
      <4>1. table'[j] = NoPeer
        BY <2>2, <3>3 DEF Moved
      <4> QED BY <2>4, <3>3, <4>1
    <3> QED BY <3>1, <3>2, <3>3
  <2>6. table' \in [Slot -> Peer]
    BY <2>2, <2>5
  <2>7. ASSUME NEW j \in Slot
        PROVE  From(j) # at /\ From(j) \in Nat /\ j \in Int /\ at \in Int
    BY <2>1, SlotsFinite
  <2>8. Active' = {j \in Slot : From(j) \in Active}
    BY <2>5 DEF Active
  <2>9. ASSUME NEW i \in Active \ {at} PROVE \E j \in Active' : From(j) = i
    <3>1. i \in 0 .. MaxPeers - 1 /\ at \in 0 .. MaxPeers - 1
      BY <2>1, SlotsFinite DEF Slot
    <3>2. CASE i < at
      BY <2>8, <3>1, <3>2, SlotsFinite
    <3>3. CASE at < i
      <4>1. i - 1 \in Slot /\ From(i - 1) = i
        BY <3>1, <3>3, SlotsFinite DEF Slot
      <4> QED BY <2>8, <4>1
    <3> QED BY <3>1, <3>2, <3>3
  <2>10. \A j, k \in Slot : From(j) = From(k) => j = k
    BY <2>7
  <2>11. CountMatchesSlots' /\ count' \in 0 .. MaxPeers
    <3> DEFINE g == [j \in Active' |-> From(j)]
    <3>1. Active' \subseteq Slot
      BY <2>8
    <3>2. g \in [Active' -> Active \ {at}]
      BY <2>7, <2>8
    <3>3. g \in Bijection(Active', Active \ {at})
      <4>1. g \in Injection(Active', Active \ {at})
        <5>1. \A a, b \in Active' : g[a] = g[b] => a = b
          BY <2>10, <3>1
        <5> HIDE DEF g
        <5> QED BY <3>2, <5>1 DEF Injection, IsInjective
      <4>2. g \in Surjection(Active', Active \ {at})
        BY <2>9, <3>2 DEF Surjection
      <4> QED BY <4>1, <4>2 DEF Bijection
    <3>4. IsFiniteSet(Active \ {at}) /\ IsFiniteSet(Active')
      <4>1. IsFiniteSet(Active \ {at})
        BY SlotsFinite, FS_RemoveElement
      <4>2. IsFiniteSet(Active')
        BY <3>1, SlotsFinite, FS_Subset
      <4> QED BY <4>1, <4>2
    <3>5. Cardinality(Active \ {at}) = Cardinality(Active')
      BY <3>3, <3>4, FS_Bijection DEF ExistsBijection
    <3>6. Cardinality(Active \ {at}) = Cardinality(Active) - 1 /\ Cardinality(Active) # 0
      BY <2>1, SlotsFinite, FS_RemoveElement, FS_EmptySet
    <3>7. CountMatchesSlots'
      BY <2>2, <3>5, <3>6 DEF TableInv, CountMatchesSlots
    <3> QED BY <2>2, <3>6, <3>7, SlotsFinite DEF TableInv, CountMatchesSlots
  <2>12. SlotsFull'
    BY <2>5, <2>8 DEF TableInv, SlotsFull
  <2>13. ListedOnce'
    BY <2>5, <2>8, <2>10 DEF TableInv, ListedOnce
  <2>14. Listed' = Listed \ {table[at].conn}
    <3>1. \A c \in Listed' : c \in Listed /\ c # table[at].conn
      BY <2>1, <2>5, <2>7, <2>8 DEF Listed, TableInv, ListedOnce
    <3>2. ASSUME NEW c \in Listed, c # table[at].conn PROVE c \in Listed'
      <4>1. PICK i \in Active \ {at} : c = table[i].conn
        BY <3>2 DEF Listed
      <4>2. PICK j \in Active' : From(j) = i
        BY <2>9
      <4>3. table'[j].conn = c
        BY <2>5, <2>8, <4>1, <4>2
      <4> QED BY <4>2, <4>3 DEF Listed
    <3> QED BY <3>1, <3>2
  <2>15. ASSUME NEW f \in Sockets \ {table[at].fd} PROVE f \in Sockets'
    <3>1. PICK i \in Active \ {at} : f = table[i].fd
      BY <2>15 DEF Sockets
    <3>2. PICK j \in Active' : From(j) = i
      BY <2>9
    <3>3. table'[j].fd = f
      BY <2>5, <2>8, <3>1, <3>2
    <3> QED BY <3>2, <3>3 DEF Sockets
  <2> QED BY <2>2, <2>3, <2>6, <2>11, <2>12, <2>13, <2>14, <2>15 DEF TableInv
<1> QED BY <1>1, <1>2

\* Clearing every slot leaves nobody listed and no socket held by a slot.
LEMMA EmptyStep ==
  ASSUME TableInv, table' = NoPeers, count' = 0
  PROVE  TableInv' /\ Listed' = {} /\ Sockets' = {}
<1>1. Active' = {}
  BY DEF Active, NoPeers
<1>2. table' \in [Slot -> Peer]
  BY SlotsFinite DEF NoPeers, NoPeer, Peer, Slot
<1>3. CountMatchesSlots'
  BY <1>1, FS_EmptySet DEF CountMatchesSlots
<1> QED BY <1>1, <1>2, <1>3, SlotsFinite
           DEF TableInv, SlotsFull, ListedOnce, Listed, Sockets
------------------------------------------------------------------------------
(* The invariant. *)

\* The parts of the invariant, taken apart before a step.
LEMMA InvParts ==
  ASSUME IndInv
  PROVE  TableInv /\ NetTypeOK /\ RestTypeOK
BY DEF IndInv, TypeOK, TableInv, NetTypeOK, RestTypeOK, Peer, Inboxes, Places

\* The parts of the invariant, put together again after a step.
LEMMA InvWhole ==
  ASSUME TableInv', NetTypeOK', RestTypeOK', GreetingInv', DialInv', SpawnInv', HeldInv'
  PROVE  IndInv'
BY DEF IndInv, TypeOK, TableInv, NetTypeOK, RestTypeOK, Peer, Inboxes, Places

\* What a step does to the connections that it lets go of.
LEMMA SettleStep ==
  ASSUME NetTypeOK, NEW q \in [Conn -> Inboxes], Settle(q)
  PROVE  /\ remote' \in [Conn -> {"none", "up", "shut", "over"}]
         /\ inbox' \in [Conn -> Inboxes] /\ timed' \in SUBSET Conn
         /\ \A c \in Conn : inbox'[c] \in {<<>>, q[c]}
         /\ \A c \in Conn : remote'[c] = "none" => remote[c] = "none"
<1> DEFINE over == Held \ Held'
<1>1. /\ remote' = [c \in Conn |-> IF c \in over THEN "over" ELSE remote[c]]
      /\ inbox' = [c \in Conn |-> IF c \in over THEN <<>> ELSE q[c]]
      /\ timed' = timed \ over
  BY DEF Settle
<1> HIDE DEF over
<1>2. <<>> \in Inboxes
  BY DEF Inboxes
<1> QED BY <1>1, <1>2 DEF NetTypeOK

\* What is left open when the numbers F are closed.
LEMMA WithoutStep ==
  ASSUME NetTypeOK, NEW F \in SUBSET Fd, fds' = Without(F)
  PROVE  /\ fds' \in [Fd -> Conn \cup {NONE}]
         /\ \A f \in Fd : fds'[f] # NONE => fds'[f] = fds[f] /\ f \notin F
BY ChatAssumption DEF NetTypeOK, Without

\* Closing numbers ends connections and changes no other.
LEMMA CloseStep ==
  ASSUME NetTypeOK, NEW F \in SUBSET Fd, Close(F)
  PROVE  NetKept(F)
<1>1. fds' = Without(F) /\ Settle(inbox) /\ inbox \in [Conn -> Inboxes]
  BY DEF Close, NetTypeOK
<1> QED BY <1>1, SettleStep, WithoutStep DEF NetKept

\* A step that leaves the sockets alone closes nothing.
LEMMA NoCloseStep ==
  ASSUME NetTypeOK, UNCHANGED netVars
  PROVE  NetKept({})
BY DEF NetTypeOK, NetKept, netVars

\* A step that leaves the table alone keeps what is known of it.
LEMMA SameTable ==
  ASSUME TableInv, UNCHANGED tableVars
  PROVE  TableInv' /\ Listed' = Listed /\ Sockets' = Sockets
BY DEF tableVars, TableInv, SlotsFull, CountMatchesSlots, ListedOnce, Active,
       Listed, Sockets

\* Most steps only close and unlist.
LEMMA KeepStep ==
  ASSUME IndInv, TableInv', RestTypeOK', NEW F, NetKept(F),
         Listed' \subseteq Listed, Sockets \ F \subseteq Sockets',
         backlog' \subseteq backlog,
         \A c \in Conn : rpc[c] = "none" =>
           rpc'[c] = "none" \/ (remote'[c] # "none" /\ c \notin backlog'),
         \A c \in Conn : rpc'[c] \in InLoop \cup {"unlist"} => sock'[c] \in Fd,
         \A c \in Conn : rpc'[c] \in Calling => on'[c] \in Conn,
         \A c \in Conn : rpc[c] \in InLoop /\ sock[c] \notin F =>
           rpc'[c] \in InLoop /\ sock'[c] = sock[c],
         \A c \in Conn : c = mconn /\ mpc' \in {"add", "greet"} => rpc'[c] = rpc[c],
         \A c \in Conn : c = aconn /\ apc' = "spawn" => rpc'[c] = rpc[c],
         \/ UNCHANGED mainVars
         \/ mpc' \notin {"add", "greet"} /\ (mpc = "add" => marg \in F),
         \/ UNCHANGED acceptVars
         \/ /\ apc' \notin {"spawn", "register"} /\ (apc = "spawn" => afd \in F)
            /\ apc' = "unlist" => afd' \in Fd
  PROVE  IndInv'
<1>1. NetTypeOK'
  BY DEF NetKept, NetTypeOK
<1>2. GreetingInv'
  <2>1. \A c \in Conn : Greets(c)' => Greets(c)
    BY DEF NetKept, Greets
  <2>2. \A c \in Conn : remote'[c] = "none" => remote[c] = "none" /\ inbox'[c] = <<>>
    BY DEF NetKept, IndInv, GreetingInv
  <2>3. backlog \subseteq Conn
    BY DEF IndInv, TypeOK
  <2> QED BY <2>1, <2>2, <2>3 DEF IndInv, GreetingInv
<1>3. DialInv'
  <2>1. CASE UNCHANGED mainVars
    <3>1. mpc \in {"add", "greet"} => mconn \in Conn
      BY DEF IndInv, DialInv, Conn
    <3> QED BY <2>1, <3>1 DEF IndInv, DialInv, mainVars, NetKept
  <2>2. CASE mpc' \notin {"add", "greet"}
    BY <2>2 DEF DialInv
  <2> QED BY <2>1, <2>2
<1>5. SpawnInv'
  <2>1. CASE UNCHANGED acceptVars
    <3>1. apc = "spawn" => aconn \in Conn
      BY DEF IndInv, SpawnInv, Conn
    <3> QED BY <2>1, <3>1 DEF IndInv, SpawnInv, acceptVars, NetKept
  <2>2. CASE apc' \notin {"spawn", "register"} /\ (apc' = "unlist" => afd' \in Fd)
    BY <2>2 DEF SpawnInv
  <2> QED BY <2>1, <2>2
<1>4. HeldInv'
  <2>1. ASSUME NEW f \in Fd, fds'[f] # NONE
        PROVE  \/ \E i \in Active' : table'[i].fd = f
               \/ \E c \in Conn : sock'[c] = f /\ rpc'[c] \in InLoop
               \/ mpc' = "add" /\ marg' = f
               \/ apc' = "spawn" /\ afd' = f
    <3>1. fds[f] # NONE /\ f \notin F
      BY <2>1 DEF NetKept
    <3>2. CASE \E i \in Active : table[i].fd = f
      <4>1. f \in Sockets'
        BY <3>1, <3>2 DEF Sockets
      <4> QED BY <4>1 DEF Sockets
    <3>3. CASE \E c \in Conn : sock[c] = f /\ rpc[c] \in InLoop
      BY <3>1, <3>3
    <3>4. CASE mpc = "add" /\ marg = f
      BY <3>1, <3>4 DEF mainVars
    <3>5. CASE apc = "spawn" /\ afd = f
      BY <3>1, <3>5 DEF acceptVars
    <3> QED BY <3>1, <3>2, <3>3, <3>4, <3>5 DEF IndInv, HeldInv
  <2> QED BY <2>1 DEF HeldInv
<1> QED BY <1>1, <1>2, <1>3, <1>4, <1>5, InvWhole

\* A step that removes by socket, and closes the socket at least if it found it.
LEMMA UnlistStep ==
  ASSUME IndInv, NEW f, NEW b \in BOOLEAN, b => f \in Fd,
         RemoveBySocket(f), CloseIf(b \/ HasSocket(f) # {}, f)
  PROVE  /\ TableInv'
         /\ \E F \in SUBSET Fd :
              /\ NetKept(F) /\ (b => f \in F)
              /\ Listed' \subseteq Listed /\ Sockets \ F \subseteq Sockets'
<1>0. TableInv /\ NetTypeOK
  BY InvParts
<1>1. CASE b \/ HasSocket(f) # {}
  <2>1. f \in Fd
    BY <1>0, <1>1, RemoveBySocketStep
  <2>2. NetKept({f})
    BY <1>0, <1>1, <2>1, CloseStep DEF CloseIf
  <2> QED BY <1>0, <2>1, <2>2, RemoveBySocketStep
<1>2. CASE ~(b \/ HasSocket(f) # {})
  <2>1. NetKept({})
    BY <1>0, <1>2, NoCloseStep DEF CloseIf
  <2> QED BY <1>0, <1>2, <2>1, RemoveBySocketStep
<1> QED BY <1>1, <1>2

\* A second message behind the first.
LEMMA AppendOne ==
  ASSUME NEW a, NEW b
  PROVE  Append(<<a>>, b) = <<a, b>>
<1> DEFINE S == {a, b}
<1>1. <<a>> \in Seq(S) /\ <<a, b>> \in Seq(S)
  OBVIOUS
<1>2. Append(<<a>>, b) \in Seq(S) /\ Len(Append(<<a>>, b)) = 2
  BY <1>1
<1>3. Append(<<a>>, b)[1] = a
  BY <1>1
<1>4. Append(<<a>>, b)[2] = b
  BY <1>1
<1>5. \A i \in 1 .. 2 : Append(<<a>>, b)[i] = <<a, b>>[i]
  BY <1>3, <1>4
<1> HIDE DEF S
<1> QED BY <1>1, <1>2, <1>5, SeqEqual

\* Appending a "terminate" makes no greeting, and what is left of a message
\* is none.
LEMMA InboxStep ==
  /\ \A q \in {<<>>, <<"connect">>} :
       /\ Append(q, "terminate") \in Inboxes
       /\ Head(Append(q, "terminate")) = "connect" => q # <<>> /\ Head(q) = "connect"
       /\ Append(q, "terminate") # <<>>
  /\ \A q \in Inboxes : q # <<>> => Tail(q) \in {<<>>, <<"terminate">>}
  /\ Head(<<"terminate">>) # "connect"
<1>1. Append(<<>>, "terminate") = <<"terminate">>
  OBVIOUS
<1>2. Append(<<"connect">>, "terminate") = <<"connect", "terminate">>
  BY AppendOne
<1>3. ASSUME NEW q \in Inboxes, q # <<>> PROVE Tail(q) \in {<<>>, <<"terminate">>}
  <2>1. CASE q = <<"connect">>
    BY <2>1
  <2>2. CASE q = <<"terminate">>
    BY <2>2
  <2>3. CASE q = <<"connect", "terminate">>
    BY <2>3
  <2> QED BY <1>3, <2>1, <2>2, <2>3 DEF Inboxes
<1>4. Head(<<"terminate">>) = "terminate" /\ Head(<<"connect">>) = "connect"
  OBVIOUS
<1>5. Head(<<"connect", "terminate">>) = "connect" /\ <<"connect", "terminate">> # <<>>
  OBVIOUS
<1>6. <<"connect">> # <<>> /\ <<"terminate">> # <<>>
  OBVIOUS
<1> QED BY <1>1, <1>2, <1>3, <1>4, <1>5, <1>6 DEF Inboxes

\* The invariant holds when the program starts.
LEMMA InitInv == Init => IndInv
<1> SUFFICES ASSUME Init PROVE IndInv
  OBVIOUS
<1>1. Active = {}
  BY DEF Init, NoPeers, Active
<1>2. CountMatchesSlots
  BY <1>1, FS_EmptySet DEF Init, CountMatchesSlots
<1>3. TypeOK
  <2>1. table \in [Slot -> Peer] /\ count \in 0 .. MaxPeers
    BY SlotsFinite DEF Init, NoPeers, NoPeer, Peer, Slot
  <2>2. stop \in BOOLEAN
    BY DEF Init
  <2>3. NetTypeOK
    BY DEF Init, NetTypeOK, Inboxes
  <2>4. managed \in SUBSET (Conn \cup {"accept"})
    BY DEF Init
  <2> QED BY <2>1, <2>2, <2>3, <2>4 DEF Init, TypeOK, NetTypeOK, Peer, Inboxes
<1>4. SlotsFull /\ ListedOnce /\ Listed = {}
  BY <1>1 DEF SlotsFull, ListedOnce, Listed
<1>5. GreetingInv
  BY <1>4 DEF Init, GreetingInv, Greets
<1>6. DialInv /\ SpawnInv /\ HeldInv
  BY DEF Init, DialInv, SpawnInv, HeldInv, InLoop, Calling
<1> QED BY <1>2, <1>3, <1>4, <1>5, <1>6 DEF IndInv

\* close_all_peers empties the table and closes every socket in it.
LEMMA ClearStep ==
  ASSUME IndInv, CloseAllPeers
  PROVE  TableInv' /\ Listed' = {} /\ Sockets' = {} /\ NetKept(Sockets)
<1>1. TableInv /\ NetTypeOK
  BY InvParts
<1>2. Sockets \in SUBSET Fd
  BY DEF IndInv, SlotsFull, Sockets
<1>3. Close(Sockets)
  BY DEF CloseAllPeers, Sockets
<1> QED BY <1>1, <1>2, <1>3, CloseStep, EmptyStep DEF CloseAllPeers
------------------------------------------------------------------------------
(* The steps, one lemma for each thread. *)

\* What other programs and signals do keeps the invariant.
LEMMA RemoteInv ==
  ASSUME IndInv, Remote \/ Interrupt
  PROVE  IndInv'
<1>0. TableInv /\ NetTypeOK /\ RestTypeOK
  BY InvParts
<1> USE DEF mainVars, acceptVars, recvVars
<1>1. ASSUME NEW c \in Inbound, RemoteConnects(c) PROVE IndInv'
  <2>0. c \in Conn /\ remote[c] = "none"
    BY <1>1 DEF RemoteConnects, Conn
  <2>1. TableInv' /\ Listed' = Listed /\ Sockets' = Sockets
    BY <1>0, <1>1, SameTable DEF RemoteConnects
  <2>2. NetTypeOK' /\ RestTypeOK'
    BY <1>0, <1>1, <2>0 DEF RemoteConnects, NetTypeOK, RestTypeOK, Inboxes
  <2>3. c \notin Listed /\ rpc[c] = "none"
    BY <2>0 DEF IndInv, GreetingInv
  <2>4. GreetingInv'
    BY <1>0, <1>1, <2>0, <2>1, <2>3
       DEF RemoteConnects, IndInv, GreetingInv, Greets, NetTypeOK, RestTypeOK
  <2>5. DialInv'
    BY <1>0, <1>1, <2>0, <2>1 DEF RemoteConnects, IndInv, DialInv, NetTypeOK
  <2>6. HeldInv'
    BY <1>1 DEF RemoteConnects, IndInv, HeldInv, tableVars, Active
  <2>7. SpawnInv'
    BY <1>0, <1>1, <2>0 DEF RemoteConnects, IndInv, SpawnInv, NetTypeOK
  <2> QED BY <2>1, <2>2, <2>4, <2>5, <2>6, <2>7, InvWhole
<1>2. ASSUME NEW c \in Conn, RemoteTerminates(c) PROVE IndInv'
  <2>1. TableInv' /\ Listed' = Listed /\ Sockets' = Sockets
    BY <1>0, <1>2, SameTable DEF RemoteTerminates
  <2>2. NetTypeOK' /\ RestTypeOK'
    <3>1. Append(inbox[c], "terminate") \in Inboxes
      BY <1>2, InboxStep DEF RemoteTerminates
    <3> QED BY <1>0, <1>2, <3>1 DEF RemoteTerminates, NetTypeOK, RestTypeOK
  <2>3. \A d \in Conn : Greets(d)' => Greets(d)
    BY <1>0, <1>2, InboxStep DEF RemoteTerminates, Greets, NetTypeOK
  <2>4. GreetingInv'
    BY <1>0, <1>2, <2>1, <2>3 DEF RemoteTerminates, IndInv, GreetingInv, NetTypeOK
  <2>5. DialInv'
    BY <1>2, <2>1 DEF RemoteTerminates, IndInv, DialInv
  <2>6. HeldInv'
    BY <1>2 DEF RemoteTerminates, IndInv, HeldInv, tableVars, Active
  <2>7. SpawnInv'
    BY <1>2 DEF RemoteTerminates, IndInv, SpawnInv
  <2> QED BY <2>1, <2>2, <2>4, <2>5, <2>6, <2>7, InvWhole
<1>3. ASSUME NEW c \in Conn, RemoteShuts(c) PROVE IndInv'
  <2>1. TableInv' /\ Listed' = Listed /\ Sockets' = Sockets
    BY <1>0, <1>3, SameTable DEF RemoteShuts
  <2>2. RestTypeOK' /\ NetKept({})
    BY <1>0, <1>3 DEF RemoteShuts, RestTypeOK, NetTypeOK, NetKept
  <2> QED BY <1>3, <2>1, <2>2, KeepStep DEF RemoteShuts, IndInv, HeldInv
<1>4. CASE Interrupt
  <2>1. TableInv' /\ Listed' = Listed /\ Sockets' = Sockets /\ NetKept({})
    BY <1>0, <1>4, SameTable, NoCloseStep DEF Interrupt
  <2>2. stop' \in BOOLEAN
    BY <1>4 DEF Interrupt
  <2>3. RestTypeOK'
    BY <1>0, <1>4, <2>2 DEF Interrupt, RestTypeOK
  <2> QED BY <1>4, <2>1, <2>3, KeepStep DEF Interrupt, IndInv, HeldInv
<1>5. Terminating \subseteq Conn /\ Leaving \subseteq Conn
  BY ChatAssumption
<1> QED BY <1>1, <1>2, <1>3, <1>4, <1>5 DEF Remote

\* The commands keep the invariant.
LEMMA CommandInv ==
  ASSUME IndInv, Command
  PROVE  IndInv'
<1>0. TableInv /\ NetTypeOK /\ RestTypeOK
  BY InvParts
<1> USE DEF mainVars, acceptVars, recvVars
<1>1. ASSUME NEW c \in Outbound, ConnectCommand(c) PROVE IndInv'
  <2>0. c \in Conn /\ c # NONE /\ mpc = "prompt" /\ remote[c] = "none"
    BY <1>1, ChatAssumption DEF ConnectCommand, Conn
  <2>1. TableInv' /\ Listed' = Listed /\ Sockets' = Sockets
    BY <1>0, <1>1, SameTable DEF ConnectCommand
  <2>2. marg' \in Fd /\ fds' = [fds EXCEPT ![marg'] = c]
    <3>1. FreeFds \subseteq Nat /\ FreeFds \subseteq Fd
      BY ChatAssumption DEF FreeFds
    <3> QED BY <1>1, <3>1, FirstIn DEF ConnectCommand, EstablishConnection
  <2>3. NetTypeOK' /\ RestTypeOK'
    BY <1>0, <1>1, <2>0, <2>2
       DEF ConnectCommand, EstablishConnection, NetTypeOK, RestTypeOK
  <2>4. rpc[c] = "none" /\ c \notin Listed /\ inbox[c] = <<>>
    BY <2>0 DEF IndInv, GreetingInv
  <2>5. GreetingInv'
    BY <1>0, <1>1, <2>0, <2>1
       DEF ConnectCommand, EstablishConnection, IndInv, GreetingInv, Greets, NetTypeOK
  <2>6. DialInv'
    BY <1>0, <1>1, <2>0, <2>1, <2>2, <2>4
       DEF ConnectCommand, EstablishConnection, DialInv, NetTypeOK
  <2>7. HeldInv'
    BY <1>0, <1>1, <2>0, <2>2
       DEF ConnectCommand, IndInv, HeldInv, tableVars, Active, NetTypeOK
  <2>8. SpawnInv'
    BY <1>0, <1>1, <2>0
       DEF ConnectCommand, EstablishConnection, IndInv, SpawnInv, NetTypeOK, Conn
  <2> QED BY <2>1, <2>3, <2>5, <2>6, <2>7, <2>8, InvWhole
<1>2. ASSUME NEW i \in Slot, TerminateCommand(i) PROVE IndInv'
  <2>1. TableInv' /\ Listed' = Listed /\ Sockets' = Sockets /\ NetKept({})
    BY <1>0, <1>2, SameTable, NoCloseStep DEF TerminateCommand
  <2>2. RestTypeOK'
    BY <1>0, <1>2 DEF TerminateCommand, RestTypeOK
  <2> QED BY <1>2, <2>1, <2>2, KeepStep DEF TerminateCommand, IndInv, HeldInv
<1>3. CASE InputEnds
  <2>1. TableInv' /\ Listed' = Listed /\ Sockets' = Sockets /\ NetKept({})
    BY <1>0, <1>3, SameTable, NoCloseStep DEF InputEnds
  <2>2. RestTypeOK'
    BY <1>0, <1>3 DEF InputEnds, RestTypeOK
  <2> QED BY <1>3, <2>1, <2>2, KeepStep DEF InputEnds, IndInv, HeldInv
<1>4. CASE ExitCommand
  <2>1. TableInv' /\ Listed' = {} /\ Sockets' = {} /\ NetKept(Sockets)
    BY <1>4, ClearStep DEF ExitCommand
  <2>2. stop' \in BOOLEAN
    BY <1>4 DEF ExitCommand
  <2>3. RestTypeOK'
    BY <1>0, <1>4, <2>2 DEF ExitCommand, RestTypeOK
  <2> QED BY <1>4, <2>1, <2>3, KeepStep DEF ExitCommand, IndInv, HeldInv
<1> QED BY <1>1, <1>2, <1>3, <1>4 DEF Command

\* The rest of the main thread, and SIGPIPE, keep the invariant.
LEMMA MainInv ==
  ASSUME IndInv, MainThread \/ KilledBySend
  PROVE  IndInv'
<1>0. TableInv /\ NetTypeOK /\ RestTypeOK
  BY InvParts
<1> USE DEF mainVars, acceptVars, recvVars
<1>1. CASE Added
  <2>1. mconn \in Outbound /\ mconn \in Conn /\ marg \in Fd /\ mconn \notin Listed
        /\ remote[mconn] # "none" /\ rpc[mconn] = "none"
    BY <1>1 DEF Added, IndInv, DialInv, Conn
  <2>2. TableInv' /\ Listed' = Listed \cup {mconn} /\ Sockets \subseteq Sockets' /\ marg \in Sockets'
    BY <1>0, <1>1, <2>1, AddStep DEF Added
  <2>3. NetTypeOK' /\ RestTypeOK'
    BY <1>0, <1>1 DEF Added, netVars, NetTypeOK, RestTypeOK
  <2>4. GreetingInv'
    <3>1. mconn \notin Inbound
      BY <2>1, ChatAssumption
    <3> QED BY <1>1, <2>1, <2>2, <3>1 DEF Added, netVars, IndInv, GreetingInv, Greets
  <2>5. DialInv'
    BY <1>1, <2>1 DEF Added, netVars, DialInv
  <2>6. HeldInv'
    <3>1. \A f \in Fd : f \in Sockets => \E i \in Active' : table'[i].fd = f
      BY <2>2 DEF Sockets
    <3>2. \E i \in Active' : table'[i].fd = marg
      BY <2>2 DEF Sockets
    <3> QED BY <1>1, <3>1, <3>2 DEF Added, netVars, IndInv, HeldInv, Sockets
  <2>7. SpawnInv'
    BY <1>1 DEF Added, netVars, IndInv, SpawnInv
  <2> QED BY <2>2, <2>3, <2>4, <2>5, <2>6, <2>7, InvWhole
<1>2. CASE NotAdded
  <2>0. marg \in Fd
    BY <1>2 DEF NotAdded, IndInv, DialInv
  <2>1. TableInv' /\ Listed' = Listed /\ Sockets' = Sockets /\ NetKept({marg})
    BY <1>0, <1>2, <2>0, SameTable, CloseStep DEF NotAdded
  <2>2. RestTypeOK'
    BY <1>0, <1>2 DEF NotAdded, NextCommand, RestTypeOK
  <2> QED BY <1>2, <2>1, <2>2, KeepStep DEF NotAdded, NextCommand, IndInv, HeldInv
<1>3. CASE ReceiverStarts
  <2>1. mconn \in Outbound /\ mconn \in Conn /\ marg \in Fd
        /\ remote[mconn] # "none" /\ rpc[mconn] = "none" /\ mpc = "greet"
    BY <1>3 DEF ReceiverStarts, IndInv, DialInv, Conn
  <2>2. TableInv' /\ Listed' = Listed
    BY <1>0, <1>3, SameTable DEF ReceiverStarts
  <2>3. NetTypeOK' /\ RestTypeOK'
    <3>1. managed' \in SUBSET (Conn \cup {"accept"})
      BY <1>0, <1>3, <2>1 DEF ReceiverStarts, Manage, RestTypeOK
    <3> QED BY <1>0, <1>3, <2>1, <3>1
            DEF ReceiverStarts, StartReceiver, NextCommand, netVars, NetTypeOK, RestTypeOK,
                Places, InLoop
  <2>4. GreetingInv'
    <3>1. mconn \notin backlog
      BY <2>1, ChatAssumption DEF IndInv, GreetingInv
    <3>2. \A c \in Conn : c # mconn => rpc'[c] = rpc[c]
      BY <1>0, <1>3 DEF ReceiverStarts, StartReceiver, RestTypeOK
    <3>3. backlog \subseteq Conn
      BY <1>0 DEF RestTypeOK
    <3> QED BY <1>3, <2>1, <2>2, <3>1, <3>2, <3>3
            DEF ReceiverStarts, netVars, IndInv, GreetingInv, Greets
  <2>5. DialInv'
    BY <1>3 DEF ReceiverStarts, NextCommand, DialInv
  <2>6. HeldInv'
    <3>1. Active' = Active /\ mpc' # "add"
          /\ UNCHANGED <<tableVars, netVars, acceptVars, on>>
      BY <1>3 DEF ReceiverStarts, StartReceiver, NextCommand, tableVars, Active
    <3>2. "start" \in InLoop /\ "start" \notin Calling
      BY DEF InLoop, Calling
    <3>3. /\ rpc'[mconn] = "start" /\ sock'[mconn] = marg
          /\ \A d \in Conn : d # mconn => rpc'[d] = rpc[d] /\ sock'[d] = sock[d]
      BY <1>0, <1>3, <2>1 DEF ReceiverStarts, StartReceiver, RestTypeOK
    <3>4. \A d \in Conn : rpc'[d] \in InLoop \cup {"unlist"} => sock'[d] \in Fd
      BY <2>1, <3>3 DEF IndInv, HeldInv
    <3>5. \A d \in Conn : rpc'[d] \in Calling => on'[d] \in Conn
      BY <3>1, <3>2, <3>3 DEF IndInv, HeldInv
    <3>6. ASSUME NEW f \in Fd, fds'[f] # NONE
          PROVE  \/ \E i \in Active : table[i].fd = f
                 \/ \E d \in Conn : sock'[d] = f /\ rpc'[d] \in InLoop
                 \/ mpc' = "add" /\ marg' = f
                 \/ apc' = "spawn" /\ afd' = f
      <4>1. \/ \E i \in Active : table[i].fd = f
            \/ \E d \in Conn : sock[d] = f /\ rpc[d] \in InLoop
            \/ mpc = "add" /\ marg = f
            \/ apc = "spawn" /\ afd = f
        BY <3>1, <3>6 DEF IndInv, HeldInv, netVars
      <4>2. "none" \notin InLoop
        BY DEF InLoop, Calling
      <4> QED BY <2>1, <3>1, <3>2, <3>3, <4>1, <4>2 DEF mainVars, acceptVars
    <3> QED BY <3>1, <3>4, <3>5, <3>6 DEF HeldInv, tableVars
  <2>7. SpawnInv'
    <3>1. apc = "spawn" => aconn # mconn
      BY <2>1, ChatAssumption DEF IndInv, SpawnInv
    <3> QED BY <1>0, <1>3, <3>1
            DEF ReceiverStarts, StartReceiver, netVars, IndInv, SpawnInv, RestTypeOK
  <2> QED BY <2>2, <2>3, <2>4, <2>5, <2>6, <2>7, InvWhole
<1>4. CASE ReceiverFails
  <2>1. TableInv' /\ Listed' = Listed /\ Sockets' = Sockets /\ NetKept({})
    BY <1>0, <1>4, SameTable, NoCloseStep DEF ReceiverFails
  <2>2. RestTypeOK'
    BY <1>0, <1>4 DEF ReceiverFails, NextCommand, RestTypeOK
  <2> QED BY <1>4, <2>1, <2>2, KeepStep DEF ReceiverFails, NextCommand, IndInv, HeldInv
<1>5. CASE Removes
  <2>1. RestTypeOK'
    BY <1>0, <1>5 DEF Removes, NextCommand, RestTypeOK
  <2>2. TableInv' /\ \E F \in SUBSET Fd :
          NetKept(F) /\ Listed' \subseteq Listed /\ Sockets \ F \subseteq Sockets'
    <3>1. TableInv'
      BY <1>0, <1>5, RemoveByIdStep DEF Removes, IndInv
    <3>2. CASE UNCHANGED <<tableVars, netVars>>
      <4>1. NetKept({})
        BY <1>0, <3>2, NoCloseStep
      <4> QED BY <1>0, <3>1, <3>2, <4>1, SameTable
    <3>3. ASSUME NEW f \in Fd, NEW c \in Conn, Close({f}),
                 Sockets \ {f} \subseteq Sockets', Listed' = Listed \ {c}
          PROVE  \E F \in SUBSET Fd :
                   NetKept(F) /\ Listed' \subseteq Listed /\ Sockets \ F \subseteq Sockets'
      <4>1. NetKept({f})
        BY <1>0, <3>3, CloseStep
      <4> QED BY <3>3, <4>1
    <3> QED BY <1>0, <1>5, <3>1, <3>2, <3>3, RemoveByIdStep DEF Removes, IndInv
  <2> QED BY <1>5, <2>1, <2>2, KeepStep DEF Removes, NextCommand, IndInv, HeldInv
<1>6. CASE StopServer
  <2>1. TableInv' /\ Listed' = Listed /\ Sockets' = Sockets /\ NetKept({})
    BY <1>0, <1>6, SameTable, NoCloseStep DEF StopServer
  <2>2. stop' \in BOOLEAN
    BY <1>6 DEF StopServer
  <2>3. RestTypeOK'
    BY <1>0, <1>6, <2>2 DEF StopServer, RestTypeOK
  <2> QED BY <1>6, <2>1, <2>3, KeepStep DEF StopServer, IndInv, HeldInv
<1>7. CASE StopPeers \/ JoinsAndReturns
  <2>1. TableInv' /\ Listed' = {} /\ Sockets' = {} /\ NetKept(Sockets)
    BY <1>7, ClearStep DEF StopPeers, JoinsAndReturns
  <2>2. RestTypeOK'
    BY <1>0, <1>7 DEF StopPeers, JoinsAndReturns, RestTypeOK
  <2> QED BY <1>7, <2>1, <2>2, KeepStep DEF StopPeers, JoinsAndReturns, IndInv, HeldInv
<1>8. CASE KilledBySend
  <2>1. TableInv' /\ Listed' = {} /\ Sockets' = {}
    BY <1>0, <1>8, EmptyStep DEF KilledBySend
  <2>2. RestTypeOK' /\ NetKept(Fd)
    BY <1>0, <1>8 DEF KilledBySend, RestTypeOK, NetKept, Inboxes, Places
  <2>3. Sockets \subseteq Fd
    BY <1>0 DEF TableInv, SlotsFull, Sockets
  <2>4. apc = "spawn" => afd \in Fd
    BY DEF IndInv, SpawnInv
  <2> QED BY <1>8, <2>1, <2>2, <2>3, <2>4, KeepStep
          DEF KilledBySend, IndInv, HeldInv, DialInv, InLoop, Calling
<1> QED BY <1>1, <1>2, <1>3, <1>4, <1>5, <1>6, <1>7, <1>8 DEF MainThread

\* The accept thread keeps the invariant.
LEMMA AcceptInv ==
  ASSUME IndInv, AcceptThread \/ \E c \in Inbound : Accepts(c)
  PROVE  IndInv'
<1>0. TableInv /\ NetTypeOK /\ RestTypeOK
  BY InvParts
<1> USE DEF mainVars, acceptVars, recvVars
<1>1. ASSUME NEW c \in Inbound, Accepts(c) PROVE IndInv'
  <2> DEFINE f == First(FreeFds)
  <2>0. c \in Conn /\ c \in backlog /\ rpc[c] = "none" /\ f \in Fd
    <3>1. FreeFds \subseteq Nat /\ FreeFds \subseteq Fd
      BY ChatAssumption DEF FreeFds
    <3> QED BY <1>1, <3>1, FirstIn DEF Accepts, IndInv, GreetingInv, Conn
  <2>00. /\ fds' = [fds EXCEPT ![f] = c] /\ backlog' = backlog \ {c}
         /\ apc = "accept" /\ apc' = "spawn" /\ aconn' = c /\ afd' = f
         /\ UNCHANGED <<tableVars, remote, inbox, timed, stop, mainVars, recvVars, managed>>
    BY <1>1 DEF Accepts
  <2> HIDE DEF f
  <2>1. TableInv' /\ Listed' = Listed
    BY <1>0, <2>00, SameTable
  <2>2. NetTypeOK' /\ RestTypeOK'
    BY <1>0, <2>0, <2>00 DEF NetTypeOK, RestTypeOK
  <2>3. remote[c] # "none"
    BY <2>0 DEF IndInv, GreetingInv
  <2>4. GreetingInv'
    BY <2>00, <2>1 DEF IndInv, GreetingInv, Greets
  <2>5. DialInv' /\ SpawnInv'
    BY <2>0, <2>00, <2>1, <2>3 DEF IndInv, DialInv, SpawnInv
  <2>6. HeldInv'
    <3>1. \A g \in Fd : g # f => fds'[g] = fds[g]
      BY <1>0, <2>00 DEF NetTypeOK
    <3>2. Active' = Active
      BY <2>00 DEF tableVars, Active
    <3> QED BY <2>00, <3>1, <3>2 DEF IndInv, HeldInv, tableVars
  <2> QED BY <2>1, <2>2, <2>4, <2>5, <2>6, InvWhole
<1>2. CASE Spawns
  <2>0. /\ aconn \in Inbound /\ aconn \in Conn /\ aconn \notin backlog /\ afd \in Fd
        /\ remote[aconn] # "none" /\ rpc[aconn] = "none"
    BY <1>2 DEF Spawns, IndInv, SpawnInv, Conn
  <2>00. /\ rpc' = [rpc EXCEPT ![aconn] = "start"] /\ sock' = [sock EXCEPT ![aconn] = afd]
         /\ apc' = "register" /\ afd' = NONE /\ apc = "spawn"
         /\ UNCHANGED <<tableVars, netVars, stop, mainVars, aconn, on, managed, backlog>>
    BY <1>2 DEF Spawns, StartReceiver
  <2>1. TableInv' /\ Listed' = Listed
    BY <1>0, <2>00, SameTable
  <2>2. NetTypeOK' /\ RestTypeOK'
    BY <1>0, <2>0, <2>00 DEF netVars, NetTypeOK, RestTypeOK, Places, InLoop
  <2>3. /\ rpc'[aconn] = "start" /\ sock'[aconn] = afd
        /\ \A d \in Conn : d # aconn => rpc'[d] = rpc[d] /\ sock'[d] = sock[d]
    BY <1>0, <2>0, <2>00 DEF RestTypeOK
  <2>4. GreetingInv'
    <3>1. backlog \subseteq Conn
      BY <1>0 DEF RestTypeOK
    <3> QED BY <2>0, <2>00, <2>1, <2>3, <3>1
            DEF netVars, IndInv, GreetingInv, Greets
  <2>5. DialInv' /\ SpawnInv'
    <3>1. mpc \in {"add", "greet"} => mconn # aconn /\ mconn \in Conn
      BY <2>0, ChatAssumption DEF IndInv, DialInv, Conn
    <3> QED BY <2>0, <2>00, <2>1, <2>3, <3>1 DEF netVars, IndInv, DialInv, SpawnInv
  <2>6. HeldInv'
    <3>1. Active' = Active
      BY <2>00 DEF tableVars, Active
    <3>2. "start" \in InLoop /\ "start" \notin Calling
      BY DEF InLoop, Calling
    <3>3. \A d \in Conn : rpc'[d] \in InLoop \cup {"unlist"} => sock'[d] \in Fd
      BY <2>0, <2>3 DEF IndInv, HeldInv
    <3>4. \A d \in Conn : rpc'[d] \in Calling => on'[d] \in Conn
      BY <2>00, <3>2, <2>3 DEF IndInv, HeldInv
    <3>5. ASSUME NEW f \in Fd, fds'[f] # NONE
          PROVE  \/ \E i \in Active : table[i].fd = f
                 \/ \E d \in Conn : sock'[d] = f /\ rpc'[d] \in InLoop
                 \/ mpc' = "add" /\ marg' = f
                 \/ apc' = "spawn" /\ afd' = f
      <4>1. \/ \E i \in Active : table[i].fd = f
            \/ \E d \in Conn : sock[d] = f /\ rpc[d] \in InLoop
            \/ mpc = "add" /\ marg = f
            \/ apc = "spawn" /\ afd = f
        BY <2>00, <3>5 DEF IndInv, HeldInv, netVars
      <4>2. "none" \notin InLoop
        BY DEF InLoop, Calling
      <4> QED BY <2>0, <2>00, <3>2, <2>3, <4>1, <4>2 DEF mainVars, acceptVars
    <3> QED BY <2>00, <3>1, <3>3, <3>4, <3>5 DEF HeldInv, tableVars
  <2> QED BY <2>1, <2>2, <2>4, <2>5, <2>6, InvWhole
<1>3. CASE SpawnFails
  <2>0. afd \in Fd
    BY <1>3 DEF SpawnFails, IndInv, SpawnInv
  <2>1. TableInv' /\ Listed' = Listed /\ Sockets' = Sockets /\ NetKept({afd})
    BY <1>0, <1>3, <2>0, SameTable, CloseStep DEF SpawnFails
  <2>2. RestTypeOK'
    BY <1>0, <1>3 DEF SpawnFails, RestTypeOK
  <2> QED BY <1>3, <2>0, <2>1, <2>2, KeepStep DEF SpawnFails, IndInv, HeldInv
<1>4. CASE AcceptUnlists
  <2>1. TableInv' /\ \E F \in SUBSET Fd :
          NetKept(F) /\ Listed' \subseteq Listed /\ Sockets \ F \subseteq Sockets'
    BY <1>4, UnlistStep DEF AcceptUnlists
  <2>2. RestTypeOK'
    BY <1>0, <1>4 DEF AcceptUnlists, NextAccept, RestTypeOK
  <2> QED BY <1>4, <2>1, <2>2, KeepStep DEF AcceptUnlists, NextAccept, IndInv, HeldInv
<1>5. CASE AcceptFails \/ Registers
  <2>1. TableInv' /\ Listed' = Listed /\ Sockets' = Sockets /\ NetKept({})
    BY <1>0, <1>5, SameTable, NoCloseStep DEF AcceptFails, Registers
  <2>2. managed' \in SUBSET (Conn \cup {"accept"})
    BY <1>0, <1>5 DEF AcceptFails, Registers, Manage, IndInv, SpawnInv, RestTypeOK
  <2>3. RestTypeOK'
    BY <1>0, <1>5, <2>2 DEF AcceptFails, Registers, NextAccept, RestTypeOK
  <2> QED BY <1>5, <2>1, <2>3, KeepStep DEF AcceptFails, Registers, NextAccept, IndInv, HeldInv
<1> QED BY <1>1, <1>2, <1>3, <1>4, <1>5 DEF AcceptThread

\* A receive thread that leaves the table alone or removes from it.
LEMMA ReceiverKeeps ==
  ASSUME IndInv, TableInv', NEW c \in Conn, NEW p \in InLoop \cup {"unlist", "end"},
         NEW F, NetKept(F), Listed' \subseteq Listed, Sockets \ F \subseteq Sockets',
         rpc[c] \in InLoop \cup {"unlist"}, rpc' = [rpc EXCEPT ![c] = p],
         rpc[c] \in InLoop /\ sock[c] \notin F => p \in InLoop,
         \/ UNCHANGED sock
         \/ p = "end" /\ sock' = [sock EXCEPT ![c] = NONE],
         NEW d \in Conn \cup {NONE}, on' = [on EXCEPT ![c] = d],
         p \in Calling => d \in Conn,
         rpc[c] = "unlist" => p = "end",
         UNCHANGED <<stop, mainVars, acceptVars, managed, backlog>>
  PROVE  IndInv'
<1>1. RestTypeOK
  BY InvParts
<1>2. RestTypeOK'
  BY <1>1 DEF RestTypeOK, Places, mainVars, acceptVars
<1>3. /\ rpc'[c] = p /\ on'[c] = d
      /\ \A e \in Conn : e # c => rpc'[e] = rpc[e] /\ on'[e] = on[e] /\ sock'[e] = sock[e]
  BY <1>1 DEF RestTypeOK
<1>4. "none" \notin InLoop /\ "unlist" \notin InLoop /\ "end" \notin InLoop
  BY DEF InLoop, Calling
<1>5. \A e \in Conn : rpc[e] = "none" => e # c /\ rpc'[e] = "none"
  BY <1>3, <1>4
<1>6. \A e \in Conn : rpc'[e] \in InLoop \cup {"unlist"} => sock'[e] \in Fd
  BY <1>3, <1>4 DEF IndInv, HeldInv
<1>7. \A e \in Conn : rpc'[e] \in Calling => on'[e] \in Conn
  BY <1>3 DEF IndInv, HeldInv
<1>8. \A e \in Conn : rpc[e] \in InLoop /\ sock[e] \notin F =>
        rpc'[e] \in InLoop /\ sock'[e] = sock[e]
  BY <1>3, <1>4
<1>9. \A e \in Conn : e = mconn /\ mpc' \in {"add", "greet"} => rpc'[e] = rpc[e]
  BY <1>5 DEF IndInv, DialInv, mainVars
<1>10. \A e \in Conn : e = aconn /\ apc' = "spawn" => rpc'[e] = rpc[e]
  BY <1>5 DEF IndInv, SpawnInv, acceptVars
<1> QED BY <1>2, <1>5, <1>6, <1>7, <1>8, <1>9, <1>10, KeepStep

\* The receive threads keep the invariant.
LEMMA ReceiverInv ==
  ASSUME IndInv, NEW c \in Conn, Receiver(c)
  PROVE  IndInv'
<1>0. TableInv /\ NetTypeOK /\ RestTypeOK /\ on[c] \in Conn \cup {NONE}
      /\ on = [on EXCEPT ![c] = on[c]]
  BY InvParts DEF RestTypeOK
<1>p. /\ "start" \in InLoop /\ "loop" \in InLoop /\ Calling \subseteq InLoop
      /\ "loop" \notin Calling /\ "unlist" \notin InLoop /\ "end" \notin InLoop
      /\ "recv" \in Calling
  BY DEF InLoop, Calling
<1>s. sock[c] \in Fd /\ {sock[c]} \in SUBSET Fd
  BY <1>p DEF Receiver, SetsTimeout, Calls, TimesOut, HandlesConnect, HandlesTerminate,
              EndOfStream, LeavesLoop, Unlists, IndInv, HeldInv
<1>n. inbox \in [Conn -> Inboxes] /\ NONE \in Conn \cup {NONE}
  BY <1>0 DEF NetTypeOK
<1>1. CASE SetsTimeout(c)
  <2>1. TableInv' /\ Listed' = Listed /\ Sockets' = Sockets
    BY <1>0, <1>1, SameTable DEF SetsTimeout
  <2>2. NetKept({})
    BY <1>0, <1>1, <1>s DEF SetsTimeout, NetTypeOK, NetKept
  <2> QED BY <1>0, <1>1, <1>p, <2>1, <2>2, ReceiverKeeps DEF SetsTimeout
<1>2. CASE Calls(c)
  <2>1. TableInv' /\ Listed' = Listed /\ Sockets' = Sockets /\ NetKept({})
    BY <1>0, <1>2, SameTable, NoCloseStep DEF Calls
  <2>2. fds[sock[c]] \in Conn
    BY <1>0, <1>2, <1>s DEF Calls, NetTypeOK
  <2>3. PICK p \in Calling : rpc' = [rpc EXCEPT ![c] = p]
    BY <1>2 DEF Calls, Calling
  <2>4. /\ rpc[c] = "loop" /\ on' = [on EXCEPT ![c] = fds[sock[c]]]
        /\ UNCHANGED <<sock, stop, mainVars, acceptVars, managed, backlog>>
    BY <1>2 DEF Calls
  <2>5. p \in InLoop
    BY <1>p
  <2> QED BY <1>p, <2>1, <2>2, <2>3, <2>4, <2>5, ReceiverKeeps
<1>3. CASE TimesOut(c)
  <2>1. TableInv' /\ Listed' = Listed /\ Sockets' = Sockets
    BY <1>0, <1>3, SameTable DEF TimesOut
  <2>2. NetKept({})
    BY <1>0, <1>3, <1>n, SettleStep DEF TimesOut, NetTypeOK, NetKept
  <2> QED BY <1>3, <1>n, <1>p, <2>1, <2>2, ReceiverKeeps DEF TimesOut, Returns
<1>4. CASE HandlesConnect(c)
  <2> DEFINE d == on[c]
  <2>0. d \in Conn /\ Greets(d) /\ rpc[c] \in Calling
    BY <1>4 DEF HandlesConnect, IndInv, HeldInv
  <2>1. d \in Inbound /\ d \notin Listed /\ remote[d] # "none"
    BY <2>0 DEF IndInv, GreetingInv, Greets
  <2>2. TableInv' /\ Listed' \subseteq Listed \cup {d} /\ Sockets \subseteq Sockets'
    BY <1>0, <1>4, <1>s, <2>0, <2>1, AddStep DEF HandlesConnect
  <2>3. RestTypeOK'
    <3>1. "loop" \in Places
      BY <1>p DEF Places
    <3> QED BY <1>0, <1>4, <3>1 DEF HandlesConnect, Returns, RestTypeOK, mainVars, acceptVars
  <2>4. /\ rpc'[c] = "loop" /\ UNCHANGED <<fds, sock, stop, mainVars, acceptVars, backlog>>
        /\ \A e \in Conn : e # c => rpc'[e] = rpc[e] /\ on'[e] = on[e]
    BY <1>0, <1>4 DEF HandlesConnect, Returns, RestTypeOK
  <2>5. PICK rest \in Rests(inbox[d]) : Settle([inbox EXCEPT ![d] = rest])
    BY <1>4 DEF HandlesConnect
  <2>6. rest \in {<<>>, <<"terminate">>} /\ rest \in Inboxes
    BY <1>0, <2>0, InboxStep DEF Rests, NetTypeOK, Greets, Inboxes
  <2> HIDE DEF d
  <2>7. [inbox EXCEPT ![d] = rest] \in [Conn -> Inboxes]
    BY <1>n, <2>6
  <2>8. /\ NetTypeOK' /\ inbox'[d] \in {<<>>, rest}
        /\ \A e \in Conn : e # d => inbox'[e] \in {<<>>, inbox[e]}
        /\ \A e \in Conn : remote[e] # "none" => remote'[e] # "none"
    BY <1>0, <1>n, <2>0, <2>4, <2>5, <2>7, SettleStep DEF NetTypeOK
  <2>9. \A e \in Conn : Greets(e)' => e # d /\ Greets(e)
    BY <2>6, <2>8, InboxStep DEF Greets
  <2>10. rpc[c] # "none" /\ rpc'[c] \in InLoop
    BY <1>p, <2>0, <2>4 DEF InLoop, Calling
  <2>11. GreetingInv'
    <3>1. ASSUME NEW e \in Conn, Greets(e)' PROVE e \in Inbound /\ e \notin Listed'
      BY <2>2, <2>9, <3>1 DEF IndInv, GreetingInv
    <3>2. ASSUME NEW e \in Conn, remote'[e] = "none"
          PROVE  inbox'[e] = <<>> /\ rpc'[e] = "none" /\ e \notin Listed' \cup backlog'
      <4>1. remote[e] = "none" /\ e # d
        BY <2>1, <2>8, <3>2
      <4>2. inbox[e] = <<>> /\ rpc[e] = "none" /\ e \notin Listed \cup backlog
        BY <4>1 DEF IndInv, GreetingInv
      <4> QED BY <2>2, <2>4, <2>8, <2>10, <4>1, <4>2
    <3>3. \A e \in backlog' : e \in Inbound /\ rpc'[e] = "none"
      BY <1>0, <2>4, <2>10 DEF IndInv, GreetingInv, RestTypeOK
    <3> QED BY <3>1, <3>2, <3>3 DEF GreetingInv
  <2>12. DialInv'
    <3>1. mpc \in {"add", "greet"} => mconn # d /\ mconn \in Conn /\ mconn # c
      BY <2>1, <2>10, ChatAssumption DEF IndInv, DialInv, Conn
    <3> QED BY <2>2, <2>4, <2>8, <3>1 DEF IndInv, DialInv, mainVars
  <2>13. SpawnInv'
    <3>1. apc = "spawn" => aconn # c /\ aconn \in Conn
      BY <2>10 DEF IndInv, SpawnInv, Conn
    <3> QED BY <2>4, <2>8, <3>1 DEF IndInv, SpawnInv, acceptVars
  <2>14. HeldInv'
    <3>1. \A f \in Fd : (\E i \in Active : table[i].fd = f) => \E i \in Active' : table'[i].fd = f
      BY <2>2 DEF Sockets
    <3>2. \A e \in Conn : rpc[e] \in InLoop => rpc'[e] \in InLoop
      BY <2>4, <2>10
    <3>3. \A e \in Conn : rpc'[e] \in Calling => rpc[e] \in Calling /\ on'[e] = on[e]
      BY <1>p, <2>4
    <3>4. \A e \in Conn : rpc'[e] \in InLoop \cup {"unlist"} => rpc[e] \in InLoop \cup {"unlist"}
      BY <1>p, <2>0, <2>4
    <3> QED BY <2>4, <3>1, <3>2, <3>3, <3>4 DEF IndInv, HeldInv, mainVars, acceptVars
  <2> QED BY <2>2, <2>3, <2>8, <2>11, <2>12, <2>13, <2>14, InvWhole
<1>5. CASE HandlesTerminate(c)
  <2>0. [inbox EXCEPT ![on[c]] = <<>>] \in [Conn -> Inboxes]
    BY <1>n DEF Inboxes
  <2>1. Settle([inbox EXCEPT ![on[c]] = <<>>]) /\ RemoveBySocket(sock[c])
        /\ Returns(c, "loop")
        /\ fds' = IF HasSocket(sock[c]) # {} THEN Without({sock[c]}) ELSE fds
    BY <1>5 DEF HandlesTerminate
  <2>2. \A e \in Conn : [inbox EXCEPT ![on[c]] = <<>>][e] \in {<<>>, inbox[e]}
    BY <1>n
  <2>3. /\ remote' \in [Conn -> {"none", "up", "shut", "over"}]
        /\ inbox' \in [Conn -> Inboxes] /\ timed' \in SUBSET Conn
        /\ \A e \in Conn : inbox'[e] \in {<<>>, inbox[e]}
        /\ \A e \in Conn : remote'[e] = "none" => remote[e] = "none"
    BY <1>0, <2>0, <2>1, <2>2, SettleStep
  <2>4. CASE HasSocket(sock[c]) # {}
    <3>1. NetKept({sock[c]})
      BY <1>0, <1>s, <2>1, <2>3, <2>4, WithoutStep DEF NetKept
    <3>2. rpc[c] \in Calling
      BY <2>1 DEF Returns
    <3> QED BY <1>0, <1>n, <1>p, <2>1, <3>1, <3>2, RemoveBySocketStep, ReceiverKeeps DEF Returns
  <2>5. CASE HasSocket(sock[c]) = {}
    <3>1. NetKept({})
      BY <1>0, <2>1, <2>3, <2>5 DEF NetKept, NetTypeOK
    <3>2. TableInv' /\ Listed' \subseteq Listed /\ Sockets \ {} \subseteq Sockets'
      BY <1>0, <2>1, <2>5, RemoveBySocketStep
    <3>3. rpc[c] \in Calling
      BY <2>1 DEF Returns
    <3> QED BY <1>n, <1>p, <2>1, <3>1, <3>2, <3>3, ReceiverKeeps DEF Returns
  <2> QED BY <2>4, <2>5
<1>6. CASE EndOfStream(c)
  <2>1. TableInv' /\ Listed' = Listed /\ Sockets' = Sockets
    BY <1>0, <1>6, SameTable DEF EndOfStream
  <2>2. NetKept({sock[c]})
    BY <1>0, <1>6, <1>n, <1>s, SettleStep, WithoutStep DEF EndOfStream, NetTypeOK, NetKept
  <2> QED BY <1>6, <1>n, <1>p, <2>1, <2>2, ReceiverKeeps DEF EndOfStream, Returns
<1>7. CASE LeavesLoop(c)
  <2>1. TableInv' /\ Listed' = Listed /\ Sockets' = Sockets /\ NetKept({sock[c]})
    BY <1>0, <1>7, <1>s, SameTable, CloseStep DEF LeavesLoop
  <2> QED BY <1>0, <1>7, <1>p, <2>1, ReceiverKeeps DEF LeavesLoop, Close
<1>8. CASE Unlists(c)
  <2>1. TableInv' /\ \E F \in SUBSET Fd :
          NetKept(F) /\ Listed' \subseteq Listed /\ Sockets \ F \subseteq Sockets'
    BY <1>8, UnlistStep DEF Unlists
  <2> QED BY <1>0, <1>8, <1>p, <2>1, ReceiverKeeps DEF Unlists
<1> QED BY <1>1, <1>2, <1>3, <1>4, <1>5, <1>6, <1>7, <1>8 DEF Receiver

\* Every step keeps the invariant.
LEMMA NextInv == IndInv /\ [Next]_vars => IndInv'
<1> SUFFICES ASSUME IndInv, [Next]_vars PROVE IndInv'
  OBVIOUS
<1>1. CASE UNCHANGED vars
  <2>0. UNCHANGED <<tableVars, netVars, stop, mainVars, acceptVars, recvVars, managed, backlog>>
    BY <1>1 DEF vars
  <2>1. TableInv' /\ Listed' = Listed /\ Sockets' = Sockets /\ NetKept({})
    BY <2>0, InvParts, SameTable, NoCloseStep
  <2>2. RestTypeOK'
    BY <2>0, InvParts DEF mainVars, acceptVars, recvVars, RestTypeOK
  <2> QED BY <2>0, <2>1, <2>2, KeepStep DEF mainVars, recvVars, IndInv, HeldInv
<1> QED BY <1>1, RemoteInv, CommandInv, MainInv, AcceptInv, ReceiverInv DEF Next

\* Every reachable state satisfies the inductive invariant.
THEOREM Invariance == Spec => []IndInv
BY InitInv, NextInv, PTL DEF Spec

\* Variables keep their types; no slot number or count leaves its range.
THEOREM TypeCorrect == Spec => []TypeOK
BY Invariance, PTL DEF IndInv

\* connection_count is the number of slots in use, whichever of the two
\* removals and three threads are at work.
THEOREM CountCorrect == Spec => []CountMatchesSlots
BY Invariance, PTL DEF IndInv

\* No connection has two slots.
THEOREM ListedOnceCorrect == Spec => []ListedOnce
BY Invariance, PTL DEF IndInv

\* The thread manager knows the accept thread from the beginning.
AcceptManaged == apc # "end" => "accept" \in managed

LEMMA AcceptManagedStep == AcceptManaged /\ [Next]_vars => AcceptManaged'
BY DEF AcceptManaged, Manage, Next, Command, ExitCommand, InputEnds, ConnectCommand,
   TerminateCommand, MainThread, Added, NotAdded, ReceiverStarts, ReceiverFails, Removes,
   StopServer, StopPeers, JoinsAndReturns, KilledBySend, Interrupt, AcceptThread, Spawns,
   SpawnFails, AcceptFails, AcceptUnlists, NextAccept, Registers, Accepts, Receiver,
   SetsTimeout, Calls, Returns, TimesOut, HandlesConnect, HandlesTerminate, EndOfStream,
   LeavesLoop, Unlists, Remote, RemoteConnects, RemoteTerminates, RemoteShuts, acceptVars, vars

\* The threads that the manager knows and does not know: once main has returned,
\* a socket is open only where one of the latter has not left its loop.
OpenAtReturn ==
  mpc = "returned" =>
    \A f \in Fd : fds[f] # NONE => \E c \in Conn \ managed : sock[c] = f /\ rpc[c] \in InLoop

\* The cleanup closes what is in slots, and each thread it has joined has closed
\* its own.
LEMMA ReturnStep ==
  IndInv /\ AcceptManaged /\ OpenAtReturn /\ [Next]_vars => OpenAtReturn'
<1> SUFFICES ASSUME IndInv, AcceptManaged, OpenAtReturn, [Next]_vars, mpc' = "returned",
                    NEW f \in Fd, fds'[f] # NONE
             PROVE  \E c \in Conn \ managed' : sock'[c] = f /\ rpc'[c] \in InLoop'
  BY DEF OpenAtReturn
<1>i. InLoop' = InLoop
  BY DEF InLoop, Calling
<1>1. CASE JoinsAndReturns
  <2>1. NetTypeOK /\ Sockets \in SUBSET Fd
    BY InvParts DEF IndInv, SlotsFull, Sockets
  <2>2. Close(Sockets)
    BY <1>1 DEF JoinsAndReturns, CloseAllPeers, Sockets
  <2>3. fds[f] # NONE /\ f \notin Sockets
    BY <2>1, <2>2, CloseStep DEF NetKept
  <2>4. apc # "spawn"
    BY <1>1 DEF JoinsAndReturns, AcceptManaged
  <2>5. PICK c \in Conn : sock[c] = f /\ rpc[c] \in InLoop
    BY <1>1, <2>3, <2>4 DEF JoinsAndReturns, IndInv, HeldInv, Sockets
  <2>6. c \notin managed
    BY <1>1, <2>5 DEF JoinsAndReturns, InLoop, Calling
  <2> QED BY <1>1, <1>i, <2>5, <2>6 DEF JoinsAndReturns, recvVars
<1>2. CASE ~JoinsAndReturns
  <2>1. mpc = "returned" /\ UNCHANGED <<fds, sock, rpc, managed>>
    BY <1>2 DEF Next, Command, ExitCommand, InputEnds, ConnectCommand, TerminateCommand,
         MainThread, Added, NotAdded, ReceiverStarts, ReceiverFails, Removes, StopServer,
         StopPeers, NextCommand, KilledBySend, Interrupt, AcceptThread, Spawns, SpawnFails,
         AcceptFails, AcceptUnlists, Registers, Accepts, Receiver, SetsTimeout, Calls, Returns,
         TimesOut, HandlesConnect, HandlesTerminate, EndOfStream, LeavesLoop, Unlists, Remote,
         RemoteConnects, RemoteTerminates, RemoteShuts, Running, mainVars, netVars, recvVars, vars
  <2> QED BY <1>i, <2>1 DEF OpenAtReturn
<1> QED BY <1>1, <1>2

\* An open socket has a slot, or a thread that will still close it; of those
\* that the return of main leaves open, none is in a slot or a joined thread's.
THEOREM SocketsCorrect == Spec => []SocketsHeld
<1>1. Init => AcceptManaged /\ OpenAtReturn
  BY DEF Init, AcceptManaged, OpenAtReturn
<1>2. IndInv /\ OpenAtReturn => SocketsHeld
  BY DEF IndInv, HeldInv, OpenAtReturn, SocketsHeld
<1> QED BY <1>1, <1>2, AcceptManagedStep, ReturnStep, Invariance, PTL DEF Spec
------------------------------------------------------------------------------
(* The table implements the abstract list of peers. *)

\* Every step is one of PeerBook or leaves the list alone.
LEMMA RefineNext == IndInv /\ [Next]_vars => [Book!Next]_Listed
<1> SUFFICES ASSUME IndInv, [Next]_vars PROVE Book!Next \/ Listed' = Listed
  OBVIOUS
<1>0. TableInv /\ NetTypeOK
  BY InvParts
<1>1. ASSUME NEW c \in Conn, c \notin Listed, NEW f \in Fd, AddPeer(c, f)
      PROVE  Book!Next \/ Listed' = Listed
  <2>1. CASE Listed' = Listed \cup {c} /\ Cardinality(Listed) < MaxPeers
    <3>1. Book!Enter(c)
      BY <1>1, <2>1 DEF Book!Enter, Book!Cardinality, Cardinality
    <3> QED BY <3>1 DEF Book!Next
  <2> QED BY <1>0, <1>1, <2>1, AddStep
<1>2. ASSUME NEW c \in Conn, Listed' = Listed \ {c} PROVE Book!Next
  BY <1>2 DEF Book!Next, Book!Leave
<1>3. ASSUME NEW f, RemoveBySocket(f) PROVE Book!Next \/ Listed' = Listed
  BY <1>0, <1>2, <1>3, RemoveBySocketStep
<1>4. ASSUME NEW id, RemoveById(id) PROVE Book!Next \/ Listed' = Listed
  <2>1. UNCHANGED tableVars \/ \E c \in Conn : Listed' = Listed \ {c}
    BY <1>0, <1>4, RemoveByIdStep DEF IndInv
  <2> QED BY <1>0, <1>2, <2>1, SameTable
<1>5. ASSUME table' = NoPeers, count' = 0 PROVE Book!Next
  BY <1>0, <1>5, EmptyStep DEF Book!Next, Book!Clear
<1>6. ASSUME UNCHANGED tableVars PROVE Listed' = Listed
  BY <1>0, <1>6, SameTable
<1>7. CASE Remote \/ Interrupt
  BY <1>6, <1>7 DEF Remote, RemoteConnects, RemoteTerminates, RemoteShuts, Interrupt
<1>8. CASE Command
  BY <1>5, <1>6, <1>8 DEF Command, ExitCommand, CloseAllPeers, InputEnds,
                          ConnectCommand, TerminateCommand
<1>9. CASE Added
  <2>1. mconn \in Conn /\ marg \in Fd /\ mconn \notin Listed /\ AddPeer(mconn, marg)
    BY <1>9 DEF Added, IndInv, DialInv, Conn
  <2> QED BY <1>1, <2>1
<1>10. CASE KilledBySend \/ (MainThread /\ ~Added)
  BY <1>4, <1>5, <1>6, <1>10
     DEF KilledBySend, MainThread, NotAdded, ReceiverStarts, ReceiverFails, Removes,
         StopServer, StopPeers, JoinsAndReturns, CloseAllPeers
<1>11. CASE AcceptThread
  BY <1>3, <1>6, <1>11
     DEF AcceptThread, Spawns, SpawnFails, AcceptFails, AcceptUnlists, Registers
<1>12. ASSUME NEW c \in Inbound, Accepts(c) PROVE Listed' = Listed
  BY <1>6, <1>12 DEF Accepts
<1>13. ASSUME NEW c \in Conn, HandlesConnect(c) PROVE Book!Next \/ Listed' = Listed
  <2>1. PICK d \in Conn : d = on[c] /\ Greets(d) /\ AddPeer(d, sock[c])
    BY <1>13 DEF HandlesConnect, IndInv, HeldInv
  <2>2. d \notin Listed /\ sock[c] \in Fd
    BY <1>13, <2>1 DEF HandlesConnect, IndInv, GreetingInv, HeldInv, InLoop
  <2> QED BY <1>1, <2>1, <2>2
<1>14. ASSUME NEW c \in Conn, Receiver(c), ~HandlesConnect(c)
       PROVE  Book!Next \/ Listed' = Listed
  BY <1>3, <1>6, <1>14
     DEF Receiver, SetsTimeout, Calls, TimesOut, HandlesTerminate, EndOfStream, LeavesLoop,
         Unlists
<1>15. CASE UNCHANGED vars
  BY <1>6, <1>15 DEF vars
<1> QED
  BY <1>7, <1>8, <1>9, <1>10, <1>11, <1>12, <1>13, <1>14, <1>15
     DEF Next, MainThread

\* Seen from outside, peers enter one at a time while there is room, and leave
\* one at a time or all together.
THEOREM Refinement == Spec => BookSpec
<1>1. Init => Book!Init
  BY DEF Init, Book!Init, Listed, Active, NoPeers
<1> QED BY <1>1, RefineNext, Invariance, PTL DEF Spec, BookSpec, Book!Spec
------------------------------------------------------------------------------
(* What ReceiversEnd rests on. *)

\* How far a receive thread has got on its way out.
Stage(p) == CASE p = "none"   -> 0
              [] p = "start"  -> 1
              [] p \in Calling -> 1
              [] p = "loop"   -> 2
              [] p = "unlist" -> 3
              [] p = "end"    -> 4

\* A connection has one receive thread at most, which never goes back to its
\* loop; once keep_running is false each of the thread's steps takes it on; and
\* those that main waits for grow no more while it waits.
ReceiversAdvance ==
  /\ \A c \in Conn :
       /\ rpc[c] # "none" => rpc'[c] # "none"
       /\ Stage(rpc[c]) > 2 => Stage(rpc[c]) <= Stage(rpc'[c])
       /\ stop /\ Receiver(c) => Stage(rpc[c]) < Stage(rpc'[c])
  /\ mpc = "joining" => managed' = managed

\* The stages are in order.
LEMMA Stages ==
  /\ Stage("none") = 0 /\ Stage("start") = 1 /\ Stage("recv") = 1 /\ Stage("block") = 1
  /\ Stage("loop") = 2 /\ Stage("unlist") = 3 /\ Stage("end") = 4
BY DEF Stage, Calling

\* A step of a receive thread is its own, and takes it on when it has to go.
LEMMA ReceiverAdvances ==
  ASSUME IndInv, NEW c \in Conn, Receiver(c)
  PROVE  \E p \in Places :
           /\ rpc' = [rpc EXCEPT ![c] = p] /\ p # "none" /\ managed' = managed
           /\ Stage(rpc[c]) > 2 => Stage(rpc[c]) <= Stage(p)
           /\ stop => Stage(rpc[c]) < Stage(p)
<1> DEFINE Moves(p) == rpc' = [rpc EXCEPT ![c] = p] /\ managed' = managed
<1>p. /\ "loop" \in Places /\ "unlist" \in Places /\ "end" \in Places
      /\ Calling \subseteq Places
      /\ \A p \in Calling : p \in {"recv", "block"} /\ Stage(p) = 1
  BY Stages DEF Places, InLoop, Calling
<1>w. ASSUME NEW p \in Places, Moves(p), p # "none",
             Stage(rpc[c]) > 2 => Stage(rpc[c]) <= Stage(p),
             stop => Stage(rpc[c]) < Stage(p)
      PROVE  \E q \in Places :
               /\ rpc' = [rpc EXCEPT ![c] = q] /\ q # "none" /\ managed' = managed
               /\ Stage(rpc[c]) > 2 => Stage(rpc[c]) <= Stage(q)
               /\ stop => Stage(rpc[c]) < Stage(q)
  <2> WITNESS p \in Places
  <2> QED BY <1>w
<1>1. CASE SetsTimeout(c)
  <2>1. rpc[c] = "start" /\ Moves("loop")
    BY <1>1 DEF SetsTimeout
  <2> HIDE DEF Moves
  <2> QED BY <1>p, <1>w, <2>1, Stages
<1>2. CASE Calls(c)
  <2>1. ~stop /\ rpc[c] = "loop"
    BY <1>2 DEF Calls
  <2>2. PICK p \in Calling : Moves(p)
    BY <1>2 DEF Calls, Calling
  <2>3. p \in Places /\ p # "none"
    BY <1>p
  <2> HIDE DEF Moves
  <2> QED BY <1>p, <1>w, <2>1, <2>2, <2>3, Stages
<1>3. CASE TimesOut(c) \/ HandlesConnect(c) \/ HandlesTerminate(c)
  <2>1. Returns(c, "loop")
    BY <1>3 DEF TimesOut, HandlesConnect, HandlesTerminate
  <2>2. Stage(rpc[c]) = 1 /\ Moves("loop")
    BY <1>p, <2>1 DEF Returns
  <2> HIDE DEF Moves
  <2> QED BY <1>p, <1>w, <2>2, Stages
<1>4. CASE EndOfStream(c)
  <2>1. Stage(rpc[c]) = 1 /\ Moves("unlist")
    BY <1>p, <1>4 DEF EndOfStream, Returns
  <2> HIDE DEF Moves
  <2> QED BY <1>p, <1>w, <2>1, Stages
<1>5. CASE LeavesLoop(c)
  <2>1. rpc[c] = "loop" /\ Moves("unlist")
    BY <1>5 DEF LeavesLoop
  <2> HIDE DEF Moves
  <2> QED BY <1>p, <1>w, <2>1, Stages
<1>6. CASE Unlists(c)
  <2>1. rpc[c] = "unlist" /\ Moves("end")
    BY <1>6 DEF Unlists
  <2> HIDE DEF Moves
  <2> QED BY <1>p, <1>w, <2>1, Stages
<1> QED BY <1>1, <1>2, <1>3, <1>4, <1>5, <1>6 DEF Receiver

\* After keep_running became false a receive thread has at most three steps left
\* once its call has returned, and join_all waits for a set of threads that
\* does not grow.
THEOREM ReceiversOneWay == Spec => [][ReceiversAdvance]_vars
<1>1. IndInv /\ [Next]_vars => [ReceiversAdvance]_vars
  <2> SUFFICES ASSUME IndInv, Next
               PROVE  ReceiversAdvance
    BY DEF vars
  <2>t. rpc \in [Conn -> Places]
    BY InvParts DEF RestTypeOK
  <2>s. ASSUME NEW c \in Conn, Receiver(c) PROVE Stage(rpc[c]) < Stage(rpc'[c]) \/ ~stop
    BY <2>t, <2>s, ReceiverAdvances
  <2>1. CASE \E d \in Conn : Receiver(d)
    <3>1. PICK d \in Conn : Receiver(d)
      BY <2>1
    <3>2. PICK p \in Places :
            /\ rpc' = [rpc EXCEPT ![d] = p] /\ p # "none" /\ managed' = managed
            /\ Stage(rpc[d]) > 2 => Stage(rpc[d]) <= Stage(p)
      BY <3>1, ReceiverAdvances
    <3>3. ASSUME NEW c \in Conn
          PROVE  /\ rpc[c] # "none" => rpc'[c] # "none"
                 /\ Stage(rpc[c]) > 2 => Stage(rpc[c]) <= Stage(rpc'[c])
      <4>1. Stage(rpc[c]) \in Nat
        BY <2>t, Stages DEF Places, InLoop, Calling
      <4>2. CASE c = d
        BY <2>t, <3>2, <4>2
      <4>3. CASE c # d
        BY <2>t, <3>2, <4>1, <4>3
      <4> QED BY <4>2, <4>3
    <3> QED BY <2>s, <3>2, <3>3 DEF ReceiversAdvance
  <2>2. CASE ~\E d \in Conn : Receiver(d)
    <3>1. ASSUME NEW c \in Conn
          PROVE  rpc'[c] = rpc[c] \/ (rpc[c] = "none" /\ rpc'[c] # "none") \/ rpc'[c] = "end"
      <4>1. CASE ReceiverStarts
        <5>1. rpc[mconn] = "none" /\ rpc' = [rpc EXCEPT ![mconn] = "start"]
          BY <4>1 DEF ReceiverStarts, StartReceiver, IndInv, DialInv
        <5> QED BY <2>t, <5>1
      <4>2. CASE Spawns
        <5>1. rpc[aconn] = "none" /\ rpc' = [rpc EXCEPT ![aconn] = "start"]
          BY <4>2 DEF Spawns, StartReceiver, IndInv, SpawnInv
        <5> QED BY <2>t, <5>1
      <4>3. CASE KilledBySend
        BY <4>3 DEF KilledBySend
      <4>4. CASE ~ReceiverStarts /\ ~Spawns /\ ~KilledBySend
        BY <2>2, <4>4
        DEF Next, Command, ExitCommand, InputEnds, ConnectCommand, TerminateCommand, Interrupt,
            MainThread, Added, NotAdded, ReceiverFails, Removes, StopServer, StopPeers,
            JoinsAndReturns, AcceptThread, SpawnFails, AcceptFails, AcceptUnlists, Registers,
            Accepts, Remote, RemoteConnects, RemoteTerminates, RemoteShuts, recvVars
      <4> QED BY <4>1, <4>2, <4>3, <4>4
    <3>2. ASSUME NEW c \in Conn
          PROVE  /\ rpc[c] # "none" => rpc'[c] # "none"
                 /\ Stage(rpc[c]) > 2 => Stage(rpc[c]) <= Stage(rpc'[c])
      <4>1. Stage(rpc[c]) \in 0 .. 4
        BY <2>t, Stages DEF Places, InLoop, Calling
      <4> QED BY <3>1, <4>1, Stages
    <3>3. mpc = "joining" => managed' = managed
      BY <2>2
      DEF Next, Command, ExitCommand, InputEnds, ConnectCommand, TerminateCommand, Interrupt,
          MainThread, Added, NotAdded, ReceiverStarts, ReceiverFails, Removes, StopServer,
          StopPeers, JoinsAndReturns, KilledBySend, AcceptThread, Spawns, SpawnFails,
          AcceptFails, AcceptUnlists, Registers, Accepts, Remote, RemoteConnects,
          RemoteTerminates, RemoteShuts
    <3> QED BY <2>2, <3>2, <3>3 DEF ReceiversAdvance
  <2> QED BY <2>1, <2>2
<1> QED BY <1>1, Invariance, PTL DEF Spec
==============================================================================
