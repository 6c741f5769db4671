-------------------------- MODULE SensorUpdatesProof --------------------------
(***************************************************************************)
(* Proofs about SensorUpdates, for any number of sensors.                  *)
(*                                                                         *)
(* Whatever node the walk writes to, it writes reading and time only: a    *)
(* Refresh or nothing to ConnectionTable, until it writes into a block     *)
(* that is no node any more, where the module stops.  So what is proved of *)
(* the table holds with the walk, up to such a write.                      *)
(***************************************************************************)
EXTENDS SensorUpdates, ConnectionTableProof

\* A step of the walk is one of the table or leaves it alone.
LEMMA WalkStep == TypeOK /\ [WalkNext]_<<vars, walkVars>> => [Next]_vars
<1> SUFFICES ASSUME TypeOK, [WalkNext]_<<vars, walkVars>> PROVE [Next]_vars
  OBVIOUS
<1>1. CASE WalkBegins
  BY <1>1 DEF WalkBegins
<1>2. CASE FindTarget
  BY <1>2 DEF FindTarget
<1>3. CASE WriteTarget
  <2>0. UNCHANGED <<limiterVars, listed, stamp, activeCount, sensorId, leaked,
                    fdVars, peerVars, connVars>>
    BY <1>3 DEF WriteTarget
  <2>1. CASE idle' = idle
    BY <2>0, <2>1 DEF vars, tableVars
  <2>2. ASSUME NEW d, idle' = idle \ {d}, d \in idle PROVE Next
    <3>1. d \in Conn
      BY <2>2 DEF TypeOK
    <3>2. Refresh(d)
      BY <2>0, <2>2 DEF Refresh
    <3> QED BY <3>1, <3>2 DEF Next
  <2>3. ASSUME NEW d, idle' = idle \ {d}, d \notin idle PROVE idle' = idle
    BY <2>3
  <2> QED BY <1>3, <2>1, <2>2, <2>3 DEF WriteTarget
<1>4. CASE OthersNext
  BY <1>4 DEF OthersNext, Next
<1>5. CASE UNCHANGED <<vars, walkVars>>
  BY <1>5
<1>6. CASE Derail
  BY <1>6 DEF Derail
<1> QED BY <1>1, <1>2, <1>3, <1>4, <1>5, <1>6 DEF WalkNext, UpdateThread

\* The table with the update thread's walk keeps the inductive invariant of
\* the table.
THEOREM WalkInvariance == WalkSpec => []IndInv
<1>1. WalkInit => IndInv
  BY InitInv DEF WalkInit
<1>2. IndInv /\ [WalkNext]_<<vars, walkVars>> => IndInv'
  BY WalkStep, NextInv DEF IndInv
<1> QED BY <1>1, <1>2, PTL DEF WalkSpec

\* Each step of the walk is, in the table, its one step for the update thread
\* or none: what carries the theorems on ConnectionTable over.
LEMMA WalkRefines == WalkSpec => Spec
<1>1. WalkInit => Init
  BY DEF WalkInit
<1>2. IndInv /\ [WalkNext]_<<vars, walkVars>> => [Next]_vars
  BY WalkStep DEF IndInv
<1> QED BY <1>1, <1>2, WalkInvariance, PTL DEF WalkSpec, Spec

\* With the walk, too, no path loses or duplicates an address's slot.
THEOREM WalkKeepsSlots == WalkSpec => []SlotsAccounted
BY WalkRefines, SlotsCorrect, PTL

\* With the walk, too, active_count is the length of the list, no address has
\* more sensors than it may and no port is listed twice.
THEOREM WalkKeepsList == WalkSpec => [](CountMatchesList /\ PerIpCap /\ PortsUnique)
BY WalkRefines, CountCorrect, CapCorrect, PortsCorrect, PTL

\* With the walk, too, the table seen from outside is the abstract one.
THEOREM WalkKeepsTable == WalkSpec => TableSpec
BY WalkRefines, Refinement, PTL

\* With the walk, too, ids are unique until a sensor leaves, every lookup from
\* the head has one answer, no node is freed twice, and a secure_comm is
\* destroyed a second time only for a client whose registration failed.
THEOREM WalkKeepsNodes ==
  WalkSpec => /\ [](Freed = {} => UniqueSensorIds)
              /\ []WalksMeetOne
              /\ [][FreedForGood /\ DestroyedOnce]_vars
<1>1. [][FreedForGood]_vars /\ [][DestroyedOnce]_vars => [][FreedForGood /\ DestroyedOnce]_vars
  BY PTL
<1> QED BY <1>1, WalkRefines, IdsUntilDeparture, ListWalked, FreedOnce, CommDestroyedOnce, PTL

\* What the lookup and the walk's next step can yield.
LEMMA PointersType ==
  ASSUME TypeOK
  PROVE  /\ \A S \in SUBSET Conn : IF S = {} THEN FirstOf(S) = NULL
                                   ELSE FirstOf(S) \in S /\ First(FirstOf(S), S)
         /\ \A c : NextOf(c) \subseteq Conn \cup {NULL}
         /\ \A c : Lookups(c) \subseteq Conn \cup {NULL}
<1>1. stamp \in [Conn -> Nat] /\ listed \subseteq Conn
  BY DEF TypeOK
<1>2. ASSUME NEW S \in SUBSET Conn
      PROVE  IF S = {} THEN FirstOf(S) = NULL
             ELSE FirstOf(S) \in S /\ First(FirstOf(S), S)
  <2>1. S # {} => \E c \in S : First(c, S)
    BY <1>1, FirstExists
  <2> QED BY <2>1 DEF FirstOf
<1>3. ASSUME NEW S \in SUBSET Conn PROVE FirstOf(S) \in Conn \cup {NULL}
  BY <1>2
<1>4. ASSUME NEW c PROVE NextOf(c) \subseteq Conn \cup {NULL}
  BY <1>1, <1>3 DEF NextOf, Freed
<1>5. ASSUME NEW c PROVE Lookups(c) \subseteq Conn \cup {NULL}
  <2>1. \A i : FirstOf(WithId(i)) \in Conn \cup {NULL}
    BY <1>1, <1>3 DEF WithId
  <2> QED BY <2>1 DEF Lookups
<1> QED BY <1>2, <1>4, <1>5

\* The table keeps its types under the walk.  The walk stands on a node of the
\* list or on a freed one from its first step to its last, and its lookup
\* yields a node or none: there is a first node whenever the list is not
\* empty, and a freed node leads back to nodes until the walk is lost.
THEOREM WalkTypeCorrect == WalkSpec => []WalkTypeOK
<1>1. WalkInit => WalkTypeOK
  BY InitInv DEF WalkInit, WalkTypeOK, IndInv
<1>2. IndInv /\ WalkTypeOK /\ [WalkNext]_<<vars, walkVars>> => WalkTypeOK'
  <2> SUFFICES ASSUME TypeOK, TypeOK', WalkTypeOK, [WalkNext]_<<vars, walkVars>>
               PROVE  WalkTypeOK'
    BY WalkStep, NextInv DEF IndInv
  <2>0. listed \in SUBSET Conn /\ NULL \notin Conn
    BY TableAssumption DEF TypeOK
  <2>1. CASE WalkBegins
    <3>1. FirstOf(listed) \in Conn
      BY <2>0, <2>1, PointersType DEF WalkBegins
    <3> QED BY <2>0, <2>1, <3>1 DEF WalkBegins, Walk, WalkTypeOK
  <2>2. CASE FindTarget
    <3>1. target' \in Conn \cup {NULL}
      BY <2>2, PointersType DEF FindTarget
    <3> QED BY <2>2, <3>1 DEF FindTarget, Walk, WalkTypeOK
  <2>3. CASE WriteTarget
    <3>1. PICK n \in NextOf(cursor) : Walk(IF n = NULL THEN "sleep" ELSE "find", n)
      BY <2>3 DEF WriteTarget
    <3>2. n \in Conn \cup {NULL}
      BY PointersType
    <3> QED BY <2>3, <3>1, <3>2 DEF WriteTarget, Walk, WalkTypeOK
  <2>4. CASE Derail
    BY <2>4 DEF Derail, Walk, WalkTypeOK
  <2>5. CASE UNCHANGED walkVars
    BY <2>5 DEF walkVars, WalkTypeOK
  <2> QED BY <2>1, <2>2, <2>3, <2>4, <2>5 DEF WalkNext, UpdateThread
<1> QED BY <1>1, <1>2, WalkInvariance, PTL DEF WalkSpec
------------------------------------------------------------------------------
(* The walk comes to every node that stays. *)

\* While the walk stands on a listed node, those it still owes a visit are not
\* ahead of that node; when it has found that node's id elsewhere, it owes it
\* nothing.  A node pushed since the walk began is never owed anything.
DueInv ==
  /\ due \subseteq Pushed /\ cursor \in Pushed \cup {NULL}
  /\ upc \in {"sleep", "lost"} => due \cap listed = {}
  /\ upc \in {"find", "write"} /\ cursor \in listed =>
       \A d \in due \cap listed : stamp[d] <= stamp[cursor]
  /\ upc = "write" /\ cursor \in listed \cap due => target = cursor

\* The other threads cannot put a node back, or change a node's place.
LEMMA DueKept ==
  ASSUME IndInv, StampInv, WalkTypeOK, DueInv,
         [Next]_vars, [FreedForGood]_vars, UNCHANGED walkVars
  PROVE  DueInv'
<1>1. \A c \in Pushed : c \in Pushed' /\ stamp'[c] = stamp[c]
  BY StampFrame, PushStamp DEF Pushed
<1>2. \A c \in Pushed : c \in listed' => c \in listed
  BY DEF FreedForGood, Freed, Pushed, vars, tableVars
<1>3. NULL \notin Conn /\ Pushed \subseteq Conn
  BY TableAssumption DEF Pushed
<1> QED BY <1>1, <1>2, <1>3 DEF DueInv, walkVars, WalkTypeOK

\* A step of the walk itself.
LEMMA DueStep ==
  ASSUME IndInv, StampInv, WalkTypeOK, DueInv, UpdateThread
  PROVE  DueInv'
<1>0. /\ stamp \in [Conn -> Nat] /\ listed \subseteq Pushed /\ Pushed \subseteq Conn
      /\ NULL \notin Conn /\ Freed \subseteq Pushed
  BY TableAssumption DEF IndInv, TypeOK, FreshInv, Pushed, Freed
<1>1. CASE WalkBegins
  <2>1. First(FirstOf(listed), listed) /\ FirstOf(listed) \in listed
    BY <1>0, <1>1, PointersType DEF WalkBegins, IndInv
  <2> QED
    BY <1>0, <1>1, <2>1 DEF WalkBegins, Walk, DueInv, First, vars, tableVars, Pushed
<1>2. CASE FindTarget
  <2>1. UNCHANGED <<listed, stamp>> /\ due' \subseteq due /\ cursor' = cursor /\ upc' = "write"
    BY <1>2 DEF FindTarget, Walk, vars, tableVars
  <2>2. cursor \in listed /\ cursor \in due' => target' = cursor
    BY <1>2 DEF FindTarget, Freed
  <2> QED BY <1>2, <2>1, <2>2 DEF DueInv, FindTarget, Pushed
<1>3. CASE WriteTarget
  <2>1. UNCHANGED <<listed, stamp>> /\ Pushed' = Pushed
    BY <1>3 DEF WriteTarget, Pushed
  <2>2. PICK n \in NextOf(cursor) : Walk(IF n = NULL THEN "sleep" ELSE "find", n)
    BY <1>3 DEF WriteTarget
  <2>3. CASE cursor \in listed
    <3> DEFINE below == {d \in listed : stamp[d] < stamp[cursor]}
    <3>1. n = FirstOf(below) /\ below \in SUBSET listed /\ below \in SUBSET Conn
      BY <1>0, <2>3 DEF NextOf
    <3>2. due' = due \ {target}
      BY <1>3, <2>3 DEF WriteTarget, Freed
    <3>3. \A d \in due' \cap listed : d \in below
      <4> SUFFICES ASSUME NEW d \in due' \cap listed, d \notin below PROVE FALSE
        OBVIOUS
      <4>1. stamp[d] <= stamp[cursor] /\ d \in Pushed /\ cursor \in Pushed
        BY <1>0, <1>3, <2>3, <3>2 DEF DueInv, WriteTarget
      <4>2. d = cursor
        BY <1>0, <4>1 DEF StampInv
      <4> QED BY <1>3, <3>2, <4>2 DEF DueInv, WriteTarget
    <3>4. IF below = {} THEN n = NULL ELSE n \in below /\ First(n, below)
      BY <3>1, PointersType DEF IndInv
    <3> HIDE DEF below
    <3>5. CASE below = {}
      BY <1>0, <2>1, <2>2, <3>2, <3>3, <3>4, <3>5 DEF DueInv, Walk
    <3>6. CASE below # {}
      <4>1. n \in Pushed /\ n # NULL
        BY <1>0, <3>1, <3>4, <3>6
      <4>2. \A d \in due' \cap listed : stamp[d] <= stamp[n]
        BY <3>3, <3>4, <3>6 DEF First
      <4> QED BY <1>0, <2>1, <2>2, <3>2, <4>1, <4>2 DEF DueInv, Walk
    <3> QED BY <3>5, <3>6
  <2>4. CASE cursor \notin listed
    <3>1. cursor \in Freed
      BY <1>0, <1>3, <2>4 DEF Freed, WriteTarget, WalkTypeOK, DueInv, Pushed
    <3>2. due' = {} /\ n \in Pushed \cup {NULL}
      BY <1>0, <1>3, <2>4, <3>1 DEF WriteTarget, NextOf
    <3> QED BY <2>1, <2>2, <3>2 DEF DueInv, Walk
  <2> QED BY <2>3, <2>4
<1>4. CASE Derail
  BY <1>4 DEF Derail, Walk, DueInv, vars, tableVars, Pushed
<1> QED BY <1>1, <1>2, <1>3, <1>4 DEF UpdateThread

\* A walk without the mutex that never stands on a freed node comes to every
\* node that is listed from its beginning to its end, whatever the other
\* threads push, drop and free meanwhile.
THEOREM WalkComesToAll == WalkSpec => []WalkMissesNone
<1>1. WalkInit => DueInv
  BY DEF WalkInit, DueInv
<1>2. IndInv /\ StampInv /\ WalkTypeOK /\ DueInv /\ [WalkNext]_<<vars, walkVars>>
        /\ [FreedForGood]_vars => DueInv'
  <2> SUFFICES ASSUME IndInv, StampInv, WalkTypeOK, DueInv, [FreedForGood]_vars,
                      [WalkNext]_<<vars, walkVars>>
               PROVE  DueInv'
    OBVIOUS
  <2>1. CASE UpdateThread
    BY <2>1, DueStep
  <2>2. CASE UNCHANGED walkVars
    BY <2>2, DueKept, WalkStep DEF IndInv
  <2> QED BY <2>1, <2>2 DEF WalkNext
<1>3. DueInv => WalkMissesNone
  BY DEF DueInv, WalkMissesNone
<1>4. WalkSpec => []StampInv /\ [][FreedForGood]_vars
  BY WalkRefines, StampsDistinct, FreedOnce, PTL
<1> QED BY <1>1, <1>2, <1>3, <1>4, WalkInvariance, WalkTypeCorrect, PTL DEF WalkSpec
==============================================================================
