---------------------------- MODULE SensorUpdates ----------------------------
(***************************************************************************)
(* ConnectionTable with the update thread (update_sensor_data_thread in    *)
(* Final_Project/src/connection/connection.c) step by step.  Every three   *)
(* seconds the thread walks the list without the mutex.  For each node it  *)
(* looks the node's id up from the head, again without the mutex, and      *)
(* writes into the node it finds.                                          *)
(*                                                                         *)
(* A node may be freed while the walk stands on it or has it as target.    *)
(* The block may still hold what it held, may belong to a node added       *)
(* since, or to something else.  In the last case the gateway's further    *)
(* behaviour has no meaning: upc is "lost" and nothing more happens.  What *)
(* the module says of the table it says up to there.  One lookup from the  *)
(* head (find_connection) is one step.                                     *)
(***************************************************************************)
EXTENDS ConnectionTable

VARIABLES
  upc,      \* where the update thread is
  cursor,   \* the node its walk has reached
  target,   \* the node its lookup has found
  due       \* history: nodes the walk found listed and has not come to

walkVars == <<upc, cursor, target, due>>

\* The types of the table and of the walk, which stands on a node, listed or
\* freed, from its first step to its last.
WalkTypeOK ==
  /\ TypeOK
  /\ upc \in {"sleep", "find", "write", "lost"}
  /\ cursor \in Conn \cup {NULL}
  /\ upc \in {"find", "write"} => cursor # NULL
  /\ target \in Conn \cup {NULL}
  /\ due \in SUBSET Conn

WalkInit == Init /\ upc = "sleep" /\ cursor = NULL /\ target = NULL /\ due = {}
------------------------------------------------------------------------------
\* The first node of S, or none.
FirstOf(S) == IF S = {} THEN NULL ELSE CHOOSE c \in S : First(c, S)

\* find(head, c->connection.sensor_id): the first node with c's id.  A freed
\* block may hold any id by now, and is_active may be off.
Lookups(c) ==
  IF c \in listed THEN {FirstOf(WithId(sensorId[c]))}
  ELSE {FirstOf(WithId(sensorId[d])) : d \in Conn} \cup {NULL}

\* The nodes a write through the pointer t may reach: t, or, once t is freed,
\* a node that has been given the same block.
Reached(t) == IF t \in listed THEN {t} ELSE IF t \in Freed THEN listed ELSE {}

\* Mutant of NextOf: the loop's body and its end both advance.
NextOfTwice(c) ==
  IF c \in listed
  THEN LET below == {d \in listed : stamp[d] < stamp[c]}
       IN  {FirstOf(below \ {FirstOf(below)})}
  ELSE Freed \cup listed \cup {NULL}

\* current->next: a freed block may point anywhere.
NextOf(c) ==
  IF c \in listed THEN {FirstOf({d \in listed : stamp[d] < stamp[c]})}
  ELSE Freed \cup listed \cup {NULL}

Walk(l, c) == upc' = l /\ cursor' = c

\* Mutant of WalkBegins: the head of the list is not compared with NULL.
WalkBeginsUnchecked ==
  /\ upc = "sleep"
  /\ Walk("find", FirstOf(listed)) /\ due' = listed
  /\ UNCHANGED <<vars, target>>

WalkBegins ==
  /\ upc = "sleep" /\ listed # {}
  /\ Walk("find", FirstOf(listed)) /\ due' = listed
  /\ UNCHANGED <<vars, target>>

\* The lookup of the node the walk stands on.  A node behind another with the
\* same id is not found, and no longer due; nor is any, if this one is freed.
FindTarget ==
  /\ upc = "find"
  /\ target' \in Lookups(cursor)
  /\ Walk("write", cursor)
  /\ due' = IF cursor \in Freed THEN {} ELSE due \ ({cursor} \ {target'})
  /\ UNCHANGED vars

\* The new reading and time, if a node was found; then current->next.
WriteTarget ==
  /\ upc = "write"
  /\ \/ target \notin listed /\ UNCHANGED idle
     \/ \E d \in Reached(target) : idle' = idle \ {d}
  /\ \E n \in NextOf(cursor) : Walk(IF n = NULL THEN "sleep" ELSE "find", n)
  /\ target' = NULL
  /\ due' = IF cursor \in Freed THEN {} ELSE due \ {target}
  /\ UNCHANGED <<limiterVars, listed, stamp, activeCount, sensorId, leaked,
                 fdVars, peerVars, connVars>>

\* The block written to, or the one the next node is read from, has been given
\* to something else.
Derail ==
  /\ upc = "write" /\ {cursor, target} \cap Freed # {}
  /\ Walk("lost", NULL) /\ target' = NULL /\ due' = {}
  /\ UNCHANGED vars

UpdateThread == WalkBegins \/ FindTarget \/ WriteTarget \/ Derail

\* The steps of all other threads, and of the clients.
OthersNext ==
  \/ EpollWait \/ BatchDone \/ NewConnectionStep \/ ExistingConnectionStep
  \/ TimeoutSweep
  \/ \E c \in listed : Terminate(sensorId[c])
  \/ \E c \in Conn : Connect(c) \/ Shut(c) \/ Age(c)

WalkNext ==
  \/ UpdateThread
  \/ upc # "lost" /\ OthersNext /\ UNCHANGED walkVars

WalkSpec == WalkInit /\ [][WalkNext]_<<vars, walkVars>>
------------------------------------------------------------------------------
\* connection.c:573-575 says that every active connection is updated.  A walk
\* that has not stood on a freed node has come to every node that was listed
\* from its beginning to its end, and written its reading and time, unless the
\* lookup met another node with the same id first: neither the nodes pushed at
\* the head nor the ones unlinked ahead and behind make it skip one.
WalkMissesNone == upc = "sleep" => due \cap listed = {}

\* README.md:223 shows the memory check's "ERROR SUMMARY: 0 errors", and
\* connection.c:708 calls the lookup by descriptor thread-safe.  A node some
\* thread is about to use without the mutex is still allocated.
HeldNodesAllocated ==
  /\ cursor \notin Freed /\ target \notin Freed
  /\ FoundNodeAllocated
==============================================================================
