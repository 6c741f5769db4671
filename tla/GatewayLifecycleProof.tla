------------------------ MODULE GatewayLifecycleProof ------------------------
(***************************************************************************)
(* Proofs about GatewayLifecycle, for any set of sensors.                  *)
(***************************************************************************)
EXTENDS GatewayLifecycle, TLAPS

\* The gateway starts with nothing ready and nothing running.
LEMMA InitInv == Init => IndInv
  BY LifecycleAssumption
  DEF Init, IndInv, TypeOK, StartInv, ReadyInv, EndInv, Startup, Part, Mutex, Thread, Place

\* Steps by which only main advances.
LEMMA MainStep == IndInv /\ (MainThread \/ InputFails) => IndInv'
<1> SUFFICES ASSUME IndInv, MainThread \/ InputFails PROVE IndInv'
  OBVIOUS
<1> USE LifecycleAssumption
        DEF IndInv, TypeOK, StartInv, ReadyInv, EndInv, Startup, Part, Mutex, Thread, Place
<1>1. CASE StartBackground
  BY <1>1 DEF StartBackground, lockVars, heapVars
<1>2. CASE Fork
  BY <1>2 DEF Fork, lockVars, heapVars
<1>3. CASE InitLog
  BY <1>3 DEF InitLog, heapVars
<1>4. CASE InitLogFails
  BY <1>4 DEF InitLogFails, lockVars, heapVars
<1>5. CASE InitConn
  BY <1>5 DEF InitConn
<1>6. CASE InitStore
  BY <1>6 DEF InitStore, heapVars
<1>7. CASE InitData
  BY <1>7 DEF InitData, heapVars
<1>8. CASE InitLimiter
  BY <1>8 DEF InitLimiter, heapVars
<1>9. CASE InitSsl
  BY <1>9 DEF InitSsl, heapVars
<1>10. CASE Spawn
  BY <1>10 DEF Spawn, lockVars, heapVars
<1>11. CASE InputEnds
  BY <1>11 DEF InputEnds, lockVars, heapVars
<1>12. CASE CleanConn
  BY <1>12 DEF CleanConn, Lock, Closer
<1>21. CASE CleanConnEnds
  BY <1>21 DEF CleanConnEnds, Unlock
<1>13. CASE CleanData
  BY <1>13 DEF CleanData, heapVars
<1>14. CASE CloseDb
  BY <1>14 DEF CloseDb, MayLog, Logs, Up, lockVars, heapVars
<1>15. CASE CleanStore
  BY <1>15 DEF CleanStore, heapVars
<1>16. CASE CleanLog
  BY <1>16 DEF CleanLog, heapVars
<1>17. CASE Cancel
  BY <1>17 DEF Cancel, lockVars, heapVars
<1>18. CASE Join
  BY <1>18 DEF Join, lockVars, heapVars
<1>19. CASE CleanSsl
  BY <1>19 DEF CleanSsl, heapVars
<1>20. CASE Return
  BY <1>20 DEF Return, lockVars, heapVars
<1>22. CASE InputFails
  BY <1>22 DEF InputFails, lockVars, heapVars
<1> QED
  BY <1>1, <1>2, <1>3, <1>4, <1>5, <1>6, <1>7, <1>8, <1>9, <1>10, <1>11, <1>12,
     <1>13, <1>14, <1>15, <1>16, <1>17, <1>18, <1>19, <1>20, <1>21, <1>22 DEF MainThread

\* A step of a thread that runs.  It starts no visit of an empty list, lists
\* nothing before Spawn and changes nothing that belongs to main.
LEMMA ThreadStep ==
  ASSUME IndInv,
         NEW t \in Thread, NEW l \in Place,
         at[t] \notin {"none", "end"}, at' = [at EXCEPT ![t] = l],
         UNCHANGED <<main, ready, gone, stop, cancelled, child>>,
         holder' \in [Mutex -> Thread \cup {"main", NONE}],
         table' \in SUBSET Sensor, todo' \in SUBSET Sensor, ended' \in SUBSET Sensor,
         closing' \in [Closer -> SUBSET Sensor],
         UNCHANGED client,
         process' \in {"up", "returned", "failed", "crashed"},
         l = "visit" => table # {},
         table' \subseteq table \/ t = "connection"
  PROVE  IndInv'
<1>1. TypeOK'
  BY DEF IndInv, TypeOK
<1>2. main \in Startup => t \notin {"connection", "data", "storage"} /\ table = {}
  BY DEF IndInv, StartInv
<1>3. StartInv'
  BY <1>2 DEF IndInv, TypeOK, StartInv, Thread
<1>4. ReadyInv'
  BY DEF IndInv, ReadyInv
<1>5. EndInv'
  BY DEF IndInv, TypeOK, EndInv
<1> QED
  BY <1>1, <1>3, <1>4, <1>5 DEF IndInv

\* What Lock and Unlock make of the holders.
LEMMA HolderType ==
  ASSUME IndInv, NEW m \in Mutex, NEW t \in Thread \cup {"main"}, Lock(t, m) \/ Unlock(m)
  PROVE  holder' \in [Mutex -> Thread \cup {"main", NONE}]
  BY DEF Lock, Unlock, IndInv, TypeOK

\* What the calls of the log and a broken pipe make of the process.
LEMMA ProcessType ==
  ASSUME IndInv, Logs \/ MayLog \/ \E s \in Sensor : BrokenPipe(s)
  PROVE  process' \in {"up", "returned", "failed", "crashed"}
  BY DEF Logs, MayLog, BrokenPipe, IndInv, TypeOK

\* Steps of the connection thread: none of them is possible before Spawn or
\* after the thread has ended.
LEMMA ConnectionStep == IndInv /\ ConnectionThread => IndInv'
<1> SUFFICES ASSUME IndInv, ConnectionThread PROVE IndInv'
  OBVIOUS
<1>0. TypeOK /\ "connection" \in Thread
  BY DEF IndInv, Thread
<1> USE DEF Goto, TypeOK, Place
<1>1. CASE ConnectionStarts
  <2>1. PICK l \in {"idle", "end"} : at' = [at EXCEPT !["connection"] = l]
    BY <1>1 DEF ConnectionStarts
  <2> QED
    BY <1>0, <1>1, <2>1, ThreadStep DEF ConnectionStarts, lockVars, heapVars
<1>2. CASE Handshake
  BY <1>0, <1>2, ThreadStep DEF Handshake, lockVars, heapVars
<1>3. CASE HandshakeEnds
  <2>1. PICK l \in {"add", "idle"} : at' = [at EXCEPT !["connection"] = l]
    BY <1>3 DEF HandshakeEnds
  <2> QED
    BY <1>0, <1>3, <2>1, ThreadStep DEF HandshakeEnds, lockVars, heapVars
<1>4. CASE AddRefused
  BY <1>0, <1>4, ThreadStep, ProcessType DEF AddRefused, lockVars, heapVars
<1>5. CASE ConnectionStops
  BY <1>0, <1>5, ThreadStep DEF ConnectionStops, lockVars, heapVars
<1>6. ASSUME NEW s \in Sensor, AddConnection(s) PROVE IndInv'
  BY <1>0, <1>6, ThreadStep, ProcessType DEF AddConnection, lockVars
<1>7. ASSUME NEW s \in Sensor, HangUp(s) PROVE IndInv'
  <2>1. holder' \in [Mutex -> Thread \cup {"main", NONE}]
    BY <1>7, HolderType DEF HangUp, Unlink, Mutex, Thread
  <2>2. closing' \in [Closer -> SUBSET Sensor]
    BY <1>0, <1>7 DEF HangUp, Unlink
  <2> QED
    BY <1>0, <1>7, <2>1, <2>2, ThreadStep DEF HangUp, Unlink
<1> QED
  BY <1>1, <1>2, <1>3, <1>4, <1>5, <1>6, <1>7 DEF ConnectionThread

\* What the end of a close changes.
LEMMA ClosedType ==
  ASSUME IndInv, NEW t \in Closer, NEW s \in Sensor, Closed(t, s)
  PROVE  closing' \in [Closer -> SUBSET Sensor] /\ UNCHANGED <<table, ended>>
  BY DEF Closed, IndInv, TypeOK

\* Steps of main and the connection thread inside the close of a sensor.
LEMMA CloseStep ==
  ASSUME IndInv, NEW s \in Sensor,
         Terminate(s) \/ MainCloseEnds(s) \/ HangUpEnds(s) \/ SensorEnds(s)
  PROVE  IndInv'
<1>0. TypeOK /\ {"main", "connection"} \subseteq Closer /\ "conn" \in Mutex
  BY DEF IndInv, Closer, Mutex
<1>1. CASE Terminate(s)
  <2>1. holder' \in [Mutex -> Thread \cup {"main", NONE}]
    BY <1>0, <1>1, HolderType DEF Terminate, Unlink
  <2>2. closing' \in [Closer -> SUBSET Sensor] /\ table' \in SUBSET Sensor
    BY <1>0, <1>1 DEF Terminate, Unlink, TypeOK
  <2>3. /\ main = "input" /\ main' = "closing"
        /\ UNCHANGED <<at, ready, gone, ended, client, todo, stop, cancelled,
                       process, child>>
    BY <1>1 DEF Terminate, Unlink
  <2> QED
    BY <2>1, <2>2, <2>3 DEF IndInv, TypeOK, StartInv, ReadyInv, EndInv, Startup, Part, Mutex
<1>2. CASE TerminateEnds(s)
  <2>1. /\ holder' \in [Mutex -> Thread \cup {"main", NONE}]
        /\ process' \in {"up", "returned", "failed", "crashed"}
    BY <1>0, <1>2, HolderType, ProcessType DEF TerminateEnds, RemoveEnds
  <2>2. closing' \in [Closer -> SUBSET Sensor] /\ UNCHANGED <<table, ended>>
    BY <1>0, <1>2, ClosedType DEF TerminateEnds, RemoveEnds
  <2>3. /\ main = "closing" /\ main' \in {"cleanConn", "input"}
        /\ UNCHANGED <<at, ready, gone, client, todo, stop, cancelled, child>>
    BY <1>2 DEF TerminateEnds, RemoveEnds
  <2> QED
    BY <2>1, <2>2, <2>3 DEF IndInv, TypeOK, StartInv, ReadyInv, EndInv, Startup, Part, Mutex
<1>3. CASE NodeClosed(s)
  <2>1. process' \in {"up", "returned", "failed", "crashed"}
    BY <1>0, <1>3, ProcessType DEF NodeClosed, TypeOK
  <2>2. closing' \in [Closer -> SUBSET Sensor] /\ UNCHANGED <<table, ended>>
    BY <1>0, <1>3, ClosedType DEF NodeClosed
  <2>3. UNCHANGED <<main, at, ready, gone, holder, client, todo, stop, cancelled,
                    child>>
    BY <1>3 DEF NodeClosed, lockVars
  <2> QED
    BY <2>1, <2>2, <2>3 DEF IndInv, TypeOK, StartInv, ReadyInv, EndInv
<1>4. CASE HangUpEnds(s)
  <2>1. /\ holder' \in [Mutex -> Thread \cup {"main", NONE}]
        /\ process' \in {"up", "returned", "failed", "crashed"}
    BY <1>0, <1>4, HolderType, ProcessType DEF HangUpEnds, RemoveEnds
  <2>2. closing' \in [Closer -> SUBSET Sensor] /\ UNCHANGED <<table, ended>>
    BY <1>0, <1>4, ClosedType DEF HangUpEnds, RemoveEnds
  <2> QED
    BY <1>0, <1>4, <2>1, <2>2, ThreadStep
    DEF HangUpEnds, RemoveEnds, Goto, TypeOK, Thread, Place
<1>5. CASE SensorEnds(s)
  BY <1>5 DEF SensorEnds, lockVars, IndInv, TypeOK, StartInv, ReadyInv, EndInv
<1> QED
  BY <1>1, <1>2, <1>3, <1>4, <1>5 DEF MainCloseEnds

\* Steps of the other threads.
LEMMA WorkerStep ==
  IndInv /\ (SweepBegins \/ SweepEnds \/ Visit \/ AddData \/ DataThread \/ StorageThread
             \/ \E t \in Thread : Cancelled(t)) => IndInv'
<1> SUFFICES ASSUME IndInv,
                    SweepBegins \/ SweepEnds \/ Visit \/ AddData \/ DataThread
                      \/ StorageThread \/ \E t \in Thread : Cancelled(t)
             PROVE  IndInv'
  OBVIOUS
<1>0. /\ TypeOK /\ {"timeout", "update", "data", "storage"} \subseteq Thread
      /\ {"conn", "data", "store"} = Mutex
  BY DEF IndInv, Thread, Mutex
<1> USE DEF Goto, TypeOK, Place
<1>1. CASE SweepBegins
  BY <1>0, <1>1, ThreadStep, HolderType DEF SweepBegins, heapVars
<1>2. CASE SweepEnds
  <2>1. table' \subseteq table /\ process' \in {"up", "returned", "failed", "crashed"}
    BY <1>0, <1>2, ProcessType DEF SweepEnds
  <2> QED
    BY <1>0, <1>2, <2>1, ThreadStep, HolderType DEF SweepEnds
<1>3. CASE Visit
  BY <1>0, <1>3, ThreadStep DEF Visit, lockVars, heapVars
<1>4. CASE AddData
  BY <1>0, <1>4, ThreadStep DEF AddData, lockVars, heapVars
<1>5. CASE DataWakes
  BY <1>0, <1>5, ThreadStep DEF DataWakes, lockVars, heapVars
<1>6. CASE DataPassBegins
  BY <1>0, <1>6, ThreadStep, HolderType DEF DataPassBegins, linkVars
<1>7. CASE CheckBegins
  BY <1>0, <1>7, ThreadStep, HolderType DEF CheckBegins, linkVars
<1>8. CASE CheckEnds
  BY <1>0, <1>8, ThreadStep, HolderType, ProcessType DEF CheckEnds, heapVars
<1>9. CASE DataPassEnds
  BY <1>0, <1>9, ThreadStep, HolderType DEF DataPassEnds, linkVars
<1>10. CASE Connected
  BY <1>0, <1>10, ThreadStep, ProcessType DEF Connected, lockVars, heapVars
<1>11. CASE StorePassBegins
  BY <1>0, <1>11, ThreadStep, HolderType DEF StorePassBegins, heapVars
<1>12. CASE StorePassEnds
  BY <1>0, <1>12, ThreadStep, HolderType, ProcessType DEF StorePassEnds, heapVars
<1>13. ASSUME NEW t \in Thread, LoopEnds(t) PROVE IndInv'
  BY <1>0, <1>13, ThreadStep DEF LoopEnds, lockVars, heapVars
<1>14. ASSUME NEW t \in Thread, Cancelled(t) PROVE IndInv'
  <2>1. CASE at[t] = "none"
    <3>1. at' = [at EXCEPT ![t] = "end"] /\ cancelled /\ main \notin Startup
      BY <1>14 DEF Cancelled, IndInv, EndInv
    <3>2. UNCHANGED <<main, lockVars, heapVars, stop, cancelled, process, child>>
      BY <1>14 DEF Cancelled
    <3> QED
      BY <1>0, <3>1, <3>2 DEF IndInv, StartInv, ReadyInv, EndInv, lockVars, heapVars
  <2>2. CASE at[t] # "none"
    BY <1>0, <1>14, <2>2, ThreadStep DEF Cancelled, lockVars, heapVars
  <2> QED
    BY <2>1, <2>2
<1> QED
  BY <1>1, <1>2, <1>3, <1>4, <1>5, <1>6, <1>7, <1>8, <1>9, <1>10, <1>11, <1>13,
     <1>12, <1>14 DEF DataThread, StorageThread, Thread

\* A client thread starts from the input loop only and then is on its own.
LEMMA ClientStep ==
  ASSUME IndInv, NEW k \in Client, ConnectCommand(k) \/ ClientEnds(k)
  PROVE  IndInv'
<1> USE DEF IndInv, TypeOK, StartInv, ReadyInv, EndInv, Startup, Part, Mutex, lockVars
<1>1. CASE ConnectCommand(k)
  BY <1>1 DEF ConnectCommand
<1>2. CASE ClientEnds(k)
  BY <1>2 DEF ClientEnds
<1> QED
  BY <1>1, <1>2

(***************************************************************************)
(* IndInv holds in every reachable state: a signal, a failing call and any *)
(* interleaving of the threads leave it true.                              *)
(***************************************************************************)
THEOREM Invariance == Spec => []IndInv
<1>1. Init => IndInv
  BY InitInv
<1>2. IndInv /\ [Next]_vars => IndInv'
  <2> SUFFICES ASSUME IndInv, [Next]_vars PROVE IndInv'
    OBVIOUS
  <2> USE DEF IndInv, TypeOK, StartInv, ReadyInv, EndInv, lockVars, heapVars
  <2>1. CASE MainThread \/ InputFails
    BY <2>1, MainStep
  <2>2. CASE ConnectionThread
    BY <2>2, ConnectionStep
  <2>3. CASE \/ SweepBegins \/ SweepEnds \/ Visit \/ AddData \/ DataThread
             \/ StorageThread \/ \E t \in Thread : Cancelled(t)
    BY <2>3, WorkerStep
  <2>4. CASE Interrupt
    BY <2>4 DEF Interrupt
  <2>5. CASE Fails
    BY <2>5 DEF Fails
  <2>6. CASE Child \/ ChildInterrupted \/ ChildExits
    BY <2>6 DEF Child, ChildOpens, ChildEof, ChildInterrupted, ChildExits
  <2>7. CASE UNCHANGED vars
    BY <2>7 DEF vars
  <2>8. ASSUME NEW s \in Sensor,
               Terminate(s) \/ MainCloseEnds(s) \/ HangUpEnds(s) \/ SensorEnds(s)
        PROVE  IndInv'
    BY <2>8, CloseStep
  <2>9. ASSUME NEW k \in Client, ConnectCommand(k) \/ ClientEnds(k) PROVE IndInv'
    BY <2>9, ClientStep
  <2> QED
    BY <2>1, <2>2, <2>3, <2>4, <2>5, <2>6, <2>7, <2>8, <2>9 DEF Next
<1> QED
  BY <1>1, <1>2, PTL DEF Spec

(***************************************************************************)
(* Every variable keeps its type.                                          *)
(***************************************************************************)
THEOREM TypeCorrect == Spec => []TypeOK
<1>1. IndInv => TypeOK
  BY DEF IndInv
<1> QED
  BY <1>1, Invariance, PTL

(***************************************************************************)
(* No part but the list's mutex is used before main has initialised it,    *)
(* although two threads run before the first of them is.                   *)
(***************************************************************************)
THEOREM ReadyCorrect == Spec => []ReadyBeforeUse
<1>1. IndInv => ReadyBeforeUse
  <2> SUFFICES ASSUME IndInv PROVE ReadyBeforeUse
    OBVIOUS
  <2>1. main \notin Startup => Part \ {"log"} \subseteq ready
    BY DEF IndInv, TypeOK, ReadyInv, Startup, Part, Mutex
  <2>2. main \in Startup => /\ table = {} /\ at["update"] # "visit"
                            /\ at["data"] # "check"
                            /\ at["connection"] \notin {"tls", "add"}
                            /\ client = {}
    BY DEF IndInv, StartInv
  <2> QED
    BY <2>1, <2>2 DEF ReadyBeforeUse, Part, Mutex
<1> QED
  BY <1>1, Invariance, PTL

------------------------------------------------------------------------------
(* Who holds the mutexes. *)

\* Steps of main: it enters no section without the mutex and destroys a mutex
\* only when it is free.
LEMMA MainLocks == IndInv /\ LockInv /\ (MainThread \/ InputFails) => LockInv'
<1> SUFFICES ASSUME IndInv, LockInv, MainThread \/ InputFails PROVE LockInv'
  OBVIOUS
<1> USE DEF LockInv, GoneInv, HoldersGoOn, Inside, Free, Thread, Mutex, IndInv, TypeOK, StartInv, Startup
<1>1. CASE StartBackground
  BY <1>1 DEF StartBackground, lockVars, heapVars
<1>2. CASE Fork
  BY <1>2 DEF Fork, lockVars, heapVars
<1>3. CASE InitLog
  BY <1>3 DEF InitLog, heapVars
<1>4. CASE InitLogFails
  BY <1>4 DEF InitLogFails, lockVars, heapVars
<1>5. CASE InitConn
  BY <1>5 DEF InitConn
<1>6. CASE InitStore
  BY <1>6 DEF InitStore, heapVars
<1>7. CASE InitData
  BY <1>7 DEF InitData, heapVars
<1>8. CASE InitLimiter
  BY <1>8 DEF InitLimiter, heapVars
<1>9. CASE InitSsl
  BY <1>9 DEF InitSsl, heapVars
<1>10. CASE Spawn
  BY <1>10 DEF Spawn, lockVars, heapVars
<1>11. CASE InputEnds
  BY <1>11 DEF InputEnds, lockVars, heapVars
<1>12. CASE CleanConn
  BY <1>12 DEF CleanConn, Lock
<1>13. CASE CleanConnEnds
  BY <1>13 DEF CleanConnEnds, Unlock
<1>14. CASE CleanData
  BY <1>14 DEF CleanData, heapVars
<1>15. CASE CloseDb
  BY <1>15 DEF CloseDb, lockVars, heapVars
<1>16. CASE CleanStore
  BY <1>16 DEF CleanStore, heapVars
<1>17. CASE CleanLog
  BY <1>17 DEF CleanLog, heapVars
<1>18. CASE Cancel
  BY <1>18 DEF Cancel, lockVars, heapVars
<1>19. CASE Join
  BY <1>19 DEF Join, lockVars, heapVars
<1>20. CASE CleanSsl
  BY <1>20 DEF CleanSsl, heapVars
<1>21. CASE Return
  BY <1>21 DEF Return, lockVars, heapVars
<1>22. CASE InputFails
  BY <1>22 DEF InputFails, lockVars, heapVars
<1> QED
  BY <1>1, <1>2, <1>3, <1>4, <1>5, <1>6, <1>7, <1>8, <1>9, <1>10, <1>11, <1>12,
     <1>13, <1>14, <1>15, <1>16, <1>17, <1>18, <1>19, <1>20, <1>21, <1>22 DEF MainThread

\* Steps of the threads.
LEMMA ThreadLocks ==
  IndInv /\ LockInv
    /\ (ConnectionThread \/ SweepBegins \/ SweepEnds \/ Visit \/ AddData \/ DataThread
        \/ StorageThread) => LockInv'
<1> SUFFICES ASSUME IndInv, LockInv,
                    ConnectionThread \/ SweepBegins \/ SweepEnds \/ Visit \/ AddData
                      \/ DataThread \/ StorageThread
             PROVE  LockInv'
  OBVIOUS
<1> USE DEF LockInv, GoneInv, HoldersGoOn, Inside, Free, Thread, Mutex, IndInv, TypeOK, StartInv, Startup
<1>1. CASE ConnectionStarts
  BY <1>1 DEF ConnectionStarts, Goto, lockVars, heapVars
<1>2. CASE Handshake
  BY <1>2 DEF Handshake, Goto, lockVars, heapVars
<1>3. CASE HandshakeEnds
  BY <1>3 DEF HandshakeEnds, Goto, lockVars, heapVars
<1>4. CASE AddRefused
  BY <1>4 DEF AddRefused, Goto, lockVars, heapVars
<1>5. CASE ConnectionStops
  BY <1>5 DEF ConnectionStops, Goto, lockVars, heapVars
<1>6. ASSUME NEW s \in Sensor, AddConnection(s) PROVE LockInv'
  BY <1>6 DEF AddConnection, Goto, lockVars
<1>7. ASSUME NEW s \in Sensor, HangUp(s) PROVE LockInv'
  BY <1>7 DEF HangUp, Goto, Unlink, Lock, Closer
<1>8. CASE SweepBegins
  BY <1>8 DEF SweepBegins, Goto, Lock, heapVars
<1>9. CASE SweepEnds
  BY <1>9 DEF SweepEnds, Goto, Unlock
<1>10. CASE Visit
  BY <1>10 DEF Visit, Goto, lockVars, heapVars
<1>11. CASE AddData
  BY <1>11 DEF AddData, Goto, lockVars, heapVars
<1>12. CASE DataWakes
  BY <1>12 DEF DataWakes, Goto, lockVars, heapVars
<1>13. CASE DataPassBegins
  BY <1>13 DEF DataPassBegins, Goto, Lock, linkVars
<1>14. CASE CheckBegins
  BY <1>14 DEF CheckBegins, Goto, Lock, linkVars
<1>15. CASE CheckEnds
  BY <1>15 DEF CheckEnds, Goto, Unlock, heapVars
<1>16. CASE DataPassEnds
  BY <1>16 DEF DataPassEnds, Goto, Unlock, linkVars
<1>17. CASE Connected
  BY <1>17 DEF Connected, Goto, lockVars, heapVars
<1>18. CASE StorePassBegins
  BY <1>18 DEF StorePassBegins, Goto, Lock, heapVars
<1>19. CASE StorePassEnds
  BY <1>19 DEF StorePassEnds, Goto, Unlock, heapVars
<1>20. ASSUME NEW t \in Thread, LoopEnds(t) PROVE LockInv'
  BY <1>20 DEF LoopEnds, Goto, lockVars, heapVars
<1> QED
  BY <1>1, <1>2, <1>3, <1>4, <1>5, <1>6, <1>7, <1>8, <1>9, <1>10, <1>11, <1>12,
     <1>13, <1>14, <1>15, <1>16, <1>17, <1>18, <1>19, <1>20 DEF ConnectionThread, DataThread, StorageThread, Thread

\* A close keeps the list's mutex until its end and then gives it back.
LEMMA CloseLocks ==
  ASSUME IndInv, LockInv, NEW s \in Sensor,
         Terminate(s) \/ MainCloseEnds(s) \/ HangUpEnds(s) \/ SensorEnds(s)
  PROVE  LockInv'
<1> USE DEF LockInv, GoneInv, HoldersGoOn, Inside, Free, Thread, Mutex, IndInv, TypeOK, StartInv, Startup
<1>1. CASE Terminate(s)
  BY <1>1 DEF Terminate, Unlink, Lock, Closer
<1>2. CASE TerminateEnds(s)
  BY <1>2 DEF TerminateEnds, RemoveEnds, Closed, Unlock, Closer
<1>3. CASE NodeClosed(s)
  BY <1>3 DEF NodeClosed, Closed, lockVars, Closer
<1>4. CASE HangUpEnds(s)
  BY <1>4 DEF HangUpEnds, RemoveEnds, Closed, Unlock, Goto, Closer
<1>5. CASE SensorEnds(s)
  BY <1>5 DEF SensorEnds, lockVars
<1> QED
  BY <1>1, <1>2, <1>3, <1>4, <1>5 DEF MainCloseEnds

\* Every step keeps what is known of who holds which mutex.
LEMMA LockStep == IndInv /\ LockInv /\ [Next]_vars => LockInv'
<1> SUFFICES ASSUME IndInv, LockInv, [Next]_vars PROVE LockInv'
  OBVIOUS
<1>1. CASE MainThread \/ InputFails
  BY <1>1, MainLocks
<1>2. CASE \/ ConnectionThread \/ SweepBegins \/ SweepEnds \/ Visit \/ AddData
           \/ DataThread \/ StorageThread
  BY <1>2, ThreadLocks
<1>3. CASE \E s \in Sensor : \/ Terminate(s) \/ MainCloseEnds(s)
                             \/ HangUpEnds(s) \/ SensorEnds(s)
  BY <1>3, CloseLocks
<1>4. ASSUME NEW t \in Thread, Cancelled(t) PROVE LockInv'
  BY <1>4 DEF Cancelled, Goto, lockVars, heapVars, LockInv, GoneInv, HoldersGoOn, Inside,
              Free, Mutex, IndInv, TypeOK
<1>5. CASE Interrupt \/ Fails \/ Child \/ ChildInterrupted \/ ChildExits \/ UNCHANGED vars
  BY <1>5 DEF Interrupt, Fails, Child, ChildOpens, ChildEof, ChildInterrupted, ChildExits, vars,
              lockVars, heapVars, LockInv, GoneInv, HoldersGoOn, Inside, Free
<1>6. ASSUME NEW k \in Client, ConnectCommand(k) \/ ClientEnds(k) PROVE LockInv'
  BY <1>6 DEF ConnectCommand, ClientEnds, lockVars, LockInv, GoneInv, HoldersGoOn, Inside, Free
<1> QED
  BY <1>1, <1>2, <1>3, <1>4, <1>5, <1>6 DEF Next

(***************************************************************************)
(* The threads and the cleanup never wait for each other in a circle:      *)
(* whoever holds a mutex the cleanup needs is in its section and finds     *)
(* the one mutex it takes there free.                                      *)
(***************************************************************************)
THEOREM HoldersCorrect == Spec => []HoldersGoOn
<1>1. Init => LockInv
  BY LifecycleAssumption DEF Init, LockInv, GoneInv, HoldersGoOn, Inside, Free, Mutex, Thread
<1>2. LockInv => HoldersGoOn
  BY DEF LockInv
<1> QED
  BY <1>1, <1>2, LockStep, Invariance, PTL DEF Spec
==============================================================================
