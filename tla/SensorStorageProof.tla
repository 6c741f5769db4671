-------------------------- MODULE SensorStorageProof --------------------------
(***************************************************************************)
(* Proofs about SensorStorage, for any set of readings and any retry       *)
(* limit.                                                                  *)
(*                                                                         *)
(* StoredOnce says that the list, the table and the readings given up      *)
(* divide the readings that have arrived among them.  What makes it        *)
(* inductive is that each of them holds only readings that have arrived    *)
(* (ArrivedInv), since storage_add_data takes each reading once.  RunInv   *)
(* is what the connection and the shutdown know of the status, the retries *)
(* and the mutex.                                                          *)
(***************************************************************************)
EXTENDS SensorStorage, FiniteSetTheorems, WellFoundedInduction, TLAPS

ArrivedInv == pending \cup Written \cup lost \subseteq Arrived

RunInv ==
  /\ Running => retry < RetryLimit
  /\ mpc \in {"close", "drain", "done"} => stop
  /\ mutex = "destroyed" => stop
  /\ spc \in {"open", "table"} => status = "DISCONNECTED"

IndInv == /\ TypeOK /\ ArrivedInv /\ RunInv
          /\ StoredOnce /\ TotalCountsRows /\ ConnectedHasHandle

\* A reading may be given up from now on.
GoingDown == stop \/ ~Running

\* A shutdown is not taken back.
LEMMA DownStays == [Next]_vars /\ GoingDown => GoingDown'
<1> SUFFICES ASSUME [Next]_vars, GoingDown PROVE GoingDown'
  OBVIOUS
<1>1. CASE StorageThread
  BY <1>1 DEF StorageThread, TopOfLoop, OpenOk, OpenFails, TableOk, TableFails,
       ConnectFailure, BeginPass, EndPass, InsertOk, InsertFails, GoingDown, Running
<1>2. CASE MainThread
  BY <1>2 DEF MainThread, Interrupt, CloseDb, DrainPending, Exit, EndProcess, GoingDown, Running
<1>3. CASE DbLost \/ \E r \in Reading : AddData(r) \/ AddDataRaces(r)
  BY <1>3 DEF DbLost, AddData, AddDataRaces, GoingDown, Running
<1>4. CASE UNCHANGED vars
  BY <1>4 DEF vars, GoingDown, Running
<1> QED BY <1>1, <1>2, <1>3, <1>4 DEF Next

\* The readings that have arrived are finitely many.
LEMMA FiniteReadings ==
  ASSUME NEW S \in SUBSET Reading
  PROVE  IsFiniteSet(S) /\ Cardinality(S) \in Nat
BY StorageAssumption, FS_Subset, FS_CardinalityType

\* A new reading, and its arrival number.
LEMMA ArrivalStep ==
  ASSUME IndInv, NEW r \in Reading, arrival[r] = 0,
         arrival' = [arrival EXCEPT ![r] = Cardinality(Arrived) + 1]
  PROVE  /\ arrival' \in [Reading -> Nat]
         /\ Arrived' = Arrived \cup {r}
         /\ r \notin pending \cup Written \cup lost
<1>1. Cardinality(Arrived) \in Nat
  BY FiniteReadings DEF Arrived
<1>2. arrival \in [Reading -> Nat]
  BY DEF IndInv, TypeOK
<1>3. arrival' \in [Reading -> Nat]
  BY <1>1, <1>2
<1>4. \A q \in Reading : arrival'[q] > 0 <=> arrival[q] > 0 \/ q = r
  BY <1>1, <1>2
<1>5. Arrived' = Arrived \cup {r}
  BY <1>4 DEF Arrived
<1>6. r \notin pending \cup Written \cup lost
  BY <1>2 DEF IndInv, ArrivedInv, Arrived
<1> QED BY <1>3, <1>5, <1>6

\* The invariant holds when the gateway starts.
LEMMA InitInv == Init => IndInv
<1> SUFFICES ASSUME Init PROVE IndInv
  OBVIOUS
<1>1. Written = {}
  BY DEF Init, Written
<1>2. TypeOK
  <2>1. retry \in 0 .. RetryLimit
    BY StorageAssumption DEF Init
  <2>2. stop \in BOOLEAN
    BY DEF Init
  <2> QED BY <2>1, <2>2 DEF Init, TypeOK
<1>3. ArrivedInv
  BY <1>1 DEF Init, ArrivedInv
<1>4. RunInv
  BY StorageAssumption DEF Init, RunInv, Running
<1>5. StoredOnce /\ ConnectedHasHandle
  BY DEF Init, StoredOnce, ConnectedHasHandle, Arrived
<1>6. TotalCountsRows
  BY <1>1, FS_EmptySet DEF Init, TotalCountsRows
<1> QED BY <1>2, <1>3, <1>4, <1>5, <1>6 DEF IndInv

\* What ends or retries a connection attempt.
LEMMA FailureStep ==
  ASSUME IndInv, ConnectFailure, Running, spc \in {"open", "table"},
         handle' \in {"null", "failed", "closed"}
  PROVE  IndInv'
<1> USE DEF IndInv
<1>1. retry' \in 0 .. RetryLimit /\ (Running' => retry' < RetryLimit)
  BY StorageAssumption DEF TypeOK, RunInv, ConnectFailure, EndProcess, Running
<1>2. /\ Written' = Written /\ Arrived' = Arrived
      /\ pending' \cup lost' = pending \cup lost
      /\ pending' \subseteq pending
  BY DEF ConnectFailure, EndProcess, Written, Arrived
<1>3. TypeOK'
  BY <1>1 DEF TypeOK, ConnectFailure, EndProcess
<1>4. ArrivedInv'
  BY <1>2 DEF ArrivedInv
<1>5. RunInv'
  BY <1>1 DEF RunInv, TypeOK, ConnectFailure, EndProcess, Running
<1>6. StoredOnce'
  <2>1. lost' = lost \/ (pending' = {} /\ ~Running' /\ lost' = lost \cup pending)
    BY DEF ConnectFailure, EndProcess, Running
  <2>2. stop' = stop /\ rows' = rows /\ (lost' = lost => pending' \subseteq pending)
    BY DEF ConnectFailure, EndProcess
  <2> QED BY <1>2, <2>1, <2>2 DEF StoredOnce
<1>7. TotalCountsRows'
  BY <1>2 DEF TotalCountsRows, ConnectFailure
<1>8. ConnectedHasHandle'
  BY DEF ConnectedHasHandle, ConnectFailure
<1> QED BY <1>3, <1>4, <1>5, <1>6, <1>7, <1>8

\* Steps that touch neither a reading nor the count of retries.
LEMMA QuietStep ==
  ASSUME IndInv, UNCHANGED <<listVars, rows, total>>, GoingDown => GoingDown',
         TypeOK', RunInv', ConnectedHasHandle'
  PROVE  IndInv'
<1>1. Written' = Written /\ Arrived' = Arrived
  BY DEF listVars, Written, Arrived
<1>2. ArrivedInv' /\ StoredOnce' /\ TotalCountsRows'
  BY <1>1 DEF IndInv, ArrivedInv, StoredOnce, TotalCountsRows, listVars, GoingDown
<1> QED BY <1>2 DEF IndInv

\* What is pending is given up.
LEMMA GiveUpStep ==
  ASSUME IndInv, pending' = {}, lost' = lost \cup pending, GoingDown',
         UNCHANGED <<arrival, rows, total>>,
         TypeOK', RunInv', ConnectedHasHandle'
  PROVE  IndInv'
<1>1. Written' = Written /\ Arrived' = Arrived
  BY DEF Written, Arrived
<1>2. ArrivedInv' /\ TotalCountsRows'
  BY <1>1 DEF IndInv, ArrivedInv, TotalCountsRows
<1>3. StoredOnce'
  BY <1>1 DEF IndInv, StoredOnce, GoingDown
<1> QED BY <1>2, <1>3 DEF IndInv

\* Every step keeps the invariant.
LEMMA NextInv == IndInv /\ [Next]_vars => IndInv'
<1> SUFFICES ASSUME IndInv, [Next]_vars PROVE IndInv'
  OBVIOUS
<1>t. TypeOK /\ RunInv /\ ConnectedHasHandle
  BY DEF IndInv
<1>d. GoingDown => GoingDown'
  BY DownStays
<1>1. CASE TopOfLoop
  <2>1. TypeOK' /\ RunInv' /\ ConnectedHasHandle'
    BY <1>1, <1>t DEF TopOfLoop, TypeOK, RunInv, ConnectedHasHandle, Running, listVars, sqlVars
  <2> QED BY <1>1, <2>1, <1>d, QuietStep DEF TopOfLoop
<1>2. CASE OpenOk
  <2>1. TypeOK' /\ RunInv' /\ ConnectedHasHandle'
    BY <1>2, <1>t DEF OpenOk, TypeOK, RunInv, ConnectedHasHandle, Running, listVars
  <2> QED BY <1>2, <2>1, <1>d, QuietStep DEF OpenOk
<1>3. CASE OpenFails
  BY <1>3, FailureStep DEF OpenFails
<1>4. CASE TableOk
  <2>1. TypeOK' /\ RunInv' /\ ConnectedHasHandle'
    BY <1>4, <1>t, StorageAssumption DEF TableOk, TypeOK, RunInv, ConnectedHasHandle, Running, listVars
  <2> QED BY <1>4, <2>1, <1>d, QuietStep DEF TableOk
<1>5. CASE TableFails
  BY <1>5, FailureStep DEF TableFails
<1>6. CASE BeginPass
  <2>1. TypeOK' /\ RunInv' /\ ConnectedHasHandle'
    BY <1>6, <1>t DEF BeginPass, Lock, TypeOK, RunInv, ConnectedHasHandle, Running, listVars, sqlVars
  <2> QED BY <1>6, <2>1, <1>d, QuietStep DEF BeginPass
<1>7. CASE EndPass
  <2>1. TypeOK' /\ RunInv' /\ ConnectedHasHandle'
    BY <1>7, <1>t DEF EndPass, Unlock, TypeOK, RunInv, ConnectedHasHandle, Running, listVars, sqlVars
  <2> QED BY <1>7, <2>1, <1>d, QuietStep DEF EndPass
<1>8. ASSUME NEW r \in Reading, InsertOk(r) PROVE IndInv'
  <2>1. /\ r \in pending /\ rows[r] = 0 /\ r \notin lost
        /\ rows \in [Reading -> Nat]
    BY <1>8, <1>t DEF InsertOk, NextNode, IndInv, StoredOnce, TypeOK
  <2>2. rows' = [rows EXCEPT ![r] = 1]
    BY <1>8, <2>1 DEF InsertOk
  <2>3. Written' = Written \cup {r} /\ r \notin Written
    BY <2>1, <2>2 DEF Written
  <2>4. Arrived' = Arrived
    BY <1>8 DEF InsertOk, Arrived
  <2>5. TypeOK' /\ RunInv' /\ ConnectedHasHandle'
    BY <1>8, <1>t, <2>2 DEF InsertOk, TypeOK, RunInv, ConnectedHasHandle, Running, sqlVars
  <2>6. ArrivedInv'
    BY <1>8, <2>1, <2>3, <2>4 DEF InsertOk, IndInv, ArrivedInv
  <2>7. StoredOnce'
    BY <1>8, <1>d, <2>1, <2>2, <2>3, <2>4 DEF InsertOk, IndInv, StoredOnce, GoingDown
  <2>8. TotalCountsRows'
    <3>1. IsFiniteSet(Written) /\ Cardinality(Written) \in Nat
      BY FiniteReadings DEF Written
    <3>2. Cardinality(Written') = Cardinality(Written) + 1
      BY <3>1, <2>3, FS_AddElement
    <3> QED BY <1>8, <3>2 DEF InsertOk, IndInv, TotalCountsRows
  <2> QED BY <2>5, <2>6, <2>7, <2>8 DEF IndInv
<1>9. ASSUME NEW r \in Reading, InsertFails(r) PROVE IndInv'
  <2>1. TypeOK' /\ RunInv' /\ ConnectedHasHandle'
    BY <1>9, <1>t DEF InsertFails, TypeOK, RunInv, ConnectedHasHandle, Running, listVars, sqlVars
  <2> QED BY <1>9, <2>1, <1>d, QuietStep DEF InsertFails
<1>10. CASE Interrupt
  <2>1. TypeOK' /\ RunInv' /\ ConnectedHasHandle'
    BY <1>10, <1>t DEF Interrupt, TypeOK, RunInv, ConnectedHasHandle, Running, listVars, sqlVars
  <2> QED BY <1>10, <2>1, <1>d, QuietStep DEF Interrupt
<1>11. CASE CloseDb
  <2>1. TypeOK' /\ RunInv' /\ ConnectedHasHandle'
    BY <1>11, <1>t DEF CloseDb, TypeOK, RunInv, ConnectedHasHandle, Running, listVars
  <2> QED BY <1>11, <2>1, <1>d, QuietStep DEF CloseDb
<1>12. CASE DrainPending
  <2>0. GoingDown'
    BY <1>12, <1>t DEF DrainPending, RunInv, GoingDown, TypeOK
  <2>1. TypeOK' /\ RunInv' /\ ConnectedHasHandle'
    BY <1>12, <1>t DEF DrainPending, TypeOK, RunInv, ConnectedHasHandle, Running, sqlVars
  <2> QED BY <1>12, <2>0, <2>1, GiveUpStep DEF DrainPending
<1>13. CASE Exit
  <2>0. GoingDown'
    BY <1>13, <1>t DEF Exit, RunInv, GoingDown, EndProcess, Running
  <2>1. TypeOK' /\ RunInv' /\ ConnectedHasHandle'
    BY <1>13, <1>t DEF Exit, EndProcess, TypeOK, RunInv, ConnectedHasHandle, Running, sqlVars
  <2> QED BY <1>13, <2>0, <2>1, GiveUpStep DEF Exit, EndProcess
<1>14. CASE DbLost
  <2>1. TypeOK' /\ RunInv' /\ ConnectedHasHandle'
    BY <1>14, <1>t DEF DbLost, TypeOK, RunInv, ConnectedHasHandle, Running, listVars
  <2> QED BY <1>14, <2>1, <1>d, QuietStep DEF DbLost
<1>15. ASSUME NEW r \in Reading, AddData(r) PROVE IndInv'
  <2>1. /\ arrival' \in [Reading -> Nat] /\ Arrived' = Arrived \cup {r}
        /\ r \notin pending \cup Written \cup lost
    BY <1>15, ArrivalStep DEF AddData
  <2>2. Written' = Written
    BY <1>15 DEF AddData, Written
  <2>3. TypeOK' /\ RunInv' /\ ConnectedHasHandle'
    BY <1>15, <1>t, <2>1 DEF AddData, TypeOK, RunInv, ConnectedHasHandle, Running, sqlVars
  <2>4. ArrivedInv' /\ TotalCountsRows'
    BY <1>15, <2>1, <2>2 DEF AddData, IndInv, ArrivedInv, TotalCountsRows
  <2>5. rows[r] = 0
    BY <1>t, <2>1 DEF Written, TypeOK
  <2>6. StoredOnce'
    BY <1>15, <1>d, <2>1, <2>2, <2>5 DEF AddData, IndInv, StoredOnce, GoingDown
  <2> QED BY <2>3, <2>4, <2>6 DEF IndInv
<1>16. ASSUME NEW r \in Reading, AddDataRaces(r) PROVE IndInv'
  <2>1. /\ arrival' \in [Reading -> Nat] /\ Arrived' = Arrived \cup {r}
        /\ r \notin pending \cup Written \cup lost
    BY <1>16, ArrivalStep DEF AddDataRaces
  <2>2. Written' = Written
    BY <1>16 DEF AddDataRaces, Written
  <2>3. TypeOK' /\ RunInv' /\ ConnectedHasHandle'
    BY <1>16, <1>t, <2>1 DEF AddDataRaces, TypeOK, RunInv, ConnectedHasHandle, Running, sqlVars
  <2>4. ArrivedInv' /\ TotalCountsRows'
    BY <1>16, <2>1, <2>2 DEF AddDataRaces, IndInv, ArrivedInv, TotalCountsRows
  <2>5. rows[r] = 0
    BY <1>t, <2>1 DEF Written, TypeOK
  <2>6. StoredOnce'
    BY <1>16, <1>d, <1>t, <2>1, <2>2, <2>5 DEF AddDataRaces, RunInv, IndInv, StoredOnce, GoingDown
  <2> QED BY <2>3, <2>4, <2>6 DEF IndInv
<1>17. CASE UNCHANGED vars
  <2>1. TypeOK' /\ RunInv' /\ ConnectedHasHandle'
    BY <1>17, <1>t DEF vars, TypeOK, RunInv, ConnectedHasHandle, Running, listVars, sqlVars
  <2> QED BY <1>17, <2>1, <1>d, QuietStep DEF vars
<1> QED
  BY <1>1, <1>2, <1>3, <1>4, <1>5, <1>6, <1>7, <1>8, <1>9, <1>10, <1>11, <1>12,
     <1>13, <1>14, <1>15, <1>16, <1>17 DEF Next, StorageThread, MainThread

\* Every reachable state satisfies the inductive invariant.
THEOREM Invariance == Spec => []IndInv
BY InitInv, NextInv, PTL DEF Spec

\* Variables keep their types; in particular storage_connect_with_retry never
\* counts past SQL_RETRY_LIMIT.
THEOREM TypeCorrect == Spec => []TypeOK
<1>1. IndInv => TypeOK
  BY DEF IndInv
<1> QED BY <1>1, Invariance, PTL

\* A reading that has arrived is in memory or in the database, once and never
\* in both, whatever a shutdown does meanwhile, until the gateway gives it up on
\* its way down.
THEOREM OnceCorrect == Spec => []StoredOnce
<1>1. IndInv => StoredOnce
  BY DEF IndInv
<1> QED BY <1>1, Invariance, PTL

\* total_messages_received is the number of rows written.
THEOREM TotalCorrect == Spec => []TotalCountsRows
<1>1. IndInv => TotalCountsRows
  BY DEF IndInv
<1> QED BY <1>1, Invariance, PTL

\* Until a shutdown begins, a CONNECTED status comes with an opened handle.
THEOREM HandleCorrect == Spec => []ConnectedHasHandle
<1>1. IndInv => ConnectedHasHandle
  BY DEF IndInv
<1> QED BY <1>1, Invariance, PTL
------------------------------------------------------------------------------
(* SensorStorage implements ReadingLedger. *)

\* Initially the abstract ledger is empty.
LEMMA RefineInit == Init => Ledger!Init
BY DEF Init, Ledger!Init, Written, Running

\* Giving up what is pending, on the way out.
LEMMA GoDownStep ==
  ASSUME pending' = {}, lost' = lost \cup pending, Written' = Written,
         (stop \/ ~Running)'
  PROVE  \E R \in SUBSET pending : Ledger!GoDown(R)
<1>1. Ledger!GoDown(pending)
  BY DEF Ledger!GoDown
<1> QED BY <1>1

\* Every step is one of ReadingLedger or leaves the abstract ledger alone.
LEMMA RefineNext == IndInv /\ [Next]_vars => [Ledger!Next]_Ledger!ledgerVars
<1> SUFFICES ASSUME IndInv, [Next]_vars
             PROVE  Ledger!Next \/ UNCHANGED Ledger!ledgerVars
  OBVIOUS
<1>t. TypeOK /\ RunInv
  BY DEF IndInv
<1> USE DEF Ledger!Next, Ledger!ledgerVars
<1>1. CASE TopOfLoop \/ OpenOk \/ TableOk \/ BeginPass \/ EndPass \/ DbLost
  BY <1>1 DEF TopOfLoop, OpenOk, TableOk, BeginPass, EndPass, DbLost,
              listVars, Written, Running
<1>2. CASE OpenFails \/ TableFails
  <2>1. Running /\ ConnectFailure
    BY <1>2 DEF OpenFails, TableFails
  <2>2. Written' = Written
    BY <2>1 DEF ConnectFailure, Written
  <2>3. CASE retry' >= RetryLimit
    <3>1. pending' = {} /\ lost' = lost \cup pending /\ ~Running'
      BY <2>1, <2>3 DEF ConnectFailure, EndProcess, Running
    <3> QED BY <2>2, <3>1, GoDownStep
  <2>4. CASE ~(retry' >= RetryLimit)
    BY <2>1, <2>2, <2>4 DEF ConnectFailure, Running
  <2> QED BY <2>3, <2>4
<1>3. ASSUME NEW r \in Reading, InsertOk(r)
      PROVE  Ledger!Next
  <2>1. r \in pending /\ rows[r] = 0 /\ rows \in [Reading -> Nat]
    BY <1>3, <1>t DEF InsertOk, NextNode, IndInv, StoredOnce, TypeOK
  <2>2. rows' = [rows EXCEPT ![r] = 1]
    BY <1>3, <2>1 DEF InsertOk
  <2>3. Written' = Written \cup {r}
    BY <2>1, <2>2 DEF Written
  <2>4. Ledger!Write(r)
    BY <1>3, <2>1, <2>3 DEF InsertOk, Ledger!Write, Running
  <2> QED BY <2>4
<1>4. ASSUME NEW r \in Reading, InsertFails(r)
      PROVE  UNCHANGED Ledger!ledgerVars
  BY <1>4 DEF InsertFails, listVars, Written, Running
<1>5. CASE Interrupt
  <2>1. stop' /\ UNCHANGED <<pending, lost, rows>>
    BY <1>5 DEF Interrupt, listVars
  <2>2. Ledger!GoDown({})
    BY <2>1 DEF Ledger!GoDown, Written
  <2> QED BY <2>2
<1>6. CASE CloseDb
  BY <1>6 DEF CloseDb, listVars, Written, Running
<1>7. CASE DrainPending \/ Exit
  <2>1. Written' = Written /\ stop' /\ pending' = {} /\ lost' = lost \cup pending
    BY <1>7, <1>t DEF DrainPending, Exit, EndProcess, Written, RunInv
  <2> QED BY <2>1, GoDownStep
<1>8. ASSUME NEW r \in Reading, AddData(r)
      PROVE  Ledger!Next
  <2>1. r \notin pending \cup Written \cup lost
    BY <1>8, ArrivalStep DEF AddData
  <2>2. Ledger!Accept(r)
    BY <1>8, <2>1 DEF AddData, Ledger!Accept, Written, Running
  <2> QED BY <2>2
<1>9. ASSUME NEW r \in Reading, AddDataRaces(r)
      PROVE  Ledger!Next
  <2>1. r \notin pending \cup Written \cup lost
    BY <1>9, ArrivalStep DEF AddDataRaces
  <2>2. Ledger!Refuse(r)
    BY <1>9, <1>t, <2>1 DEF AddDataRaces, Ledger!Refuse, Written, Running, RunInv
  <2> QED BY <2>2
<1>10. CASE UNCHANGED vars
  BY <1>10 DEF vars, listVars, Written, Running
<1> QED
  BY <1>1, <1>2, <1>3, <1>4, <1>5, <1>6, <1>7, <1>8, <1>9, <1>10
  DEF Next, StorageThread, MainThread

\* Seen from outside, the storage component behaves as ReadingLedger says: a
\* reading is written once, stays in memory until then, and is given up only
\* once the gateway is going down.
THEOREM Refinement == Spec => LedgerSpec
BY RefineInit, RefineNext, Invariance, PTL DEF Spec, LedgerSpec, Ledger!Spec
------------------------------------------------------------------------------
(* The list as `pending' and `arrival' represent it. *)

\* Arrival numbers run up to the number of readings that have arrived, and no
\* two readings share one: ordered by it, `pending' is a list.
ListInv ==
  \A r \in Arrived :
    /\ arrival[r] <= Cardinality(Arrived)
    /\ \A q \in Arrived : arrival[q] = arrival[r] => q = r

\* A new reading goes to the tail of the list.
LEMMA ListArrival ==
  ASSUME IndInv, ListInv, NEW r \in Reading, arrival[r] = 0,
         arrival' = [arrival EXCEPT ![r] = Cardinality(Arrived) + 1]
  PROVE  ListInv'
<1>1. Cardinality(Arrived) \in Nat /\ IsFiniteSet(Arrived)
  BY FiniteReadings DEF Arrived
<1>2. Arrived' = Arrived \cup {r} /\ r \notin Arrived /\ arrival \in [Reading -> Nat]
  BY ArrivalStep DEF IndInv, TypeOK, Arrived
<1>3. Cardinality(Arrived') = Cardinality(Arrived) + 1
  BY <1>1, <1>2, FS_AddElement
<1>4. arrival'[r] = Cardinality(Arrived) + 1
  BY <1>2
<1>5. \A q \in Arrived :
        q # r /\ arrival'[q] = arrival[q] /\ arrival[q] <= Cardinality(Arrived)
        /\ arrival[q] \in Nat
  BY <1>2 DEF ListInv, Arrived
<1>6. \A q, p \in Arrived : arrival'[q] = arrival'[p] => q = p
  BY <1>5 DEF ListInv
<1>7. ASSUME NEW q \in Arrived' PROVE arrival'[q] <= Cardinality(Arrived')
  BY <1>1, <1>2, <1>3, <1>4, <1>5
<1>8. ASSUME NEW q \in Arrived', NEW p \in Arrived', arrival'[p] = arrival'[q]
      PROVE  p = q
  BY <1>1, <1>2, <1>4, <1>5, <1>6, <1>8
<1> QED BY <1>7, <1>8 DEF ListInv

\* Every step keeps the list a list.
LEMMA ListStep == IndInv /\ ListInv /\ [Next]_vars => ListInv'
<1> SUFFICES ASSUME IndInv, ListInv, [Next]_vars PROVE ListInv'
  OBVIOUS
<1>1. ASSUME NEW r \in Reading, AddData(r) \/ AddDataRaces(r) PROVE ListInv'
  BY <1>1, ListArrival DEF AddData, AddDataRaces
<1>2. CASE UNCHANGED arrival
  BY <1>2 DEF ListInv, Arrived
<1>3. CASE StorageThread \/ DbLost \/ UNCHANGED vars
  BY <1>2, <1>3 DEF StorageThread, TopOfLoop, OpenOk, OpenFails, TableOk, TableFails,
       ConnectFailure, BeginPass, EndPass, InsertOk, InsertFails, DbLost, vars, listVars
<1>4. CASE MainThread
  BY <1>2, <1>4 DEF MainThread, Interrupt, CloseDb, DrainPending, Exit, listVars
<1> QED BY <1>1, <1>3, <1>4 DEF Next

\* A walk over the list has at most one node to visit next, and it leaves no
\* node behind it out: while there is one ahead, there is a next one.
WalkDeterminate ==
  /\ \A q, r \in Reading : NextNode(q) /\ NextNode(r) => q = r
  /\ \A r \in pending : arrival[r] > cursor => \E q \in Reading : NextNode(q)

\* A set of numbers that is not empty has a smallest element.
LEMMA Smallest ==
  ASSUME NEW S \in SUBSET Nat, S # {}
  PROVE  \E m \in S : \A n \in S : m <= n
<1>1. PICK m \in S : \A n \in S : <<n, m>> \notin OpToRel(<, Nat)
  BY NatLessThanWellFounded, WFMin
<1>2. ASSUME NEW n \in S PROVE m <= n
  <2>1. n \in Nat /\ m \in Nat
    OBVIOUS
  <2>2. <<n, m>> \notin {ss \in Nat \X Nat : ss[1] < ss[2]}
    BY <1>1 DEF OpToRel
  <2> QED BY <2>1, <2>2
<1> QED BY <1>2

\* The first node of a list beyond a place in it.
LEMMA FirstAhead ==
  ASSUME IndInv, NEW r \in pending, arrival[r] > cursor
  PROVE  \E q \in Reading : NextNode(q)
<1> DEFINE Numbers == {arrival[q] : q \in {q \in pending : arrival[q] > cursor}}
<1>1. pending \subseteq Reading /\ arrival \in [Reading -> Nat]
  BY DEF IndInv, TypeOK
<1>2. Numbers \subseteq Nat /\ Numbers # {}
  BY <1>1
<1>3. PICK m \in Numbers : \A n \in Numbers : m <= n
  BY <1>2, Smallest
<1>4. PICK q \in pending : arrival[q] > cursor /\ arrival[q] = m
  BY <1>3
<1>5. NextNode(q)
  BY <1>3, <1>4 DEF NextNode
<1> QED BY <1>1, <1>4, <1>5

\* The set and the numbers stand for pending_data_head: every walk over them
\* visits the nodes one by one in the order of their arrival.
THEOREM ListWalked == Spec => []WalkDeterminate
<1>1. Init => ListInv
  BY DEF Init, ListInv, Arrived
<1>2. IndInv /\ ListInv => WalkDeterminate
  <2> SUFFICES ASSUME IndInv, ListInv PROVE WalkDeterminate
    OBVIOUS
  <2>1. ASSUME NEW q \in Reading, NEW r \in Reading, NextNode(q), NextNode(r)
        PROVE  q = r
    <3>1. arrival[q] = arrival[r] /\ arrival[q] > 0 /\ arrival[r] > 0
      BY <2>1 DEF NextNode, IndInv, TypeOK
    <3> QED BY <3>1 DEF ListInv, Arrived
  <2> QED BY <2>1, FirstAhead DEF WalkDeterminate
<1> QED BY <1>1, <1>2, Invariance, ListStep, PTL DEF Spec
------------------------------------------------------------------------------
(* What ShutdownFinishes and EventuallyStored rest on. *)

\* Only a pass over the list holds the mutex, and it gives it back when it ends.
MutexOfPass == /\ mutex = "held" => spc = "pass"
               /\ spc = "pass" => mutex # "free"

\* cleanup_storage_manager, the update thread and every other caller wait for
\* storage_manager.mutex during a pass and at no other time.
THEOREM MutexReturned == Spec => []MutexOfPass
<1>1. Init => MutexOfPass
  BY DEF Init, MutexOfPass
<1>2. IndInv /\ MutexOfPass /\ [Next]_vars => MutexOfPass'
  <2> SUFFICES ASSUME IndInv, MutexOfPass, [Next]_vars PROVE MutexOfPass'
    OBVIOUS
  <2> USE DEF MutexOfPass
  <2>1. CASE TopOfLoop
    BY <2>1 DEF TopOfLoop, IndInv, TypeOK
  <2>2. CASE OpenOk \/ OpenFails \/ TableOk \/ TableFails
    BY <2>2 DEF OpenOk, OpenFails, TableOk, TableFails, ConnectFailure
  <2>3. CASE BeginPass \/ EndPass
    BY <2>3 DEF BeginPass, EndPass, Lock, Unlock, IndInv, TypeOK
  <2>4. ASSUME NEW r \in Reading,
               InsertOk(r) \/ InsertFails(r) \/ AddData(r) \/ AddDataRaces(r)
        PROVE  MutexOfPass'
    BY <2>4 DEF InsertOk, InsertFails, AddData, AddDataRaces
  <2>5. CASE MainThread \/ DbLost \/ UNCHANGED vars
    BY <2>5 DEF MainThread, Interrupt, CloseDb, DrainPending, Exit, DbLost, vars
  <2> QED BY <2>1, <2>2, <2>3, <2>4, <2>5 DEF Next, StorageThread
<1> QED BY <1>1, <1>2, Invariance, PTL DEF Spec

\* The nodes a pass has still to visit.
Ahead == {r \in pending : arrival[r] > cursor}

\* A pass that holds the mutex has fewer nodes ahead of it after each step of
\* the storage thread, whether the insertion succeeds or fails; no step of
\* another thread puts one there, and none is left when the mutex is free.
PassShortens ==
  mutex = "held" =>
    /\ Ahead' \subseteq Ahead
    /\ StorageThread => Ahead' # Ahead \/ mutex' = "free"
    /\ mutex' = "free" => Ahead = {}

\* process_pending_data ends, whatever sqlite3_step answers.
THEOREM PassesShorten == Spec => [][PassShortens]_vars
<1>1. IndInv /\ MutexOfPass /\ [Next]_vars => [PassShortens]_vars
  <2> SUFFICES ASSUME IndInv, Next, mutex = "held", spc = "pass" PROVE PassShortens
    BY DEF PassShortens, MutexOfPass, vars
  <2>1. ASSUME NEW r \in Reading, InsertOk(r) \/ InsertFails(r) PROVE PassShortens
    <3>1. /\ r \in Ahead /\ cursor' = arrival[r] /\ arrival' = arrival
          /\ pending' \subseteq pending /\ mutex' = mutex
      BY <2>1 DEF InsertOk, InsertFails, NextNode, Ahead, listVars
    <3>2. pending \subseteq Reading /\ arrival \in [Reading -> Nat] /\ cursor \in Nat
      BY DEF IndInv, TypeOK
    <3>3. Ahead' \subseteq Ahead /\ r \notin Ahead'
      BY <3>1, <3>2 DEF Ahead
    <3> QED BY <3>1, <3>3 DEF PassShortens
  <2>2. CASE EndPass
    <3>1. Ahead = {}
      BY <2>2 DEF EndPass, Ahead, IndInv, TypeOK
    <3>2. Ahead' = Ahead /\ mutex' = "free"
      BY <2>2 DEF EndPass, Unlock, Ahead, listVars
    <3> QED BY <3>1, <3>2 DEF PassShortens
  <2>3. CASE ~StorageThread /\ (MainThread \/ DbLost)
    <3>1. Ahead' \subseteq Ahead /\ mutex' = "held"
      BY <2>3 DEF MainThread, Interrupt, CloseDb, DrainPending, Exit, EndProcess, DbLost,
                  Ahead, listVars
    <3> QED BY <2>3, <3>1 DEF PassShortens
  <2>4. CASE \E r \in Reading : AddData(r) \/ AddDataRaces(r)
    BY <2>4 DEF AddData, AddDataRaces
  <2>5. CASE TopOfLoop \/ OpenOk \/ OpenFails \/ TableOk \/ TableFails \/ BeginPass
    BY <2>5 DEF TopOfLoop, OpenOk, OpenFails, TableOk, TableFails, BeginPass
  <2> QED BY <2>1, <2>2, <2>3, <2>4, <2>5 DEF Next, StorageThread
<1> QED BY <1>1, Invariance, MutexReturned, PTL DEF Spec
==============================================================================
