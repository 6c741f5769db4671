---------------------------- MODULE SensorStorage ----------------------------
(***************************************************************************)
(* The storage manager (Final_Project/src/storage/storage.c): the update   *)
(* thread appends readings to a list in memory, the storage thread opens   *)
(* the database and moves the list into it, one insertion at a time, and   *)
(* the main thread tears both down after SIGINT.                           *)
(*                                                                         *)
(* SQLite is external: opening, creating the table and inserting may each  *)
(* fail, a handle that was good may stop working for good (DbLost), and a  *)
(* call with a NULL handle fails.                                          *)
(*                                                                         *)
(* The list is appended to at its tail and walked from its head; it is the *)
(* set `pending' ordered by `arrival'.  A pass over it is a cursor, the    *)
(* arrival number of the last node visited.                                *)
(***************************************************************************)
EXTENDS Integers, FiniteSets

CONSTANTS Reading,      \* the readings the update thread produces
          RetryLimit    \* SQL_RETRY_LIMIT

ASSUME StorageAssumption == /\ IsFiniteSet(Reading)
                            /\ RetryLimit \in Nat \ {0}

VARIABLES
  pending, arrival,   \* pending_data_head
  rows,               \* copies of each reading in the table sensor_data
  total,              \* total_messages_received
  status, retry,      \* sql_info.status, sql_info.retry_count
  handle,             \* what sql_info.db_handle points to
  mutex,              \* storage_manager.mutex
  spc, cursor,        \* the storage thread
  mpc,                \* the main thread
  stop,               \* stop_requested
  lost                \* history: readings freed unwritten

listVars == <<pending, arrival, lost>>
sqlVars  == <<status, retry, handle>>
vars     == <<listVars, rows, total, sqlVars, mutex, spc, cursor, mpc, stop>>

TypeOK ==
  /\ pending \in SUBSET Reading
  /\ arrival \in [Reading -> Nat]
  /\ rows \in [Reading -> Nat]
  /\ total \in Nat
  /\ status \in {"CONNECTED", "DISCONNECTED"}
  /\ retry \in 0 .. RetryLimit
  /\ handle \in {"null", "open", "broken", "failed", "closed"}
  /\ mutex \in {"free", "held", "destroyed"}
  /\ spc \in {"top", "open", "table", "lock", "pass", "ended"}
  /\ cursor \in Nat
  /\ mpc \in {"input", "close", "drain", "done", "exited"}
  /\ stop \in BOOLEAN
  /\ lost \in SUBSET Reading

Init ==
  /\ pending = {} /\ arrival = [r \in Reading |-> 0] /\ lost = {}
  /\ rows = [r \in Reading |-> 0] /\ total = 0
  /\ status = "DISCONNECTED" /\ retry = 0 /\ handle = "null"
  /\ mutex = "free"
  /\ spc = "top" /\ cursor = 0
  /\ mpc = "input" /\ stop = FALSE
------------------------------------------------------------------------------
Running == mpc # "exited"

\* The process ends, and what it still holds in memory is lost.
EndProcess == /\ mpc' = "exited"
              /\ lost' = lost \cup pending
              /\ pending' = {}

Arrived == {r \in Reading : arrival[r] > 0}

\* The node a walk that has reached `cursor' visits next.
NextNode(r) ==
  /\ r \in pending /\ arrival[r] > cursor
  /\ \A q \in pending : arrival[q] > cursor => arrival[r] <= arrival[q]

\* Locking a destroyed mutex fails and the caller, who ignores the result,
\* goes on without it.
Lock == mutex # "held" /\ mutex' = IF mutex = "free" THEN "held" ELSE mutex
Unlock == mutex' = IF mutex = "held" THEN "free" ELSE mutex
------------------------------------------------------------------------------
(* The update thread: storage_add_data.  A reading whose node cannot be    *)
(* allocated is dropped and leaves no trace here.                          *)
AddData(r) ==
  /\ Running /\ mutex # "held"
  /\ arrival[r] = 0
  /\ pending' = pending \cup {r}
  /\ arrival' = [arrival EXCEPT ![r] = Cardinality(Arrived) + 1]
  /\ UNCHANGED <<lost, rows, total, sqlVars, mutex, spc, cursor, mpc, stop>>

\* Once the mutex is destroyed nothing keeps the walk to the tail apart from a
\* pass that frees nodes: the reading may be hung on a freed node and be lost.
AddDataRaces(r) ==
  /\ Running /\ mutex = "destroyed" /\ spc = "pass"
  /\ arrival[r] = 0
  /\ lost' = lost \cup {r}
  /\ arrival' = [arrival EXCEPT ![r] = Cardinality(Arrived) + 1]
  /\ UNCHANGED <<pending, rows, total, sqlVars, mutex, spc, cursor, mpc, stop>>
------------------------------------------------------------------------------
(* The storage thread. *)

TopOfLoop ==
  /\ Running /\ spc = "top"
  /\ spc' = CASE stop -> "ended"
              [] ~stop /\ status = "DISCONNECTED" -> "open"
              [] ~stop /\ status = "CONNECTED" -> "lock"
  /\ UNCHANGED <<listVars, rows, total, sqlVars, mutex, cursor, mpc, stop>>

\* storage_connect_with_retry: sqlite3_open, then the table, then the status.
\* An sqlite3_open that fails still leaves a handle to be closed.
OpenOk ==
  /\ Running /\ spc = "open"
  /\ handle' = "open"
  /\ spc' = "table"
  /\ UNCHANGED <<listVars, rows, total, status, retry, mutex, cursor, mpc, stop>>

TableOk ==
  /\ Running /\ spc = "table" /\ handle = "open"
  /\ status' = "CONNECTED" /\ retry' = 0
  /\ spc' = "lock"
  /\ UNCHANGED <<listVars, rows, total, handle, mutex, cursor, mpc, stop>>

\* Mutant of ConnectFailure: one retry too many.
ConnectFailureLate ==
  /\ status' = "DISCONNECTED"
  /\ retry' = retry + 1
  /\ IF retry' > RetryLimit
     THEN EndProcess /\ UNCHANGED spc
     ELSE spc' = "top" /\ UNCHANGED <<pending, lost, mpc>>
  /\ UNCHANGED <<arrival, rows, total, mutex, cursor, stop>>

\* handle_sql_connection_failure: the last retry ends the process, and with it
\* what is pending.
ConnectFailure ==
  /\ status' = "DISCONNECTED"
  /\ retry' = retry + 1
  /\ IF retry' >= RetryLimit
     THEN EndProcess /\ UNCHANGED spc
     ELSE spc' = "top" /\ UNCHANGED <<pending, lost, mpc>>
  /\ UNCHANGED <<arrival, rows, total, mutex, cursor, stop>>

OpenFails ==
  /\ Running /\ spc = "open"
  /\ handle' = "failed"
  /\ ConnectFailure

\* Mutant of TableFails: a failed table is taken for a connection.
TableFailsIgnored ==
  /\ Running /\ spc = "table"
  /\ handle' = IF handle = "null" THEN "null" ELSE "closed"
  /\ status' = "CONNECTED" /\ retry' = 0
  /\ spc' = "lock"
  /\ UNCHANGED <<listVars, rows, total, mutex, cursor, mpc, stop>>

\* The handle is closed and db_handle still points to it, unless the main
\* thread set it to NULL meanwhile.
TableFails ==
  /\ Running /\ spc = "table"
  /\ handle' = IF handle = "null" THEN "null" ELSE "closed"
  /\ ConnectFailure

\* Mutant of BeginPass: the walk resumes where the last one ended.
BeginPassResumes ==
  /\ Running /\ spc = "lock" /\ Lock
  /\ spc' = "pass"
  /\ UNCHANGED <<listVars, rows, total, sqlVars, cursor, mpc, stop>>

BeginPass ==
  /\ Running /\ spc = "lock" /\ Lock
  /\ spc' = "pass" /\ cursor' = 0
  /\ UNCHANGED <<listVars, rows, total, sqlVars, mpc, stop>>

\* Mutant of InsertOk: remove_processed_node does not unlink the node.
InsertKeepsNode(r) ==
  /\ Running /\ spc = "pass" /\ NextNode(r)
  /\ handle = "open"
  /\ rows' = [rows EXCEPT ![r] = @ + 1]
  /\ total' = total + 1
  /\ cursor' = arrival[r]
  /\ UNCHANGED <<listVars, sqlVars, mutex, spc, mpc, stop>>

\* The insertion succeeds: unlink the node, free it and count it.
InsertOk(r) ==
  /\ Running /\ spc = "pass" /\ NextNode(r)
  /\ handle = "open"
  /\ rows' = [rows EXCEPT ![r] = @ + 1]
  /\ pending' = pending \ {r}
  /\ total' = total + 1
  /\ cursor' = arrival[r]
  /\ UNCHANGED <<arrival, lost, sqlVars, mutex, spc, mpc, stop>>

\* Mutant of InsertFails: the reading is counted whatever sqlite3_step said.
InsertFailsCounts(r) ==
  /\ Running /\ spc = "pass" /\ NextNode(r)
  /\ cursor' = arrival[r]
  /\ total' = total + 1
  /\ UNCHANGED <<listVars, rows, sqlVars, mutex, spc, mpc, stop>>

\* Mutant of InsertFails: the node of a refused insertion is freed too.
InsertFailsFrees(r) ==
  /\ Running /\ spc = "pass" /\ NextNode(r)
  /\ cursor' = arrival[r]
  /\ pending' = pending \ {r}
  /\ lost' = lost \cup {r}
  /\ UNCHANGED <<arrival, rows, total, sqlVars, mutex, spc, mpc, stop>>

\* It fails: the node stays and the walk goes on to the next one.
InsertFails(r) ==
  /\ Running /\ spc = "pass" /\ NextNode(r)
  /\ cursor' = arrival[r]
  /\ UNCHANGED <<listVars, rows, total, sqlVars, mutex, spc, mpc, stop>>

\* Mutant of EndPass: the pass returns with the mutex held.
EndPassKeepsLock ==
  /\ Running /\ spc = "pass"
  /\ \A r \in pending : arrival[r] <= cursor
  /\ spc' = "top"
  /\ UNCHANGED <<listVars, rows, total, sqlVars, mutex, cursor, mpc, stop>>

EndPass ==
  /\ Running /\ spc = "pass"
  /\ \A r \in pending : arrival[r] <= cursor
  /\ Unlock
  /\ spc' = "top"
  /\ UNCHANGED <<listVars, rows, total, sqlVars, cursor, mpc, stop>>

DbLost ==
  /\ Running /\ handle = "open"
  /\ handle' = "broken"
  /\ UNCHANGED <<listVars, rows, total, status, retry, mutex, spc,
                 cursor, mpc, stop>>
------------------------------------------------------------------------------
(* The main thread: SIGINT and cleanup_storage_manager. *)

Interrupt ==
  /\ mpc = "input"
  /\ stop' = TRUE /\ mpc' = "close"
  /\ UNCHANGED <<listVars, rows, total, sqlVars, mutex, spc, cursor>>

\* Without the mutex, and whatever a non-NULL db_handle points to.
CloseDb ==
  /\ mpc = "close"
  /\ status' = IF handle # "null" THEN "DISCONNECTED" ELSE status
  /\ handle' = "null"
  /\ mpc' = "drain"
  /\ UNCHANGED <<listVars, rows, total, retry, mutex, spc, cursor, stop>>

\* Free what is pending, then destroy the mutex.
DrainPending ==
  /\ mpc = "drain" /\ mutex = "free"
  /\ lost' = lost \cup pending
  /\ pending' = {}
  /\ mutex' = "destroyed"
  /\ mpc' = "done"
  /\ UNCHANGED <<arrival, rows, total, sqlVars, spc, cursor, stop>>

\* cleanup_threads cancels and joins the threads and main returns.
Exit ==
  /\ mpc = "done"
  /\ EndProcess
  /\ UNCHANGED <<arrival, rows, total, sqlVars, mutex, spc, cursor, stop>>
------------------------------------------------------------------------------
StorageThread ==
  \/ TopOfLoop \/ OpenOk \/ OpenFails \/ TableOk \/ TableFails \/ BeginPass \/ EndPass
  \/ \E r \in Reading : InsertOk(r) \/ InsertFails(r)

MainThread == Interrupt \/ CloseDb \/ DrainPending \/ Exit

Next == \/ StorageThread \/ MainThread \/ DbLost
        \/ \E r \in Reading : AddData(r) \/ AddDataRaces(r)

Spec == Init /\ [][Next]_vars

\* The storage thread keeps running, the main thread finishes a shutdown it
\* has begun, and an insertion that is tried again and again on a working
\* handle is not refused for ever.
FairSpec == /\ Spec
            /\ WF_vars(StorageThread)
            /\ WF_vars(CloseDb \/ DrainPending)
            /\ \A r \in Reading : SF_vars(InsertOk(r))
------------------------------------------------------------------------------
(* Properties. *)

Written == {r \in Reading : rows[r] > 0}

\* A reading that has arrived is in exactly one place: in the list, in one row,
\* or given up, which happens only when the gateway goes down.  No interleaving
\* of the threads with a shutdown writes one twice or drops one early.
StoredOnce ==
  \A r \in Reading :
    /\ rows[r] <= 1
    /\ r \in Arrived => r \in pending \cup Written \cup lost
    /\ r \in pending => rows[r] = 0 /\ r \notin lost
    /\ r \in lost => rows[r] = 0 /\ (stop \/ ~Running)

\* The status command's "Total messages received" counts the rows written.
TotalCountsRows == total = Cardinality(Written)

\* process_pending_data and the readdb command run on the strength of status
\* alone: until a shutdown begins, CONNECTED means that the handle is one that
\* was opened and has not been closed since.
ConnectedHasHandle ==
  status = "CONNECTED" /\ ~stop /\ Running => handle \in {"open", "broken"}

\* The ledger, seen from outside.
Ledger == INSTANCE ReadingLedger
          WITH buffered <- pending, written <- Written,
               goingDown <- stop \/ ~Running

LedgerSpec == Ledger!Spec

\* Readings left behind by a failed insertion are retried until they are in
\* the database, unless the process stops or the handle stops working.
EventuallyStored ==
  \A r \in Reading :
    r \in pending ~> (r \in Written \/ stop \/ ~Running \/ handle = "broken")

\* A shutdown gets the mutex and finishes, whatever pass is under way.
ShutdownFinishes == mpc = "close" ~> mpc \in {"done", "exited"}
==============================================================================
