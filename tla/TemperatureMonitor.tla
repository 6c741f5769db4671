-------------------------- MODULE TemperatureMonitor --------------------------
(***************************************************************************)
(* The data manager (Final_Project/src/data/data.c).  Every second its     *)
(* thread walks the connection list under the list's mutex and, for each   *)
(* sensor with a valid reading, feeds the reading into the ring of the     *)
(* sensor's id and compares the mean of the ring with two thresholds.      *)
(*                                                                         *)
(* Around it: the update thread, which overwrites a sensor's reading       *)
(* without the mutex, and the threads that add and remove sensors.  A      *)
(* reading and its validity share one aligned word and are copied          *)
(* together.                                                               *)
(*                                                                         *)
(* Readings are whole degrees and a ring holds a handful of them, so the   *)
(* float mean is compared without rounding: mean < c iff sum < c * count.  *)
(***************************************************************************)
EXTENDS Integers, Sequences, FiniteSets, SequencesExt

CONSTANTS Sensor,           \* sensors that come and go
          MaxConnections,   \* MAX_CONNECTIONS, the number of rings
          HistorySize,      \* TEMPERATURE_HISTORY_SIZE
          Temp,             \* readings the update thread produces
          Hot, Cold,        \* the thresholds
          NONE

ASSUME MonitorAssumption ==
  /\ IsFiniteSet(Sensor)
  /\ MaxConnections \in Nat \ {0} /\ HistorySize \in Nat \ {0}
  /\ Temp \subseteq Nat /\ Hot \in Int /\ Cold \in Int
  /\ NONE \notin Nat

VARIABLES
  table,       \* the connection list, head first
  idOf,        \* sensor_id of each node
  latest,      \* latest_data of each node; NONE while it is not valid
  newId,       \* the id read for a sensor being added
  tableMutex,  \* connection_manager.mutex: free, or held by the data thread
  todo,        \* nodes the data thread has still to visit
  dataMutex,   \* data_manager.mutex
  cells, fill, next,   \* history, count and index of each ring
  verdict      \* history: the last verdict logged for each id

listVars == <<table, idOf, latest, newId>>
ringVars == <<cells, fill, next, verdict>>
vars     == <<listVars, tableMutex, todo, dataMutex, ringVars>>

Id == 0 .. MaxConnections - 1

Slot == 0 .. HistorySize - 1

TypeOK ==
  /\ table \in Seq(Sensor)
  /\ idOf \in [Sensor -> Nat]
  /\ latest \in [Sensor -> Temp \cup {NONE}]
  /\ newId \in Nat \cup {NONE}
  /\ tableMutex \in {"free", "held"}
  /\ todo \in Seq(Sensor)
  /\ dataMutex \in {"free", "held"}
  /\ cells \in [Id -> [Slot -> Nat]]
  /\ fill \in [Id -> 0 .. HistorySize]
  /\ next \in [Id -> Slot]
  /\ verdict \in [Id -> {"none", "hot", "cold", "fine"}]

Init ==
  /\ table = <<>> /\ newId = NONE
  /\ idOf = [s \in Sensor |-> 0]
  /\ latest = [s \in Sensor |-> NONE]
  /\ tableMutex = "free" /\ todo = <<>> /\ dataMutex = "free"
  /\ cells = [i \in Id |-> [j \in Slot |-> 0]]
  /\ fill = [i \in Id |-> 0]
  /\ next = [i \in Id |-> 0]
  /\ verdict = [i \in Id |-> "none"]
------------------------------------------------------------------------------
(* The sensors. *)

Listed == ToSet(table)

\* handle_new_connection reads active_count without the mutex ...
ReadId ==
  /\ newId = NONE /\ Listed # Sensor
  /\ newId' = Len(table)
  /\ UNCHANGED <<table, idOf, latest, tableMutex, todo, dataMutex, ringVars>>

\* ... and add_connection pushes the node with it.
Push(s) ==
  /\ newId # NONE /\ s \notin Listed /\ tableMutex = "free"
  /\ table' = <<s>> \o table
  /\ idOf' = [idOf EXCEPT ![s] = newId]
  /\ latest' = [latest EXCEPT ![s] = NONE]
  /\ newId' = NONE
  /\ UNCHANGED <<tableMutex, todo, dataMutex, ringVars>>

Leave(k) ==
  /\ k \in DOMAIN table /\ tableMutex = "free"
  /\ table' = RemoveAt(table, k)
  /\ UNCHANGED <<idOf, latest, newId, tableMutex, todo, dataMutex, ringVars>>

\* update_sensor_temperature for the id of the node at k: the first node with
\* that id is written, whoever holds the mutex.
FirstWithId(k, id) ==
  idOf[table[k]] = id /\ \A j \in 1 .. k - 1 : idOf[table[j]] # id

Report(k, t) ==
  /\ k \in DOMAIN table
  /\ \E f \in DOMAIN table :
       /\ FirstWithId(f, idOf[table[k]])
       /\ latest' = [latest EXCEPT ![table[f]] = t]
  /\ UNCHANGED <<table, idOf, newId, tableMutex, todo, dataMutex, ringVars>>
------------------------------------------------------------------------------
(* The data thread. *)

\* Mutant of Feed: the index is not advanced.
FeedSameCell(i, t) ==
  IF fill[i] < HistorySize
  THEN /\ cells' = [cells EXCEPT ![i][fill[i]] = t]
       /\ fill' = [fill EXCEPT ![i] = @ + 1]
       /\ UNCHANGED next
  ELSE /\ cells' = [cells EXCEPT ![i][next[i]] = t]
       /\ UNCHANGED <<fill, next>>

\* Mutant of Feed: the index is not wrapped.
FeedNoWrap(i, t) ==
  IF fill[i] < HistorySize
  THEN /\ cells' = [cells EXCEPT ![i][fill[i]] = t]
       /\ fill' = [fill EXCEPT ![i] = @ + 1]
       /\ UNCHANGED next
  ELSE /\ cells' = [cells EXCEPT ![i][next[i]] = t]
       /\ next' = [next EXCEPT ![i] = @ + 1]
       /\ UNCHANGED fill

\* update_temperature_history: fill the ring, then overwrite its oldest cell.
Feed(i, t) ==
  IF fill[i] < HistorySize
  THEN /\ cells' = [cells EXCEPT ![i][fill[i]] = t]
       /\ fill' = [fill EXCEPT ![i] = @ + 1]
       /\ UNCHANGED next
  ELSE /\ cells' = [cells EXCEPT ![i][next[i]] = t]
       /\ next' = [next EXCEPT ![i] = (@ + 1) % HistorySize]
       /\ UNCHANGED fill

\* calculate_running_average, compared with the thresholds; s is the sum and
\* n the number of the cells in use.
Verdict(s, n) == IF s > Hot * n THEN "hot"
                 ELSE IF s < Cold * n THEN "cold" ELSE "fine"

CellSum(ring, n) == FoldFunctionOnSet(+, 0, ring, 0 .. n - 1)

BeginPass ==
  /\ tableMutex = "free"
  /\ tableMutex' = "held" /\ todo' = table
  /\ UNCHANGED <<listVars, dataMutex, ringVars>>

Skip ==
  /\ todo # <<>> /\ latest[Head(todo)] = NONE
  /\ todo' = Tail(todo)
  /\ UNCHANGED <<listVars, tableMutex, dataMutex, ringVars>>

\* Mutant of Check: the mutex is not released after a warning.
CheckKeepsMutex ==
  /\ todo # <<>> /\ latest[Head(todo)] # NONE
  /\ dataMutex = "free"
  /\ LET i == idOf[Head(todo)]
     IN  /\ i \in Id
         /\ Feed(i, latest[Head(todo)])
         /\ verdict' = [verdict EXCEPT ![i] = Verdict(CellSum(cells'[i], fill'[i]), fill'[i])]
         /\ dataMutex' = IF verdict'[i] = "fine" THEN "free" ELSE "held"
  /\ todo' = Tail(todo)
  /\ UNCHANGED <<listVars, tableMutex>>

\* check_temperature_status for an id that has a ring.
Check ==
  /\ todo # <<>> /\ latest[Head(todo)] # NONE
  /\ dataMutex = "free"
  /\ LET i == idOf[Head(todo)]
     IN  /\ i \in Id
         /\ Feed(i, latest[Head(todo)])
         /\ verdict' = [verdict EXCEPT ![i] = Verdict(CellSum(cells'[i], fill'[i]), fill'[i])]
  /\ todo' = Tail(todo)
  /\ UNCHANGED <<listVars, tableMutex, dataMutex>>

\* check_temperature_status for one that has none: it returns with
\* data_manager.mutex locked.
CheckInvalid ==
  /\ todo # <<>> /\ latest[Head(todo)] # NONE
  /\ dataMutex = "free"
  /\ idOf[Head(todo)] \notin Id
  /\ dataMutex' = "held"
  /\ todo' = Tail(todo)
  /\ UNCHANGED <<listVars, tableMutex, ringVars>>

EndPass ==
  /\ tableMutex = "held" /\ todo = <<>>
  /\ tableMutex' = "free"
  /\ UNCHANGED <<listVars, todo, dataMutex, ringVars>>

DataThread == BeginPass \/ Skip \/ Check \/ CheckInvalid \/ EndPass

Next ==
  \/ DataThread \/ ReadId
  \/ \E s \in Sensor : Push(s)
  \/ \E k \in DOMAIN table : Leave(k) \/ \E t \in Temp : Report(k, t)

Spec == Init /\ [][Next]_vars

\* The data thread is always scheduled again.
FairSpec == Spec /\ WF_vars(DataThread)
------------------------------------------------------------------------------
(* Properties. *)

\* The ring of an id read from its oldest cell: the samples that the running
\* average of data.c is taken over.
OldestFirst(i) ==
  [j \in 1 .. fill[i] |->
     cells[i][IF fill[i] < HistorySize THEN j - 1
              ELSE (next[i] + j - 1) % HistorySize]]

\* The rings hold the last samples and the verdicts are those of their mean.
Window == INSTANCE RunningWindow
          WITH Size <- HistorySize, window <- [i \in Id |-> OldestFirst(i)]

WindowSpec == Window!Spec

\* As long as no sensor is given an id past the rings, every pass over the
\* table ends and gives the table's mutex back to the threads waiting for it.
PassesEnd ==
  [](\A s \in Sensor : idOf[s] \in Id) => (tableMutex = "held" ~> tableMutex = "free")
------------------------------------------------------------------------------
(* The inductive invariant: a ring turns only when it is full.             *)
RingInv == \A i \in Id : next[i] # 0 => fill[i] = HistorySize

IndInv == TypeOK /\ RingInv
==============================================================================
