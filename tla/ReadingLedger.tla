---------------------------- MODULE ReadingLedger ----------------------------
(***************************************************************************)
(* What the storage component promises about each sensor reading it        *)
(* accepts: it is written to the database at most once, it stays in memory *)
(* until it is written, and it is given up only once the gateway is going  *)
(* down.                                                                   *)
(*                                                                         *)
(* SensorStorage implements this specification.                            *)
(***************************************************************************)
CONSTANT Reading

VARIABLES buffered,   \* accepted, not yet written
          written,    \* in the database
          lost,       \* given up
          goingDown   \* the gateway is stopping or has stopped

ledgerVars == <<buffered, written, lost, goingDown>>

Init == buffered = {} /\ written = {} /\ lost = {} /\ goingDown = FALSE

Accept(r) ==
  /\ r \notin buffered \cup written \cup lost
  /\ buffered' = buffered \cup {r}
  /\ UNCHANGED <<written, lost, goingDown>>

Write(r) ==
  /\ r \in buffered
  /\ buffered' = buffered \ {r}
  /\ written' = written \cup {r}
  /\ UNCHANGED <<lost, goingDown>>

\* Stopping gives up the readings R.
GoDown(R) ==
  /\ goingDown' = TRUE
  /\ buffered' = buffered \ R
  /\ lost' = lost \cup R
  /\ UNCHANGED written

\* A reading handed over while the gateway stops may be given up at once.
Refuse(r) ==
  /\ goingDown
  /\ r \notin buffered \cup written \cup lost
  /\ lost' = lost \cup {r}
  /\ UNCHANGED <<buffered, written, goingDown>>

Next == \/ \E r \in Reading : Accept(r) \/ Write(r) \/ Refuse(r)
        \/ \E R \in SUBSET buffered : GoDown(R)

Spec == Init /\ [][Next]_ledgerVars
==============================================================================
