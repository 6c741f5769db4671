------------------------------ MODULE Admission ------------------------------
(***************************************************************************)
(* What the gateway promises about the sensors in its table, whatever its  *)
(* threads do to each other: a sensor enters the table once, only while    *)
(* its address has fewer than MaxPerIp sensors in it and no sensor of it   *)
(* holds the same port, and one that has left never comes back.            *)
(*                                                                         *)
(* ConnectionTable implements this specification.                          *)
(***************************************************************************)
EXTENDS Integers, FiniteSets

CONSTANTS Conn, IpOf, PortOf, MaxPerIp

VARIABLES sessions,   \* sensors in the table
          past        \* sensors that were in it

sessionVars == <<sessions, past>>

Init == sessions = {} /\ past = {}

Open(c) ==
  /\ c \notin sessions \cup past
  /\ Cardinality({s \in sessions : IpOf[s] = IpOf[c]}) < MaxPerIp
  /\ \A s \in sessions : PortOf[s] # PortOf[c]
  /\ sessions' = sessions \cup {c}
  /\ UNCHANGED past

CloseAll(C) ==
  /\ C # {}
  /\ sessions' = sessions \ C
  /\ past' = past \cup C

Next == \/ \E c \in Conn : Open(c)
        \/ \E C \in SUBSET sessions : CloseAll(C)

Spec == Init /\ [][Next]_sessionVars
==============================================================================
