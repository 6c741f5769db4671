------------------------------ MODULE IpLimiter ------------------------------
(***************************************************************************)
(* The table of client addresses kept by Final_Project/src/security/       *)
(* security.c: one entry per address that was ever admitted, with the      *)
(* number of connections the gateway currently attributes to it.  Entries  *)
(* are created by the first admission and never deleted, so an address     *)
(* whose last connection went away keeps its entry with count 0.           *)
(*                                                                         *)
(* Every operation holds the limiter's own mutex from its first line to    *)
(* its last, so each is one step.                                          *)
(***************************************************************************)
EXTENDS Integers, FiniteSets

CONSTANTS Ip,            \* the addresses clients report
          MaxPerIp,      \* MAX_CONNECTIONS_PER_IP
          MaxUniqueIps   \* MAX_UNIQUE_IPS

ASSUME LimiterAssumption == /\ MaxPerIp \in Nat \ {0}
                            /\ MaxUniqueIps \in Nat \ {0}

VARIABLES known,         \* the addresses that have an entry
          count          \* the count of each entry; 0 where there is none

limiterVars == <<known, count>>

LimiterTypeOK == /\ known \in SUBSET Ip
                 /\ count \in [Ip -> 0 .. MaxPerIp]

LimiterInit == /\ known = {}
               /\ count = [ip \in Ip |-> 0]

\* Mutant of HasRoom: the limit itself is still admitted.
HasRoomOffByOne(ip) ==
  \/ ip \in known /\ count[ip] <= MaxPerIp
  \/ ip \notin known /\ Cardinality(known) < MaxUniqueIps

(***************************************************************************)
(* ip_limiter_allow_connection: a known address needs a count below the    *)
(* limit, a new one needs a free entry.                                    *)
(***************************************************************************)
HasRoom(ip) == \/ ip \in known /\ count[ip] < MaxPerIp
               \/ ip \notin known /\ Cardinality(known) < MaxUniqueIps

TakeSlot(ip) == /\ HasRoom(ip)
                /\ known' = known \cup {ip}
                /\ count' = [count EXCEPT ![ip] = @ + 1]

(***************************************************************************)
(* n[ip] calls of ip_limiter_remove_connection for each address ip.  A     *)
(* call does not take a count below 0.                                     *)
(***************************************************************************)
GiveBack(n) ==
  /\ count' = [ip \in Ip |-> IF n[ip] < count[ip] THEN count[ip] - n[ip] ELSE 0]
  /\ UNCHANGED known

\* An address without an entry has no connections; part of the inductive
\* invariant of the modules that use the limiter.
EntriesInv == \A ip \in Ip \ known : count[ip] = 0
==============================================================================
