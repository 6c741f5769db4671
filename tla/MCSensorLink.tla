---------------------------- MODULE MCSensorLink ----------------------------
(* SensorLink with two commands in one sensor process and one in another.  *)
EXTENDS SensorLink, TLC

CONSTANTS c1, c2, c3, p, q

MCProcOf == (c1 :> p) @@ (c2 :> p) @@ (c3 :> q)
MCPortOf == (p :> 1) @@ (q :> 2)
==============================================================================
