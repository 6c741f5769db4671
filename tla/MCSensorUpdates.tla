--------------------------- MODULE MCSensorUpdates ---------------------------
(***************************************************************************)
(* Three sensors.  s1 and s2 report the address i1, s3 reports i2; s2 and  *)
(* s3 report the same port.  The descriptor number a client sends is its   *)
(* own, so in the gateway it names something else: s1 sends the number of  *)
(* the second socket the gateway accepts, s2 that of the first, and s3     *)
(* that of the listener.                                                   *)
(***************************************************************************)
EXTENDS SensorUpdates, TLC

CONSTANTS s1, s2, s3, i1, i2

MCIpOf     == s1 :> i1 @@ s2 :> i1 @@ s3 :> i2
MCPortOf   == s1 :> 1 @@ s2 :> 2 @@ s3 :> 2
MCSockFdOf == s1 :> 2 @@ s2 :> 1 @@ s3 :> 0
==============================================================================
