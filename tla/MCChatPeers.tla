----------------------------- MODULE MCChatPeers -----------------------------
(***************************************************************************)
(* Up to three connections.  c1 and c2 lead to the same program, which     *)
(* may be dialled while it dials.                                          *)
(***************************************************************************)
EXTENDS ChatPeers, TLC

CONSTANTS c1, c2, c3, a1, a2

MCAddrOf == c1 :> a1 @@ c2 :> a1 @@ c3 :> a2
==============================================================================
