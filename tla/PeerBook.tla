------------------------------- MODULE PeerBook -------------------------------
(***************************************************************************)
(* What the chat program's list of peers promises (the README of           *)
(* Lesson6_Chat_Application, commands connect, list, terminate and exit):  *)
(* peers enter one at a time while there is room, and leave one at a time  *)
(* or all together.  ChatPeers implements this specification.              *)
(***************************************************************************)
EXTENDS Integers, FiniteSets

CONSTANTS Conn, MaxPeers

VARIABLE book

Init == book = {}

Enter(c) == c \notin book /\ Cardinality(book) < MaxPeers /\ book' = book \cup {c}

Leave(c) == book' = book \ {c}

Clear == book' = {}

Next == Clear \/ \E c \in Conn : Enter(c) \/ Leave(c)

Spec == Init /\ [][Next]_book
==============================================================================
