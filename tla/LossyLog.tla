------------------------------- MODULE LossyLog -------------------------------
(***************************************************************************)
(* What the event log promises: an event enters the log at most once, the  *)
(* log only grows, unless it is cleared, and it grows in the order in      *)
(* which the events were handed over; an event may be lost on the way.  A  *)
(* clear takes the events that are in the log, and may still take the      *)
(* first one recorded after it.                                            *)
(*                                                                         *)
(* FifoLog implements this specification.                                  *)
(***************************************************************************)
EXTENDS Integers, Sequences

CONSTANT Event

VARIABLES queue,   \* handed over, not yet in the log
          log,     \* the log
          done     \* events that were handed over or refused

logVars == <<queue, log, done>>

Init == queue = <<>> /\ log = <<>> /\ done = {}

HandOver(e) ==
  /\ e \notin done
  /\ done' = done \cup {e}
  /\ queue' = Append(queue, e)
  /\ UNCHANGED log

Refuse(e) ==
  /\ e \notin done
  /\ done' = done \cup {e}
  /\ UNCHANGED <<queue, log>>

Record(n) ==
  /\ log' = log \o SubSeq(queue, 1, n)
  /\ queue' = SubSeq(queue, n + 1, Len(queue))
  /\ UNCHANGED done

Clear == log' = <<>> /\ UNCHANGED <<queue, done>>

ClearLate == log' = SubSeq(log, 2, Len(log)) /\ UNCHANGED <<queue, done>>

Next == \/ \E e \in Event : HandOver(e) \/ Refuse(e)
        \/ \E n \in 1 .. Len(queue) : Record(n)
        \/ Clear \/ ClearLate

Spec == Init /\ [][Next]_logVars
==============================================================================
