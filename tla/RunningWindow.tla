---------------------------- MODULE RunningWindow ----------------------------
(***************************************************************************)
(* What the temperature monitor promises: for each sensor id it knows the  *)
(* last Size samples, and its verdict on the id is that of their mean.     *)
(*                                                                         *)
(* TemperatureMonitor implements this specification.                       *)
(***************************************************************************)
EXTENDS Integers, Sequences, SequencesExt

CONSTANTS Id, Size, Temp, Hot, Cold

VARIABLES window,    \* the last samples of each id, oldest first
          verdict    \* what was last said of each id

windowVars == <<window, verdict>>

LastOnes(w) == IF Len(w) > Size THEN Tail(w) ELSE w

SumOf(w) == FoldSeq(+, 0, w)

Judge(w) == IF SumOf(w) > Hot * Len(w) THEN "hot"
            ELSE IF SumOf(w) < Cold * Len(w) THEN "cold" ELSE "fine"

Init == /\ window = [i \in Id |-> <<>>]
        /\ verdict = [i \in Id |-> "none"]

Sample(i, t) ==
  /\ window' = [window EXCEPT ![i] = LastOnes(Append(@, t))]
  /\ verdict' = [verdict EXCEPT ![i] = Judge(window'[i])]

Next == \E i \in Id, t \in Temp : Sample(i, t)

Spec == Init /\ [][Next]_windowVars
==============================================================================
