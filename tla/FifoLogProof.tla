----------------------------- MODULE FifoLogProof -----------------------------
(***************************************************************************)
(* Proofs about FifoLog, for any number of calls and any capacity.         *)
(*                                                                         *)
(* The bound on the numbers is inductive together with the same bound on   *)
(* log_count: a store writes a number loaded earlier, plus one, and the    *)
(* calls that have begun only grow in number.                              *)
(***************************************************************************)
EXTENDS FifoLog, FiniteSetTheorems, SequenceTheorems, TLAPS

Begun == {e \in Event : call[e] # "none"}

\* A call that has not begun has loaded nothing.
Unnumbered == \A e \in Event : call[e] = "none" => number[e] = 0

IndInv == /\ TypeOK /\ NumbersBounded /\ Unnumbered
          /\ count <= Cardinality(Begun)

\* The calls are finitely many.
LEMMA BegunFinite ==
  /\ IsFiniteSet(Begun) /\ Cardinality(Begun) \in Nat
  /\ Cardinality(Event) \in Nat /\ Cardinality(Begun) <= Cardinality(Event)
<1>1. Begun \subseteq Event
  BY DEF Begun
<1> QED BY <1>1, LogAssumption, FS_Subset, FS_CardinalityType

\* A call goes on: the calls that have begun stay the same.
LEMMA ProgressStep ==
  ASSUME IndInv, NEW e \in Event, NEW l \in {"numbered", "written", "lost"},
         call[e] # "none", call' = [call EXCEPT ![e] = l], UNCHANGED number
  PROVE  Begun' = Begun /\ NumbersBounded' /\ Unnumbered'
<1>1. Begun' = Begun
  BY DEF Begun, IndInv, TypeOK
<1>2. \A d \in Event : call'[d] # "none" <=> call[d] # "none"
  BY DEF IndInv, TypeOK
<1>3. {d \in Event : call'[d] # "none"} = {d \in Event : call[d] # "none"}
  BY <1>2
<1> QED BY <1>1, <1>2, <1>3 DEF IndInv, NumbersBounded, Unnumbered

\* A call begins: there is one more of them.
LEMMA BeginStep ==
  ASSUME IndInv, NEW e \in Event, NEW l \in {"loaded", "lost"},
         call[e] = "none", call' = [call EXCEPT ![e] = l]
  PROVE  Cardinality(Begun') = Cardinality(Begun) + 1
<1>1. Begun' = Begun \cup {e} /\ e \notin Begun
  BY DEF Begun, IndInv, TypeOK
<1> QED BY <1>1, BegunFinite, FS_AddElement

\* An event enters a FIFO that is not full.
LEMMA AppendType ==
  ASSUME NEW s \in Seq(Event), NEW e \in Event, Len(s) < Capacity
  PROVE  Append(s, e) \in Seq(Event) /\ Len(Append(s, e)) <= Capacity
BY LogAssumption

\* What a read takes out of the FIFO and what it leaves.
LEMMA ReadType ==
  ASSUME NEW s \in Seq(Event), NEW n \in 1 .. Len(s), Len(s) <= Capacity
  PROVE  /\ SubSeq(s, 1, n) \in Seq(Event)
         /\ SubSeq(s, n + 1, Len(s)) \in Seq(Event)
         /\ Len(SubSeq(s, n + 1, Len(s))) <= Capacity
BY LogAssumption

\* What the header leaves of the file.
LEMMA DropHead ==
  ASSUME NEW s \in Seq(Event)
  PROVE  /\ SubSeq(s, 2, Len(s)) \in Seq(Event)
         /\ s = <<>> => SubSeq(s, 2, Len(s)) = <<>>
         /\ s # <<>> => /\ Len(SubSeq(s, 2, Len(s))) = Len(s) - 1
                        /\ \A i \in 1 .. Len(s) - 1 : SubSeq(s, 2, Len(s))[i] = s[i + 1]
<1>1. CASE s = <<>>
  BY <1>1
<1>2. CASE s # <<>>
  <2>1. Len(s) \in Nat \ {0} /\ \A i \in 2 .. Len(s) : s[i] \in Event
    BY <1>2, EmptySeq
  <2>2. /\ SubSeq(s, 2, Len(s)) \in Seq(Event)
        /\ Len(SubSeq(s, 2, Len(s))) = IF 2 <= Len(s) THEN Len(s) - 2 + 1 ELSE 0
        /\ \A i \in 1 .. Len(s) - 2 + 1 : SubSeq(s, 2, Len(s))[i] = s[2 + i - 1]
    BY <2>1, SubSeqProperties
  <2>3. PICK t \in Seq(Event) : t = SubSeq(s, 2, Len(s))
    BY <2>2
  <2>4. Len(t) = Len(s) - 1 /\ \A i \in 1 .. Len(s) - 1 : t[i] = s[i + 1]
    <3>1. PICK n \in Nat \ {0} : n = Len(s)
      BY <2>1
    <3>2. n - 2 + 1 = n - 1 /\ (2 <= n \/ n = 1)
      BY <3>1
    <3>3. Len(t) = n - 1
      BY <2>2, <2>3, <3>1, <3>2
    <3>4. ASSUME NEW i \in 1 .. n - 1 PROVE t[i] = s[i + 1]
      <4>1. i \in 1 .. n - 2 + 1 /\ 2 + i - 1 = i + 1
        BY <3>2
      <4> QED BY <2>2, <2>3, <3>1, <4>1
    <3> QED BY <3>1, <3>3, <3>4
  <2> QED BY <1>2, <2>3, <2>4
<1> QED BY <1>1, <1>2

\* The invariant holds when the log starts.
LEMMA InitInv == Init => IndInv
<1> SUFFICES ASSUME Init PROVE IndInv
  OBVIOUS
<1>1. TypeOK
  <2>1. count \in 0 .. Cardinality(Event)
    BY BegunFinite DEF Init
  <2>2. fifo \in Seq(Event) /\ file \in Seq(Event) /\ Len(fifo) <= Capacity
    BY LogAssumption DEF Init
  <2>3. reader \in BOOLEAN /\ stop \in BOOLEAN
    BY DEF Init
  <2> QED BY <2>1, <2>2, <2>3 DEF Init, TypeOK
<1>2. NumbersBounded
  BY DEF Init, NumbersBounded
<1>3. count <= Cardinality(Begun)
  BY BegunFinite DEF Init
<1>4. Unnumbered
  BY DEF Init, Unnumbered
<1> QED BY <1>1, <1>2, <1>3, <1>4 DEF IndInv

\* Steps that change no call and no number.
LEMMA QuietStep ==
  ASSUME IndInv, UNCHANGED <<count, call, number>>, TypeOK'
  PROVE  IndInv'
BY DEF IndInv, NumbersBounded, Unnumbered, Begun

\* Every step keeps the invariant.
LEMMA NextInv == IndInv /\ [Next]_vars => IndInv'
<1> SUFFICES ASSUME IndInv, [Next]_vars PROVE IndInv'
  OBVIOUS
<1>t. TypeOK
  BY DEF IndInv
<1>1. ASSUME NEW e \in Event, Load(e) PROVE IndInv'
  <2>1. Cardinality(Begun') = Cardinality(Begun) + 1
    BY <1>1, BeginStep DEF Load
  <2>2. TypeOK'
    BY <1>1, <1>t, BegunFinite DEF Load, TypeOK
  <2>3. count' <= Cardinality(Begun')
    BY <1>1, <1>t, <2>1, BegunFinite DEF Load, IndInv, TypeOK
  <2>4. \A d \in Event : call'[d] # "none" => number'[d] < Cardinality(Begun')
    BY <1>1, <1>t, <2>1, BegunFinite DEF Load, IndInv, TypeOK, NumbersBounded, Begun
  <2>5. NumbersBounded'
    BY <2>4 DEF NumbersBounded, Begun
  <2>6. Unnumbered'
    BY <1>1, <1>t DEF Load, IndInv, TypeOK, Unnumbered
  <2> QED BY <2>2, <2>3, <2>5, <2>6 DEF IndInv
<1>2. ASSUME NEW e \in Event, Store(e) PROVE IndInv'
  <2>1. Begun' = Begun /\ NumbersBounded' /\ Unnumbered'
    BY <1>2, ProgressStep DEF Store
  <2>2. number[e] + 1 <= Cardinality(Begun)
    BY <1>2, <1>t, BegunFinite DEF Store, IndInv, TypeOK, NumbersBounded, Begun
  <2>3. count' <= Cardinality(Begun')
    BY <1>2, <2>1, <2>2 DEF Store
  <2>4. TypeOK'
    BY <1>2, <1>t, <2>2, BegunFinite DEF Store, TypeOK
  <2> QED BY <2>1, <2>3, <2>4 DEF IndInv
<1>3. ASSUME NEW e \in Event, WriteOk(e) PROVE IndInv'
  <2>1. Begun' = Begun /\ NumbersBounded' /\ Unnumbered'
    BY <1>3, ProgressStep DEF WriteOk
  <2>2. TypeOK'
    BY <1>3, <1>t, AppendType DEF WriteOk, TypeOK
  <2> QED BY <1>3, <2>1, <2>2 DEF WriteOk, IndInv
<1>4. ASSUME NEW e \in Event, WriteFails(e) \/ WriteKills(e) PROVE IndInv'
  <2>1. Begun' = Begun /\ NumbersBounded' /\ Unnumbered'
    BY <1>4, ProgressStep DEF WriteFails, WriteKills
  <2>2. TypeOK'
    BY <1>4, <1>t DEF WriteFails, WriteKills, TypeOK
  <2> QED BY <1>4, <2>1, <2>2 DEF WriteFails, WriteKills, IndInv
<1>5. ASSUME NEW e \in Event, LogAfterDestroy(e) PROVE IndInv'
  <2>0. call[e] = "none" /\ call' = [call EXCEPT ![e] = "lost"] /\ UNCHANGED <<count, number>>
    BY <1>5 DEF LogAfterDestroy
  <2>1. Cardinality(Begun') = Cardinality(Begun) + 1
    BY <2>0, BeginStep
  <2>2. TypeOK'
    BY <1>5, <1>t DEF LogAfterDestroy, TypeOK
  <2>3. count' <= Cardinality(Begun')
    BY <2>0, <1>t, <2>1, BegunFinite DEF IndInv, TypeOK
  <2>4. number[e] < Cardinality(Begun')
    BY <2>0, <2>1, BegunFinite DEF IndInv, Unnumbered
  <2>5. NumbersBounded'
    BY <2>0, <1>t, <2>1, <2>4, BegunFinite DEF IndInv, TypeOK, NumbersBounded, Begun
  <2>6. Unnumbered'
    BY <2>0, <1>t DEF IndInv, TypeOK, Unnumbered
  <2> QED BY <2>2, <2>3, <2>5, <2>6 DEF IndInv
<1>6. CASE Read
  <2>1. PICK n \in 1 .. Len(fifo) :
          file' = file \o SubSeq(fifo, 1, n) /\ fifo' = SubSeq(fifo, n + 1, Len(fifo))
    BY <1>6 DEF Read
  <2>2. /\ fifo' \in Seq(Event) /\ Len(fifo') <= Capacity
        /\ file' \in Seq(Event)
    BY <1>t, <2>1, ReadType DEF TypeOK
  <2>3. TypeOK'
    BY <1>6, <1>t, <2>2 DEF Read, TypeOK
  <2> QED BY <1>6, <2>3, QuietStep DEF Read
<1>7. CASE \/ ReadInterrupted \/ ReadEof \/ ClearTruncates \/ ClearWritesHeader
           \/ Interrupt \/ InputEnds \/ DestroyLogger \/ Exit
  <2>1. CASE ReadInterrupted \/ ReadEof
    <3>1. reader' \in BOOLEAN
      BY <2>1 DEF ReadInterrupted, ReadEof
    <3> QED BY <2>1, <3>1, <1>t, QuietStep DEF ReadInterrupted, ReadEof, TypeOK
  <2>2. CASE ClearTruncates
    <3>1. file' \in Seq(Event)
      BY <2>2 DEF ClearTruncates
    <3> QED BY <2>2, <3>1, <1>t, QuietStep DEF ClearTruncates, TypeOK
  <2>5. CASE ClearWritesHeader
    <3>1. file' \in Seq(Event)
      BY <2>5, <1>t, DropHead DEF ClearWritesHeader, TypeOK
    <3> QED BY <2>5, <3>1, <1>t, QuietStep DEF ClearWritesHeader, TypeOK
  <2>3. CASE Interrupt
    <3>1. stop' \in BOOLEAN
      BY <2>3 DEF Interrupt
    <3> QED BY <2>3, <3>1, <1>t, QuietStep DEF Interrupt, TypeOK
  <2>4. CASE InputEnds \/ DestroyLogger \/ Exit
    BY <2>4, <1>t, QuietStep DEF InputEnds, DestroyLogger, Exit, TypeOK
  <2> QED BY <1>7, <2>1, <2>2, <2>3, <2>4, <2>5
<1>8. CASE UNCHANGED vars
  <2>1. TypeOK'
    BY <1>8, <1>t DEF vars, TypeOK
  <2> QED BY <1>8, <2>1, QuietStep DEF vars
<1> QED
  BY <1>1, <1>2, <1>3, <1>4, <1>5, <1>6, <1>7, <1>8 DEF Next, LogProcess

\* Every reachable state satisfies the inductive invariant.
THEOREM Invariance == Spec => []IndInv
BY InitInv, NextInv, PTL DEF Spec

\* Variables keep their types; in particular log_count never exceeds the
\* number of calls and the FIFO its capacity.
THEOREM TypeCorrect == Spec => []TypeOK
<1>1. IndInv => TypeOK
  BY DEF IndInv
<1> QED BY <1>1, Invariance, PTL

\* No call of fifo_log gets a number as large as the number of calls begun.
THEOREM NumbersCorrect == Spec => []NumbersBounded
<1>1. IndInv => NumbersBounded
  BY DEF IndInv
<1> QED BY <1>1, Invariance, PTL

\* Neither process ends, and the logger lives, until the input loop does.
THEOREM RunsUntilStop == Spec => []RunUntilStop
<1>1. Init => RunUntilStop
  BY DEF Init, RunUntilStop
<1>2. RunUntilStop /\ [Next]_vars => RunUntilStop'
  <2> SUFFICES ASSUME RunUntilStop, [Next]_vars PROVE RunUntilStop'
    OBVIOUS
  <2> USE DEF RunUntilStop
  <2>1. ASSUME NEW e \in Event, Load(e) \/ Store(e) \/ WriteOk(e) PROVE RunUntilStop'
    BY <2>1 DEF Load, Store, WriteOk
  <2>2. ASSUME NEW e \in Event, WriteFails(e) \/ WriteKills(e) \/ LogAfterDestroy(e)
        PROVE  RunUntilStop'
    BY <2>2 DEF WriteFails, WriteKills, LogAfterDestroy
  <2>3. CASE LogProcess
    BY <2>3 DEF LogProcess, Read, ReadInterrupted, ReadEof
  <2>4. CASE ClearTruncates \/ ClearWritesHeader \/ Interrupt \/ InputEnds \/ DestroyLogger \/ Exit
    BY <2>4 DEF ClearTruncates, ClearWritesHeader, Interrupt, InputEnds, DestroyLogger, Exit
  <2>5. CASE UNCHANGED vars
    BY <2>5 DEF vars
  <2> QED BY <2>1, <2>2, <2>3, <2>4, <2>5 DEF Next
<1> QED BY <1>1, <1>2, PTL DEF Spec
------------------------------------------------------------------------------
(* FifoLog implements LossyLog. *)

\* Initially the abstract log is empty.
LEMMA RefineInit == Init => Lossy!Init
BY DEF Init, Lossy!Init, Finished

\* Every step is one of LossyLog or leaves the abstract log alone.
LEMMA RefineNext == IndInv /\ [Next]_vars => [Lossy!Next]_Lossy!logVars
<1> SUFFICES ASSUME IndInv, [Next]_vars
             PROVE  Lossy!Next \/ UNCHANGED Lossy!logVars
  OBVIOUS
<1>t. TypeOK
  BY DEF IndInv
<1>1. ASSUME NEW e \in Event, Load(e) \/ Store(e) PROVE UNCHANGED Lossy!logVars
  <2>1. Finished' = Finished
    BY <1>1, <1>t DEF Load, Store, Finished, TypeOK
  <2> QED BY <1>1, <2>1 DEF Load, Store, Lossy!logVars
<1>2. ASSUME NEW e \in Event, WriteOk(e) PROVE Lossy!Next
  <2>1. Finished' = Finished \cup {e} /\ e \notin Finished
    BY <1>2, <1>t DEF WriteOk, Finished, TypeOK
  <2>2. Lossy!HandOver(e)
    BY <1>2, <2>1 DEF WriteOk, Lossy!HandOver
  <2> QED BY <2>2 DEF Lossy!Next
<1>3. ASSUME NEW e \in Event, WriteFails(e) \/ WriteKills(e) \/ LogAfterDestroy(e)
      PROVE  Lossy!Next
  <2>1. Finished' = Finished \cup {e} /\ e \notin Finished
    BY <1>3, <1>t DEF WriteFails, WriteKills, LogAfterDestroy, Finished, TypeOK
  <2>2. Lossy!Refuse(e)
    BY <1>3, <2>1 DEF WriteFails, WriteKills, LogAfterDestroy, Lossy!Refuse
  <2> QED BY <2>2 DEF Lossy!Next
<1>4. CASE Read
  <2>1. PICK n \in 1 .. Len(fifo) :
          file' = file \o SubSeq(fifo, 1, n) /\ fifo' = SubSeq(fifo, n + 1, Len(fifo))
    BY <1>4 DEF Read
  <2>2. Finished' = Finished
    BY <1>4 DEF Read, Finished
  <2>3. Lossy!Record(n)
    BY <2>1, <2>2 DEF Lossy!Record
  <2> QED BY <2>1, <2>3 DEF Lossy!Next
<1>5. CASE ClearTruncates \/ ClearWritesHeader
  <2>1. Lossy!Clear \/ Lossy!ClearLate
    BY <1>5 DEF ClearTruncates, ClearWritesHeader, Lossy!Clear, Lossy!ClearLate, Finished
  <2> QED BY <2>1 DEF Lossy!Next
<1>6. CASE ReadInterrupted \/ ReadEof \/ Interrupt \/ InputEnds \/ DestroyLogger \/ Exit
  BY <1>6 DEF ReadInterrupted, ReadEof, Interrupt, InputEnds, DestroyLogger, Exit,
              Lossy!logVars, Finished
<1>7. CASE UNCHANGED vars
  BY <1>7 DEF vars, Lossy!logVars, Finished
<1> QED
  BY <1>1, <1>2, <1>3, <1>4, <1>5, <1>6, <1>7 DEF Next, LogProcess

\* Seen from outside, the log records each event at most once and in the order
\* in which the FIFO accepted them.
THEOREM Refinement == Spec => LogSpec
BY RefineInit, RefineNext, Invariance, PTL DEF Spec, LogSpec, Lossy!Spec
------------------------------------------------------------------------------
(* No event twice: what LossyLog's steps come to. *)

\* What gateway.log and the FIFO hold between them, oldest first.
Recorded == file \o fifo

\* An event that was written appears once, in the file or in the FIFO.
NoEventTwice ==
  \A i, j \in 1 .. Len(Recorded) : Recorded[i] = Recorded[j] => i = j

\* What is recorded was written by a call, so an event that is about to be
\* written is not there yet.
RecordInv == /\ NoEventTwice
             /\ \A i \in 1 .. Len(Recorded) : call[Recorded[i]] = "written"

\* Two sequences make up a third.
LEMMA Joined ==
  ASSUME NEW q \in Seq(Event), NEW a \in Seq(Event), NEW b \in Seq(Event),
         Len(q) = Len(a) + Len(b),
         \A i \in 1 .. Len(a) : a[i] = q[i],
         \A i \in 1 .. Len(b) : b[i] = q[Len(a) + i]
  PROVE  a \o b = q
<1>1. /\ a \o b \in Seq(Event) /\ Len(a \o b) = Len(q)
      /\ \A i \in 1 .. Len(q) :
           (a \o b)[i] = IF i <= Len(a) THEN a[i] ELSE b[i - Len(a)]
  BY ConcatProperties
<1>2. ASSUME NEW i \in 1 .. Len(q) PROVE (a \o b)[i] = q[i]
  <2>1. CASE i <= Len(a)
    BY <1>1, <2>1
  <2>2. CASE i > Len(a)
    <3>1. (a \o b)[i] = b[i - Len(a)] /\ i - Len(a) \in 1 .. Len(b)
      BY <1>1, <2>2
    <3>2. Len(a) + (i - Len(a)) = i
      OBVIOUS
    <3> QED BY <3>1, <3>2
  <2> QED BY <2>1, <2>2
<1> QED BY <1>1, <1>2, SeqEqual

\* A read moves events from the FIFO's head to the file's end.
LEMMA ReadKeeps ==
  ASSUME NEW f \in Seq(Event), NEW q \in Seq(Event), NEW n \in 1 .. Len(q)
  PROVE  (f \o SubSeq(q, 1, n)) \o SubSeq(q, n + 1, Len(q)) = f \o q
<1>1. /\ SubSeq(q, 1, n) \in Seq(Event) /\ Len(SubSeq(q, 1, n)) = n
      /\ \A i \in 1 .. n : SubSeq(q, 1, n)[i] = q[i]
  OBVIOUS
<1>2. /\ SubSeq(q, n + 1, Len(q)) \in Seq(Event)
      /\ Len(SubSeq(q, n + 1, Len(q))) = Len(q) - n
      /\ \A i \in 1 .. Len(q) - n : SubSeq(q, n + 1, Len(q))[i] = q[n + i]
  OBVIOUS
<1>3. PICK a \in Seq(Event), b \in Seq(Event) :
        /\ a = SubSeq(q, 1, n) /\ Len(a) = n /\ \A i \in 1 .. n : a[i] = q[i]
        /\ b = SubSeq(q, n + 1, Len(q)) /\ Len(b) = Len(q) - n
        /\ \A i \in 1 .. Len(q) - n : b[i] = q[n + i]
  BY <1>1, <1>2
<1>4. /\ f \o a \in Seq(Event) /\ Len(f \o a) = Len(f) + n
      /\ \A i \in 1 .. Len(f) + n :
           (f \o a)[i] = IF i <= Len(f) THEN f[i] ELSE a[i - Len(f)]
  BY <1>3, ConcatProperties
<1>5. /\ f \o q \in Seq(Event) /\ Len(f \o q) = Len(f) + Len(q)
      /\ \A i \in 1 .. Len(f) + Len(q) :
           (f \o q)[i] = IF i <= Len(f) THEN f[i] ELSE q[i - Len(f)]
  BY ConcatProperties
<1>6. ASSUME NEW s \in Seq(Event), NEW r \in Seq(Event), s = f \o a, r = f \o q
      PROVE  s \o b = r
  <2>1. Len(r) = Len(s) + Len(b)
    <3>1. Len(f) \in Nat /\ Len(q) \in Nat /\ n \in Nat
      OBVIOUS
    <3>2. Len(s) = Len(f) + n /\ Len(b) = Len(q) - n /\ Len(r) = Len(f) + Len(q)
      BY <1>3, <1>4, <1>5, <1>6
    <3> QED BY <3>1, <3>2
  <2>2. \A i \in 1 .. Len(s) : s[i] = r[i]
    BY <1>3, <1>4, <1>5, <1>6
  <2>3. \A i \in 1 .. Len(b) : b[i] = r[Len(s) + i]
    BY <1>3, <1>4, <1>5, <1>6
  <2> QED BY <2>1, <2>2, <2>3, Joined
<1> QED BY <1>3, <1>4, <1>5, <1>6

\* Every step keeps the record complete and in order.
LEMMA RecordStep == IndInv /\ RecordInv /\ [Next]_vars => RecordInv'
<1> SUFFICES ASSUME IndInv, RecordInv, [Next]_vars PROVE RecordInv'
  OBVIOUS
<1>t. /\ fifo \in Seq(Event) /\ file \in Seq(Event) /\ Recorded \in Seq(Event)
      /\ call \in [Event -> {"none", "loaded", "numbered", "written", "lost"}]
  BY DEF IndInv, TypeOK, Recorded
<1>1. ASSUME NEW e \in Event, WriteOk(e) PROVE RecordInv'
  <2>1. Recorded' = Append(Recorded, e)
    BY <1>1, <1>t DEF WriteOk, Recorded
  <2>2. /\ Len(Recorded') = Len(Recorded) + 1 /\ Recorded'[Len(Recorded) + 1] = e
        /\ \A i \in 1 .. Len(Recorded) : Recorded'[i] = Recorded[i]
    BY <1>t, <2>1
  <2>3. \A i \in 1 .. Len(Recorded) : Recorded[i] # e
    BY <1>1 DEF WriteOk, RecordInv
  <2>4. call' = [call EXCEPT ![e] = "written"]
    BY <1>1 DEF WriteOk
  <2>5. Len(Recorded) \in Nat /\ \A i \in 1 .. Len(Recorded) : Recorded[i] \in Event
    BY <1>t
  <2>6. NoEventTwice'
    BY <2>2, <2>3, <2>5 DEF RecordInv, NoEventTwice
  <2>7. ASSUME NEW i \in 1 .. Len(Recorded') PROVE call'[Recorded'[i]] = "written"
    <3>1. CASE i = Len(Recorded) + 1
      <4>1. call'[e] = "written"
        BY <1>t, <2>4
      <4> QED BY <2>2, <3>1, <4>1
    <3>2. CASE i \in 1 .. Len(Recorded)
      <4>1. Recorded'[i] = Recorded[i] /\ Recorded[i] \in Event /\ Recorded[i] # e
        BY <2>2, <2>3, <2>5, <3>2
      <4>2. call'[Recorded[i]] = call[Recorded[i]]
        BY <1>t, <2>4, <4>1
      <4> QED BY <3>2, <4>1, <4>2 DEF RecordInv
    <3>3. i = Len(Recorded) + 1 \/ i \in 1 .. Len(Recorded)
      BY <2>2, <2>5
    <3> QED BY <3>1, <3>2, <3>3
  <2> QED BY <2>6, <2>7 DEF RecordInv
<1>2. ASSUME NEW e \in Event, NEW l \in {"loaded", "numbered", "lost"},
             call[e] # "written", call' = [call EXCEPT ![e] = l], UNCHANGED <<fifo, file>>
      PROVE  RecordInv'
  <2>1. Recorded' = Recorded
    BY <1>2 DEF Recorded
  <2>2. \A i \in 1 .. Len(Recorded) : Recorded[i] \in Event /\ Recorded[i] # e
    BY <1>t, <1>2 DEF RecordInv
  <2>3. \A i \in 1 .. Len(Recorded) : call'[Recorded[i]] = "written"
    BY <1>t, <1>2, <2>2 DEF RecordInv
  <2> QED BY <2>1, <2>3 DEF RecordInv, NoEventTwice
<1>3. ASSUME NEW e \in Event,
             \/ Load(e) \/ Store(e) \/ WriteFails(e) \/ WriteKills(e) \/ LogAfterDestroy(e)
      PROVE  RecordInv'
  <2>1. call[e] # "written" /\ UNCHANGED <<fifo, file>>
    BY <1>3 DEF Load, Store, WriteFails, WriteKills, LogAfterDestroy
  <2>2. \E l \in {"loaded", "numbered", "lost"} : call' = [call EXCEPT ![e] = l]
    BY <1>3 DEF Load, Store, WriteFails, WriteKills, LogAfterDestroy
  <2> QED BY <1>2, <2>1, <2>2
<1>4. CASE Read
  <2>1. PICK n \in 1 .. Len(fifo) :
          file' = file \o SubSeq(fifo, 1, n) /\ fifo' = SubSeq(fifo, n + 1, Len(fifo))
    BY <1>4 DEF Read
  <2>2. Recorded' = Recorded
    BY <1>t, <2>1, ReadKeeps DEF Recorded
  <2> QED BY <1>4, <2>2 DEF Read, RecordInv, NoEventTwice
<1>5. CASE ClearTruncates
  <2>1. Recorded' = fifo /\ call' = call
    BY <1>5, <1>t DEF ClearTruncates, Recorded
  <2>2. \A i \in 1 .. Len(fifo) :
          Recorded[Len(file) + i] = fifo[i] /\ Len(file) + i \in 1 .. Len(Recorded)
    BY <1>t DEF Recorded
  <2>3. NoEventTwice'
    <3>1. ASSUME NEW i \in 1 .. Len(fifo), NEW j \in 1 .. Len(fifo), fifo[i] = fifo[j]
          PROVE  i = j
      <4>1. Len(file) + i = Len(file) + j
        BY <2>2, <3>1 DEF RecordInv, NoEventTwice
      <4> QED BY <1>t, <4>1
    <3> QED BY <2>1, <3>1 DEF NoEventTwice
  <2>4. \A i \in 1 .. Len(fifo) : call[fifo[i]] = "written"
    BY <2>2 DEF RecordInv
  <2> QED BY <2>1, <2>3, <2>4 DEF RecordInv
<1>7. CASE ClearWritesHeader
  <2>1. call' = call /\ fifo' = fifo /\ file' = SubSeq(file, 2, Len(file))
    BY <1>7 DEF ClearWritesHeader
  <2>2. CASE file = <<>>
    <3>1. Recorded' = Recorded
      BY <1>t, <2>1, <2>2, DropHead DEF Recorded
    <3> QED BY <2>1, <3>1 DEF RecordInv, NoEventTwice
  <2>3. CASE file # <<>>
    <3>1. /\ file' \in Seq(Event) /\ Len(file') = Len(file) - 1 /\ Len(file) \in Nat \ {0}
          /\ \A i \in 1 .. Len(file) - 1 : file'[i] = file[i + 1]
      BY <1>t, <2>1, <2>3, DropHead, EmptySeq
    <3>2. /\ Len(Recorded) = Len(file) + Len(fifo)
          /\ \A i \in 1 .. Len(file) + Len(fifo) :
               Recorded[i] = IF i <= Len(file) THEN file[i] ELSE fifo[i - Len(file)]
      BY <1>t DEF Recorded
    <3>3. /\ Len(Recorded') = Len(file') + Len(fifo)
          /\ \A i \in 1 .. Len(file') + Len(fifo) :
               Recorded'[i] = IF i <= Len(file') THEN file'[i] ELSE fifo[i - Len(file')]
      BY <1>t, <2>1, <3>1 DEF Recorded
    <3>4. /\ Len(Recorded') = Len(Recorded) - 1
          /\ \A i \in 1 .. Len(Recorded') : Recorded'[i] = Recorded[i + 1]
      <4>1. Len(fifo) \in Nat
        BY <1>t
      <4>2. Len(Recorded') = Len(Recorded) - 1
        BY <3>1, <3>2, <3>3, <4>1
      <4>3. ASSUME NEW i \in 1 .. Len(Recorded') PROVE Recorded'[i] = Recorded[i + 1]
        <5>1. i \in Nat /\ i \in 1 .. Len(file') + Len(fifo) /\ i + 1 \in 1 .. Len(file) + Len(fifo)
          BY <3>1, <3>3, <4>1, <4>3
        <5>2. CASE i <= Len(file')
          BY <3>1, <3>2, <3>3, <5>1, <5>2
        <5>3. CASE i > Len(file')
          <6>1. i - Len(file') = (i + 1) - Len(file)
            BY <3>1, <5>1
          <6> QED BY <3>1, <3>2, <3>3, <5>1, <5>3, <6>1
        <5> QED BY <3>1, <5>1, <5>2, <5>3
      <4> QED BY <4>2, <4>3
    <3>5. Len(Recorded) \in Nat /\ Len(Recorded') \in Nat
      BY <1>t, <3>1, <3>2, <3>3
    <3>6. NoEventTwice'
      BY <3>4, <3>5 DEF RecordInv, NoEventTwice
    <3>7. \A i \in 1 .. Len(Recorded') : call'[Recorded'[i]] = "written"
      BY <2>1, <3>4, <3>5 DEF RecordInv
    <3> QED BY <3>6, <3>7 DEF RecordInv
  <2> QED BY <2>2, <2>3
<1>6. CASE \/ ReadInterrupted \/ ReadEof \/ Interrupt \/ InputEnds \/ DestroyLogger \/ Exit
           \/ UNCHANGED vars
  <2>1. Recorded' = Recorded /\ call' = call
    BY <1>6 DEF ReadInterrupted, ReadEof, Interrupt, InputEnds, DestroyLogger, Exit, vars, Recorded
  <2> QED BY <2>1 DEF RecordInv, NoEventTwice
<1> QED BY <1>1, <1>3, <1>4, <1>5, <1>6, <1>7 DEF Next, LogProcess

\* No event is in gateway.log twice, or once there and once in the FIFO,
\* whatever the reads return and however the log file is cleared.
THEOREM RecordedOnce == Spec => []NoEventTwice
<1>1. Init => RecordInv
  BY DEF Init, RecordInv, NoEventTwice, Recorded
<1>2. RecordInv => NoEventTwice
  BY DEF RecordInv
<1> QED BY <1>1, <1>2, RecordStep, Invariance, PTL DEF Spec
==============================================================================
