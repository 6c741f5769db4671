----------------------- MODULE TemperatureMonitorProof -----------------------
(***************************************************************************)
(* Proofs about TemperatureMonitor, for any number of sensors, rings and   *)
(* cells: types, that the monitor implements RunningWindow (a ring is the  *)
(* window of the last HistorySize samples, and the verdict on it that of   *)
(* their mean), and that a pass is never stuck while ids have rings.       *)
(***************************************************************************)
EXTENDS TemperatureMonitor, FiniteSetTheorems, SequenceTheorems, TLAPS

\* The indices of a ring.
LEMMA Sizes ==
  /\ HistorySize \in Nat \ {0} /\ Slot \subseteq Nat
  /\ \A a \in Slot : a < HistorySize
  /\ \A a \in Nat : a < HistorySize => a \in Slot
BY MonitorAssumption DEF Slot

\* An index that has passed the end once.
LEMMA Turn ==
  ASSUME NEW a \in Nat, a < 2 * HistorySize
  PROVE  a % HistorySize = IF a < HistorySize THEN a ELSE a - HistorySize
BY MonitorAssumption

\* The index after an index.
LEMMA Wrap ==
  ASSUME NEW a \in Slot
  PROVE  /\ (a + 1) % HistorySize = IF a = HistorySize - 1 THEN 0 ELSE a + 1
         /\ (a + 1) % HistorySize \in Slot
BY Turn, Sizes DEF Slot

\* Where the jth oldest sample of a full ring with index n is.
Place(n, j) == IF n + j - 1 < HistorySize THEN n + j - 1 ELSE n + j - 1 - HistorySize

\* The place of the jth oldest sample is what the code's modulus yields.
LEMMA PlaceIs ==
  ASSUME NEW n \in Slot, NEW j \in 1 .. HistorySize
  PROVE  (n + j - 1) % HistorySize = Place(n, j) /\ Place(n, j) \in Slot
<1>1. n + j - 1 \in Nat /\ n + j - 1 < 2 * HistorySize
  BY Sizes
<1> QED BY <1>1, Turn, Sizes DEF Place

\* A sample keeps the rings' types and their invariant.
LEMMA FeedStep ==
  ASSUME IndInv, NEW i \in Id, NEW t \in Nat, Feed(i, t)
  PROVE  /\ cells' \in [Id -> [Slot -> Nat]]
         /\ fill' \in [Id -> 0 .. HistorySize]
         /\ next' \in [Id -> Slot]
         /\ RingInv'
<1>1. CASE fill[i] < HistorySize
  <2>1. cells' = [cells EXCEPT ![i][fill[i]] = t] /\ fill' = [fill EXCEPT ![i] = @ + 1]
        /\ next' = next
    BY <1>1 DEF Feed
  <2>2. fill[i] \in Slot /\ next[i] = 0
    BY <1>1, Sizes DEF IndInv, TypeOK, RingInv
  <2>3. fill' \in [Id -> 0 .. HistorySize]
    BY <1>1, <2>1, Sizes DEF IndInv, TypeOK
  <2>4. cells' \in [Id -> [Slot -> Nat]]
    BY <2>1, <2>2 DEF IndInv, TypeOK
  <2> QED BY <2>1, <2>2, <2>3, <2>4 DEF IndInv, TypeOK, RingInv
<1>2. CASE ~(fill[i] < HistorySize)
  <2>1. cells' = [cells EXCEPT ![i][next[i]] = t] /\ fill' = fill
        /\ next' = [next EXCEPT ![i] = (@ + 1) % HistorySize]
    BY <1>2 DEF Feed
  <2>2. next[i] \in Slot /\ fill[i] = HistorySize
    BY <1>2, Sizes DEF IndInv, TypeOK
  <2>3. next' \in [Id -> Slot]
    BY <2>1, <2>2, Wrap DEF IndInv, TypeOK
  <2>4. cells' \in [Id -> [Slot -> Nat]]
    BY <2>1, <2>2 DEF IndInv, TypeOK
  <2>5. RingInv'
    BY <2>1, <2>2 DEF IndInv, TypeOK, RingInv
  <2> QED BY <2>1, <2>3, <2>4, <2>5 DEF IndInv, TypeOK
<1> QED BY <1>1, <1>2

\* Steps that feed no ring.
LEMMA QuietStep ==
  ASSUME IndInv, UNCHANGED ringVars,
         table' \in Seq(Sensor), idOf' \in [Sensor -> Nat],
         latest' \in [Sensor -> Temp \cup {NONE}], newId' \in Nat \cup {NONE},
         tableMutex' \in {"free", "held"}, todo' \in Seq(Sensor),
         dataMutex' \in {"free", "held"}
  PROVE  IndInv'
BY DEF ringVars, IndInv, TypeOK, RingInv

\* The invariant holds when the monitor starts.
LEMMA InitInv == Init => IndInv
BY Sizes DEF Init, IndInv, TypeOK, RingInv

\* Every step keeps the invariant.
LEMMA NextInv == IndInv /\ [Next]_vars => IndInv'
<1> SUFFICES ASSUME IndInv, [Next]_vars PROVE IndInv'
  OBVIOUS
<1>t. TypeOK
  BY DEF IndInv
<1>1. CASE ReadId
  BY <1>1, <1>t, QuietStep DEF ReadId, TypeOK
<1>2. ASSUME NEW s \in Sensor, Push(s) PROVE IndInv'
  <2>1. <<s>> \o table \in Seq(Sensor)
    BY <1>t DEF TypeOK
  <2>2. newId \in Nat
    BY <1>2, <1>t DEF Push, TypeOK
  <2> QED BY <1>2, <1>t, <2>1, <2>2, QuietStep DEF Push, TypeOK
<1>3. ASSUME NEW k \in DOMAIN table, Leave(k) PROVE IndInv'
  <2>1. k \in 1 .. Len(table)
    BY <1>t DEF TypeOK
  <2>2. SubSeq(table, 1, k - 1) \in Seq(Sensor) /\ SubSeq(table, k + 1, Len(table)) \in Seq(Sensor)
    BY <1>t, <2>1 DEF TypeOK
  <2>3. table' \in Seq(Sensor)
    BY <1>3, <2>2 DEF Leave, RemoveAt
  <2> QED BY <1>3, <1>t, <2>3, QuietStep DEF Leave, TypeOK
<1>4. ASSUME NEW k \in DOMAIN table, NEW t \in Temp, Report(k, t) PROVE IndInv'
  <2>1. PICK f \in DOMAIN table : latest' = [latest EXCEPT ![table[f]] = t]
    BY <1>4 DEF Report
  <2>2. latest' \in [Sensor -> Temp \cup {NONE}]
    BY <1>t, <2>1 DEF TypeOK
  <2> QED BY <1>4, <1>t, <2>2, QuietStep DEF Report, TypeOK
<1>5. CASE BeginPass
  BY <1>5, <1>t, QuietStep DEF BeginPass, listVars, TypeOK
<1>6. CASE Skip
  BY <1>6, <1>t, QuietStep DEF Skip, listVars, TypeOK
<1>7. CASE Check
  <2> DEFINE i == idOf[Head(todo)]
             t == latest[Head(todo)]
  <2>1. i \in Id /\ Feed(i, t) /\ Head(todo) \in Sensor
    BY <1>7, <1>t DEF Check, TypeOK
  <2>2. t \in Nat
    BY <1>7, <1>t, <2>1, MonitorAssumption DEF Check, TypeOK
  <2>3. verdict' \in [Id -> {"none", "hot", "cold", "fine"}]
    <3>1. \A s, n : Verdict(s, n) \in {"hot", "cold", "fine"}
      BY DEF Verdict
    <3> QED BY <1>7, <1>t, <3>1 DEF Check, TypeOK
  <2>4. todo' \in Seq(Sensor)
    BY <1>7, <1>t DEF Check, TypeOK
  <2>5. /\ cells' \in [Id -> [Slot -> Nat]] /\ fill' \in [Id -> 0 .. HistorySize]
        /\ next' \in [Id -> Slot] /\ RingInv'
    BY <2>1, <2>2, FeedStep
  <2> QED BY <1>7, <1>t, <2>3, <2>4, <2>5 DEF Check, listVars, IndInv, TypeOK
<1>8. CASE CheckInvalid
  BY <1>8, <1>t, QuietStep DEF CheckInvalid, listVars, TypeOK
<1>9. CASE EndPass
  BY <1>9, <1>t, QuietStep DEF EndPass, listVars, TypeOK
<1>10. CASE UNCHANGED vars
  BY <1>10, <1>t, QuietStep DEF vars, listVars, TypeOK
<1> QED
  BY <1>1, <1>2, <1>3, <1>4, <1>5, <1>6, <1>7, <1>8, <1>9, <1>10 DEF Next, DataThread

\* Every reachable state satisfies the inductive invariant.
THEOREM Invariance == Spec => []IndInv
BY InitInv, NextInv, PTL DEF Spec

\* Variables keep their types: no index or count leaves the ring, whatever
\* sensors come, go and report.
THEOREM TypeCorrect == Spec => []TypeOK
BY Invariance, PTL DEF IndInv
------------------------------------------------------------------------------
(* A ring is a window. *)

\* OldestFirst of a ring with cells c, f of them in use, and index n.
Ring(c, f, n) ==
  [j \in 1 .. f |-> c[IF f < HistorySize THEN j - 1 ELSE (n + j - 1) % HistorySize]]

Cell(f, n, j) == IF f < HistorySize THEN j - 1 ELSE Place(n, j)

\* A ring read from its oldest sample is a sequence of that many samples.
LEMMA RingSeq ==
  ASSUME NEW c \in [Slot -> Nat], NEW f \in 0 .. HistorySize, NEW n \in Slot
  PROVE  /\ Ring(c, f, n) \in Seq(Nat) /\ Len(Ring(c, f, n)) = f
         /\ \A j \in 1 .. f : Ring(c, f, n)[j] = c[Cell(f, n, j)] /\ Cell(f, n, j) \in Slot
<1>1. ASSUME NEW j \in 1 .. f
      PROVE  /\ Cell(f, n, j) \in Slot
             /\ Cell(f, n, j) = IF f < HistorySize THEN j - 1 ELSE (n + j - 1) % HistorySize
  <2>1. CASE f < HistorySize
    BY <2>1, Sizes DEF Cell
  <2>2. CASE ~(f < HistorySize)
    <3>1. j \in 1 .. HistorySize
      BY Sizes
    <3> QED BY <2>2, <3>1, PlaceIs DEF Cell
  <2> QED BY <2>1, <2>2
<1>2. \A j \in 1 .. f : Ring(c, f, n)[j] = c[Cell(f, n, j)]
  BY <1>1 DEF Ring
<1>3. Ring(c, f, n) \in [1 .. f -> Nat]
  BY <1>1 DEF Ring
<1>4. Ring(c, f, n) \in Seq(Nat) /\ f \in Nat
  BY <1>3, SeqDef, Sizes
<1>5. DOMAIN Ring(c, f, n) = 1 .. f /\ DOMAIN Ring(c, f, n) = 1 .. Len(Ring(c, f, n))
  BY <1>3, <1>4, LenProperties
<1>6. Len(Ring(c, f, n)) = f
  BY <1>4, <1>5, LenProperties
<1> QED BY <1>1, <1>2, <1>4, <1>6

\* A ring that is not full grows by the sample.
LEMMA RingGrows ==
  ASSUME NEW c \in [Slot -> Nat], NEW f \in Nat, f < HistorySize, NEW t \in Nat
  PROVE  Ring([c EXCEPT ![f] = t], f + 1, 0) = Append(Ring(c, f, 0), t)
<1> DEFINE d == [c EXCEPT ![f] = t]
           w == Ring(c, f, 0)
           v == Ring(d, f + 1, 0)
<1>0. 0 \in Slot /\ f \in Slot /\ f \in 0 .. HistorySize /\ f + 1 \in 0 .. HistorySize
      /\ d \in [Slot -> Nat]
  BY Sizes
<1> HIDE DEF d
<1>1. /\ w \in Seq(Nat) /\ Len(w) = f
      /\ \A j \in 1 .. f : w[j] = c[Cell(f, 0, j)]
  BY <1>0, RingSeq
<1>2. /\ v \in Seq(Nat) /\ Len(v) = f + 1
      /\ \A j \in 1 .. f + 1 : v[j] = d[Cell(f + 1, 0, j)]
  BY <1>0, RingSeq
<1>3. \A j \in 1 .. f : Cell(f, 0, j) = j - 1
  BY Sizes DEF Cell
<1>4. \A j \in 1 .. f + 1 : Cell(f + 1, 0, j) = j - 1
  BY Sizes DEF Cell, Place
<1>5. ASSUME NEW j \in 1 .. f + 1 PROVE v[j] = Append(w, t)[j]
  <2>1. j - 1 \in Slot
    BY Sizes
  <2>2. v[j] = d[j - 1]
    BY <1>2, <1>4
  <2> HIDE DEF v, w
  <2>3. CASE j = f + 1
    <3>1. d[f] = t
      BY <1>0 DEF d
    <3> QED BY <1>1, <2>2, <2>3, <3>1
  <2>4. CASE j \in 1 .. f
    <3>1. d[j - 1] = c[j - 1]
      BY <2>1, <2>4 DEF d
    <3> QED BY <1>1, <1>3, <2>2, <2>4, <3>1
  <2>5. j = f + 1 \/ j \in 1 .. f
    OBVIOUS
  <2> QED BY <2>3, <2>4, <2>5
<1> HIDE DEF v, w
<1>6. Append(w, t) \in Seq(Nat) /\ Len(Append(w, t)) = f + 1
  BY <1>1
<1>7. v = Append(w, t)
  BY <1>2, <1>5, <1>6, SeqEqual
<1> QED BY <1>7 DEF v, w, d

\* A full ring loses its oldest sample.
LEMMA RingTurns ==
  ASSUME NEW c \in [Slot -> Nat], NEW n \in Slot, NEW t \in Nat
  PROVE  Ring([c EXCEPT ![n] = t], HistorySize, (n + 1) % HistorySize)
           = Tail(Append(Ring(c, HistorySize, n), t))
<1> DEFINE H == HistorySize
           d == [c EXCEPT ![n] = t]
           m == (n + 1) % H
           w == Ring(c, H, n)
           v == Ring(d, H, m)
           u == Tail(Append(w, t))
<1>0. H \in Nat \ {0} /\ H \in 0 .. H /\ n \in Nat /\ n < H
  BY Sizes
<1>m. m \in Slot /\ m = IF n = H - 1 THEN 0 ELSE n + 1
  BY Wrap
<1>d. d \in [Slot -> Nat] /\ d[n] = t /\ \A a \in Slot : a # n => d[a] = c[a]
  OBVIOUS
<1> HIDE DEF m, d
<1>1. /\ w \in Seq(Nat) /\ Len(w) = H
      /\ \A j \in 1 .. H : w[j] = c[Cell(H, n, j)]
  BY <1>0, RingSeq
<1>2. /\ v \in Seq(Nat) /\ Len(v) = H
      /\ \A j \in 1 .. H : v[j] = d[Cell(H, m, j)] /\ Cell(H, m, j) \in Slot
  BY <1>0, <1>m, <1>d, RingSeq
<1>3. \A j \in 1 .. H - 1 : Cell(H, m, j) = Cell(H, n, j + 1) /\ Cell(H, m, j) # n
  BY <1>0, <1>m DEF Cell, Place
<1>4. Cell(H, m, H) = n
  BY <1>0, <1>m DEF Cell, Place
<1> HIDE DEF w, v
<1>5. /\ Append(w, t) \in Seq(Nat) /\ Len(Append(w, t)) = H + 1
      /\ Append(w, t)[H + 1] = t /\ \A j \in 1 .. H : Append(w, t)[j] = w[j]
  BY <1>0, <1>1
<1>6. /\ u \in Seq(Nat) /\ Len(u) = H
      /\ \A j \in 1 .. H : u[j] = Append(w, t)[j + 1]
  <2> DEFINE x == Append(w, t)
  <2>1. x \in Seq(Nat) /\ Len(x) = H + 1 /\ u = Tail(x)
    BY <1>5
  <2> HIDE DEF x, u
  <2>2. u \in Seq(Nat) /\ Len(u) = H /\ \A j \in 1 .. H : u[j] = x[j + 1]
    BY <1>0, <2>1
  <2> QED BY <2>2 DEF x
<1> HIDE DEF u
<1>7. ASSUME NEW j \in 1 .. H PROVE v[j] = u[j]
  <2>1. CASE j = H
    <3>1. v[j] = t
      BY <1>0, <1>d, <1>2, <1>4, <2>1
    <3>2. u[j] = t
      BY <1>0, <1>5, <1>6, <2>1
    <3> QED BY <3>1, <3>2
  <2>2. CASE j \in 1 .. H - 1
    <3>1. v[j] = c[Cell(H, m, j)]
      BY <1>d, <1>2, <1>3, <2>2
    <3>2. u[j] = w[j + 1]
      BY <1>0, <1>5, <1>6, <2>2
    <3>3. w[j + 1] = c[Cell(H, n, j + 1)]
      BY <1>0, <1>1, <2>2
    <3> QED BY <1>3, <2>2, <3>1, <3>2, <3>3
  <2> QED BY <1>0, <2>1, <2>2
<1>8. v = u
  BY <1>2, <1>6, <1>7, SeqEqual
<1> QED BY <1>8 DEF v, u, w, m, d

\* A window that has taken a sample: what the ring's window becomes.
Slid(i, t) == OldestFirst(i)' = Window!LastOnes(Append(OldestFirst(i), t))

\* A sample slides one window by one and leaves the others alone.
LEMMA FeedSlides ==
  ASSUME IndInv, NEW i \in Id, NEW t \in Nat, Feed(i, t)
  PROVE  /\ Slid(i, t)
         /\ \A k \in Id : k # i => OldestFirst(k)' = OldestFirst(k)
<1>0. /\ cells[i] \in [Slot -> Nat] /\ fill[i] \in 0 .. HistorySize /\ next[i] \in Slot
      /\ i \in DOMAIN cells /\ i \in DOMAIN fill /\ i \in DOMAIN next
  BY DEF IndInv, TypeOK
<1>1. \A k : OldestFirst(k) = Ring(cells[k], fill[k], next[k])
             /\ OldestFirst(k)' = Ring(cells'[k], fill'[k], next'[k])
  BY DEF OldestFirst, Ring
<1>2. Len(OldestFirst(i)) = fill[i] /\ OldestFirst(i) \in Seq(Nat)
  BY <1>0, <1>1, RingSeq
<1>3. Len(Append(OldestFirst(i), t)) = fill[i] + 1
  BY <1>2
<1>4. ASSUME fill[i] < HistorySize PROVE Slid(i, t)
  <2>1. next[i] = 0
    BY <1>0, <1>4, Sizes DEF IndInv, RingInv
  <2>2. cells'[i] = [cells[i] EXCEPT ![fill[i]] = t]
    BY <1>0, <1>4 DEF Feed
  <2>3. fill'[i] = fill[i] + 1
    BY <1>0, <1>4 DEF Feed
  <2>4. next'[i] = 0
    BY <1>0, <1>4, <2>1 DEF Feed
  <2>5. Ring([cells[i] EXCEPT ![fill[i]] = t], fill[i] + 1, 0)
          = Append(Ring(cells[i], fill[i], 0), t)
    <3>1. fill[i] \in Nat
      BY <1>0, Sizes
    <3> QED BY <1>0, <1>4, <3>1, RingGrows
  <2>6. OldestFirst(i)' = Append(OldestFirst(i), t)
    BY <1>1, <2>1, <2>2, <2>3, <2>4, <2>5
  <2>7. Window!LastOnes(Append(OldestFirst(i), t)) = Append(OldestFirst(i), t)
    BY <1>0, <1>3, <1>4, Sizes DEF Window!LastOnes
  <2> QED BY <2>6, <2>7 DEF Slid
<1>5. ASSUME ~(fill[i] < HistorySize) PROVE Slid(i, t)
  <2>1. fill[i] = HistorySize
    BY <1>0, <1>5, Sizes
  <2>2. cells'[i] = [cells[i] EXCEPT ![next[i]] = t] /\ fill'[i] = fill[i]
        /\ next'[i] = (next[i] + 1) % HistorySize
    BY <1>0, <1>5 DEF Feed
  <2>5. Ring([cells[i] EXCEPT ![next[i]] = t], HistorySize, (next[i] + 1) % HistorySize)
          = Tail(Append(Ring(cells[i], HistorySize, next[i]), t))
    BY <1>0, RingTurns
  <2>3. OldestFirst(i)' = Tail(Append(OldestFirst(i), t))
    BY <1>1, <2>1, <2>2, <2>5
  <2>4. Window!LastOnes(Append(OldestFirst(i), t)) = Tail(Append(OldestFirst(i), t))
    BY <1>3, <2>1, Sizes DEF Window!LastOnes
  <2> QED BY <2>3, <2>4 DEF Slid
<1>6. ASSUME NEW k \in Id, k # i
      PROVE  cells'[k] = cells[k] /\ fill'[k] = fill[k] /\ next'[k] = next[k]
  BY <1>6 DEF Feed, IndInv, TypeOK
<1> QED BY <1>1, <1>4, <1>5, <1>6

\* In a step no window changes, or the data thread has fed one of them a valid
\* reading.
WindowsSlide ==
  \/ \A i \in Id : OldestFirst(i)' = OldestFirst(i)
  \/ \E i \in Id, t \in Temp :
       Slid(i, t) /\ \A k \in Id : k # i => OldestFirst(k)' = OldestFirst(k)

\* Every step slides at most one window.
LEMMA NextSlides == IndInv /\ [Next]_vars => WindowsSlide
<1> SUFFICES ASSUME IndInv, [Next]_vars PROVE WindowsSlide
  OBVIOUS
<1>1. CASE Check
  <2>1. PICK i \in Id, t \in Temp : Feed(i, t)
    BY <1>1 DEF Check, IndInv, TypeOK
  <2>2. t \in Nat
    BY MonitorAssumption
  <2>3. Slid(i, t) /\ \A k \in Id : k # i => OldestFirst(k)' = OldestFirst(k)
    BY <2>1, <2>2, FeedSlides
  <2> QED BY <2>3 DEF WindowsSlide
<1>2. CASE UNCHANGED ringVars
  BY <1>2 DEF ringVars, OldestFirst, WindowsSlide
<1>3. Check \/ UNCHANGED ringVars
  BY DEF Next, DataThread, ReadId, Push, Leave, Report, BeginPass, Skip, CheckInvalid,
         EndPass, vars
<1> QED BY <1>1, <1>2, <1>3

\* The ring buffer of every sensor id is a sliding window: a check appends one
\* valid reading to the window of one id, dropping the oldest sample of a full
\* one, and nothing else changes a window.
THEOREM Sliding == Spec => [][WindowsSlide]_vars
BY Invariance, NextSlides, PTL DEF Spec
------------------------------------------------------------------------------
(* Sums.  A fold over a set that takes its elements in the order of CHOOSE *)
(* does not depend on that order.                                          *)

\* A family of subsets of a finite set has a member with no smaller one in it:
\* what takes the place of induction on the set.
LEMMA MinimalSubset ==
  ASSUME NEW S, IsFiniteSet(S), NEW B \in SUBSET (SUBSET S), B # {}
  PROVE  \E T \in B : \A U \in B : U \subseteq T => U = T
<1>1. IsWellFoundedOn(StrictSubsetOrdering(S), SUBSET S)
  BY FS_StrictSubsetOrderingWellFounded, FS_FiniteSubsetsOfFinite
<1>2. PICK T \in B : \A U \in B : ~(<<U, T>> \in StrictSubsetOrdering(S))
  BY <1>1, WFMin
<1>3. ASSUME NEW U \in B, U \subseteq T, U # T PROVE FALSE
  <2>1. <<U, T>> \in StrictSubsetOrdering(S)
    BY <1>3 DEF StrictSubsetOrdering
  <2> QED BY <1>2, <2>1
<1> QED BY <1>3

Pick(s) == CHOOSE x \in s : TRUE

\* The element that a sum takes out first is one of the set.
LEMMA PickIn == \A s : s # {} => Pick(s) \in s
BY DEF Pick

\* it is the table of the sums of f over the subsets of S, SumOver its entry for
\* S: the recursive function that a fold with + is, by name.
Sums(f, S, it) ==
  it = [s \in SUBSET S |-> IF s = {} THEN 0 ELSE f[Pick(s)] + it[s \ {Pick(s)}]]

SumOver(f, S) == (CHOOSE it : Sums(f, S, it))[S]

\* The sum over a ring and the sum over a window are such sums.
LEMMA FoldsAreSums ==
  /\ \A c, n : CellSum(c, n) = SumOver(c, 0 .. n - 1)
  /\ \A w : Window!SumOf(w) = SumOver(w, DOMAIN w)
<1>1. \A c, n : CellSum(c, n) = SumOver(c, 0 .. n - 1)
  BY DEF CellSum, FoldFunctionOnSet, MapThenFoldSet, SumOver, Sums, Pick
<1>2. \A w : Window!SumOf(w) = SumOver(w, DOMAIN w)
  BY DEF Window!SumOf, Window!FoldSeq, Window!FoldFunction, Window!FoldFunctionOnSet,
         Window!MapThenFoldSet, SumOver, Sums, Pick
<1> QED BY <1>1, <1>2

\* The entries of a table.
LEMMA SumsEntry ==
  ASSUME NEW f, NEW S, NEW it, Sums(f, S, it), NEW s \in SUBSET S
  PROVE  it[s] = IF s = {} THEN 0 ELSE f[Pick(s)] + it[s \ {Pick(s)}]
<1> DEFINE g == [r \in SUBSET S |-> IF r = {} THEN 0 ELSE f[Pick(r)] + it[r \ {Pick(r)}]]
<1>1. g[s] = IF s = {} THEN 0 ELSE f[Pick(s)] + it[s \ {Pick(s)}]
  OBVIOUS
<1>2. it = g
  BY DEF Sums
<1> HIDE DEF g
<1> QED BY <1>1, <1>2

\* The tables for two sets agree where both are defined.
LEMMA SumsUnique ==
  ASSUME NEW f, NEW S, IsFiniteSet(S), NEW T \in SUBSET S, NEW a, NEW b,
         Sums(f, S, a), Sums(f, T, b)
  PROVE  a[T] = b[T]
<1> DEFINE B == {s \in SUBSET T : a[s] # b[s]}
<1>1. SUFFICES ASSUME B # {} PROVE FALSE
  OBVIOUS
<1>2. PICK s \in B : \A u \in B : u \subseteq s => u = s
  <2>1. IsFiniteSet(T) 
    BY FS_Subset
  <2>2. B \in SUBSET (SUBSET T)
    OBVIOUS
  <2> HIDE DEF B
  <2> QED BY <1>1, <2>1, <2>2, MinimalSubset
<1>3. /\ a[s] = IF s = {} THEN 0 ELSE f[Pick(s)] + a[s \ {Pick(s)}]
      /\ b[s] = IF s = {} THEN 0 ELSE f[Pick(s)] + b[s \ {Pick(s)}]
  <2>1. s \in SUBSET S /\ s \in SUBSET T
    OBVIOUS
  <2> QED BY <2>1, SumsEntry
<1>4. s # {} => s \ {Pick(s)} \in SUBSET T /\ s \ {Pick(s)} # s
  BY PickIn
<1> QED BY <1>2, <1>3, <1>4

\* The sum over a set for which the tables exist.
LEMMA SumUnfolds ==
  ASSUME NEW f, NEW S, IsFiniteSet(S), \E it : Sums(f, S, it),
         S # {} => \E it : Sums(f, S \ {Pick(S)}, it)
  PROVE  SumOver(f, S) = IF S = {} THEN 0 ELSE f[Pick(S)] + SumOver(f, S \ {Pick(S)})
<1> DEFINE a == CHOOSE it : Sums(f, S, it)
           T == S \ {Pick(S)}
           b == CHOOSE it : Sums(f, T, it)
<1>1. Sums(f, S, a) /\ (S # {} => Sums(f, T, b))
  OBVIOUS
<1>2. a[S] = SumOver(f, S) /\ b[T] = SumOver(f, T)
  BY DEF SumOver
<1> HIDE DEF a, b
<1>3. a[S] = IF S = {} THEN 0 ELSE f[Pick(S)] + a[T]
  BY <1>1, SumsEntry
<1>4. S # {} => a[T] = b[T]
  BY <1>1, SumsUnique
<1> QED BY <1>2, <1>3, <1>4

\* The tables do exist.
LEMMA SumsExist ==
  ASSUME NEW f, NEW S, IsFiniteSet(S)
  PROVE  \E it : Sums(f, S, it)
<1> DEFINE B == {T \in SUBSET S : ~\E it : Sums(f, T, it)}
<1>1. SUFFICES ASSUME B # {} PROVE FALSE
  OBVIOUS
<1>2. PICK T \in B : \A U \in B : U \subseteq T => U = T
  <2>1. B \in SUBSET (SUBSET S)
    OBVIOUS
  <2> HIDE DEF B
  <2> QED BY <1>1, <2>1, MinimalSubset
<1>3. IsFiniteSet(T)
  BY FS_Subset
<1> DEFINE Entry(s) == IF s = {} THEN 0 ELSE f[Pick(s)] + SumOver(f, s \ {Pick(s)})
           it == [s \in SUBSET T |-> Entry(s)]
<1>4. ASSUME NEW s \in SUBSET T, s # T PROVE SumOver(f, s) = Entry(s)
  <2>1. IsFiniteSet(s)
    BY <1>3, FS_Subset
  <2>2. \E t : Sums(f, s, t)
    BY <1>2, <1>4
  <2>3. s # {} => \E t : Sums(f, s \ {Pick(s)}, t)
    <3>1. s \ {Pick(s)} \in SUBSET S /\ s \ {Pick(s)} \subseteq T /\ (s # {} => s \ {Pick(s)} # T)
      BY <1>2, <1>4, PickIn
    <3> QED BY <1>2, <3>1
  <2> QED BY <2>1, <2>2, <2>3, SumUnfolds
<1>5. ASSUME NEW s \in SUBSET T
      PROVE  Entry(s) = IF s = {} THEN 0 ELSE f[Pick(s)] + it[s \ {Pick(s)}]
  <2>1. CASE s = {}
    BY <2>1
  <2>2. CASE s # {}
    <3>1. s \ {Pick(s)} \in SUBSET T /\ s \ {Pick(s)} # T
      BY <2>2, PickIn
    <3>2. it[s \ {Pick(s)}] = Entry(s \ {Pick(s)})
      BY <3>1
    <3>3. SumOver(f, s \ {Pick(s)}) = Entry(s \ {Pick(s)})
      BY <3>1, <1>4
    <3> HIDE DEF it
    <3>4. Entry(s) = f[Pick(s)] + SumOver(f, s \ {Pick(s)})
      BY <2>2
    <3> QED BY <2>2, <3>2, <3>3, <3>4
  <2> QED BY <2>1, <2>2
<1>6. Sums(f, T, it)
  <2> HIDE DEF Entry
  <2>1. it = [s \in SUBSET T |-> Entry(s)]
    OBVIOUS
  <2>2. [s \in SUBSET T |-> Entry(s)]
          = [s \in SUBSET T |-> IF s = {} THEN 0 ELSE f[Pick(s)] + it[s \ {Pick(s)}]]
    <3> HIDE DEF it
    <3> QED BY <1>5
  <2> HIDE DEF it
  <2> QED BY <2>1, <2>2 DEF Sums
<1> QED BY <1>2, <1>6

\* The defining equation of the sum.
LEMMA SumStep ==
  ASSUME NEW f, NEW S, IsFiniteSet(S)
  PROVE  SumOver(f, S) = IF S = {} THEN 0 ELSE f[Pick(S)] + SumOver(f, S \ {Pick(S)})
<1>1. IsFiniteSet(S \ {Pick(S)})
  BY FS_Subset
<1> QED BY <1>1, SumsExist, SumUnfolds

\* A sum of integers is one.
LEMMA SumType ==
  ASSUME NEW f, NEW S, IsFiniteSet(S), \A x \in S : f[x] \in Int
  PROVE  SumOver(f, S) \in Int
<1> DEFINE B == {T \in SUBSET S : SumOver(f, T) \notin Int}
<1>1. SUFFICES ASSUME B # {} PROVE FALSE
  OBVIOUS
<1>2. PICK T \in B : \A U \in B : U \subseteq T => U = T
  <2>1. B \in SUBSET (SUBSET S)
    OBVIOUS
  <2> HIDE DEF B
  <2> QED BY <1>1, <2>1, MinimalSubset
<1>3. SumOver(f, T) = IF T = {} THEN 0 ELSE f[Pick(T)] + SumOver(f, T \ {Pick(T)})
  BY FS_Subset, SumStep
<1>4. T # {} => Pick(T) \in T /\ T \ {Pick(T)} \in SUBSET S /\ T \ {Pick(T)} # T
  BY PickIn
<1>5. T # {} => f[Pick(T)] \in Int /\ SumOver(f, T \ {Pick(T)}) \in Int
  BY <1>2, <1>4
<1> QED BY <1>3, <1>5

\* Whichever element is taken out first.
LEMMA SumTakesOut ==
  ASSUME NEW f, NEW S, IsFiniteSet(S), \A x \in S : f[x] \in Int
  PROVE  \A e \in S : SumOver(f, S) = f[e] + SumOver(f, S \ {e})
<1> DEFINE Good(T) == \A e \in T : SumOver(f, T) = f[e] + SumOver(f, T \ {e})
           B == {T \in SUBSET S : ~Good(T)}
<1>1. SUFFICES ASSUME B # {} PROVE FALSE
  OBVIOUS
<1>2. PICK T \in B : \A U \in B : U \subseteq T => U = T
  <2>1. B \in SUBSET (SUBSET S)
    OBVIOUS
  <2> HIDE DEF B
  <2> QED BY <1>1, <2>1, MinimalSubset
<1>3. PICK e \in T : SumOver(f, T) # f[e] + SumOver(f, T \ {e})
  BY <1>2
<1>4. \A U \in SUBSET T : U # T => Good(U)
  BY <1>2
<1> HIDE DEF Good
<1> DEFINE x == Pick(T)
           R == T \ {x, e}
<1>5. x \in T /\ T \subseteq S
  BY PickIn
<1>6. SumOver(f, T) = f[x] + SumOver(f, T \ {x})
  BY <1>5, FS_Subset, SumStep
<1> HIDE DEF x
<1>7. x # e
  BY <1>3, <1>6
<1>8. SumOver(f, T \ {x}) = f[e] + SumOver(f, R)
  <2>1. Good(T \ {x}) /\ (T \ {x}) \ {e} = R /\ e \in T \ {x}
    BY <1>4, <1>5, <1>7
  <2> QED BY <2>1 DEF Good
<1>9. SumOver(f, T \ {e}) = f[x] + SumOver(f, R)
  <2>1. Good(T \ {e}) /\ (T \ {e}) \ {x} = R /\ x \in T \ {e}
    BY <1>4, <1>5, <1>7
  <2> QED BY <2>1 DEF Good
<1>10. SumOver(f, R) \in Int /\ f[x] \in Int /\ f[e] \in Int
  BY <1>5, FS_Subset, SumType
<1> QED BY <1>3, <1>6, <1>8, <1>9, <1>10

\* The sum does not depend on how the elements are numbered.
LEMMA SumRenumbers ==
  ASSUME NEW S, IsFiniteSet(S), NEW f, NEW h, NEW g, NEW R, R = {h[i] : i \in S},
         \A i \in S : f[h[i]] \in Int /\ g[i] = f[h[i]],
         \A i, j \in S : h[i] = h[j] => i = j
  PROVE  SumOver(g, S) = SumOver(f, R)
<1> DEFINE Image(T) == {h[i] : i \in T}
           B == {T \in SUBSET S : SumOver(g, T) # SumOver(f, Image(T))}
<1>1. SUFFICES ASSUME B # {} PROVE FALSE
  OBVIOUS
<1>2. PICK T \in B : \A U \in B : U \subseteq T => U = T
  <2>1. B \in SUBSET (SUBSET S)
    OBVIOUS
  <2> HIDE DEF B
  <2> QED BY <1>1, <2>1, MinimalSubset
<1>3. SumOver(g, T) # SumOver(f, Image(T)) /\ T \subseteq S
  BY <1>2
<1>4. \A U \in SUBSET T : U # T => SumOver(g, U) = SumOver(f, Image(U))
  BY <1>2
<1>5. IsFiniteSet(T) /\ IsFiniteSet(Image(T))
  <2>1. [i \in T |-> h[i]] \in Surjection(T, Image(T))
    BY DEF Surjection
  <2> QED BY <1>3, <2>1, FS_Subset, FS_Surjection
<1>6. CASE T = {}
  BY <1>3, <1>5, <1>6, SumStep
<1>7. CASE T # {}
  <2>1. PICK e \in T : TRUE
    BY <1>7
  <2>2. Image(T) \ {h[e]} = Image(T \ {e})
    BY <1>3
  <2>3. SumOver(g, T) = g[e] + SumOver(g, T \ {e})
    BY <1>3, <1>5, SumTakesOut
  <2>4. SumOver(f, Image(T)) = f[h[e]] + SumOver(f, Image(T) \ {h[e]})
    <3>1. h[e] \in Image(T) /\ \A x \in Image(T) : f[x] \in Int
      BY <1>3
    <3> QED BY <1>5, <3>1, SumTakesOut
  <2>5. SumOver(g, T \ {e}) = SumOver(f, Image(T \ {e}))
    BY <1>4
  <2> QED BY <1>3, <2>2, <2>3, <2>4, <2>5
<1> QED BY <1>6, <1>7
------------------------------------------------------------------------------
(* The verdict is that of the window. *)

\* The cells of a ring are those of its window, each once.
LEMMA CellsOnce ==
  ASSUME NEW f \in 0 .. HistorySize, NEW n \in Slot
  PROVE  /\ \A j, k \in 1 .. f : Cell(f, n, j) = Cell(f, n, k) => j = k
         /\ {Cell(f, n, j) : j \in 1 .. f} = 0 .. f - 1
<1>0. f \in Nat /\ f <= HistorySize /\ HistorySize \in Nat /\ n \in Nat /\ n < HistorySize
  BY Sizes
<1>1. CASE f < HistorySize
  <2>1. \A j \in 1 .. f : Cell(f, n, j) = j - 1
    BY <1>1 DEF Cell
  <2>2. ASSUME NEW x \in 0 .. f - 1 PROVE \E j \in 1 .. f : Cell(f, n, j) = x
    <3>1. x + 1 \in 1 .. f /\ (x + 1) - 1 = x
      BY <1>0
    <3> QED BY <2>1, <3>1
  <2>3. \A j \in 1 .. f : j - 1 \in 0 .. f - 1
    BY <1>0
  <2> QED BY <2>1, <2>2, <2>3
<1>2. CASE ~(f < HistorySize)
  <2>0. f = HistorySize
    BY <1>0, <1>2
  <2>1. \A j \in 1 .. f : Cell(f, n, j) = IF n + j - 1 < f THEN n + j - 1 ELSE n + j - 1 - f
    BY <2>0 DEF Cell, Place
  <2>2. ASSUME NEW x \in 0 .. f - 1 PROVE \E j \in 1 .. f : Cell(f, n, j) = x
    <3>1. CASE x >= n
      <4>1. PICK j \in 1 .. f : j = x - n + 1
        BY <1>0, <3>1
      <4>2. n + j - 1 < f /\ n + j - 1 = x
        BY <1>0, <4>1
      <4> QED BY <2>1, <4>2
    <3>2. CASE ~(x >= n)
      <4>1. PICK j \in 1 .. f : j = x - n + 1 + f
        BY <1>0, <2>0, <3>2
      <4>2. ~(n + j - 1 < f) /\ n + j - 1 - f = x
        BY <1>0, <4>1
      <4> QED BY <2>1, <4>2
    <3> QED BY <3>1, <3>2
  <2>3. \A j \in 1 .. f : Cell(f, n, j) \in 0 .. f - 1
    BY <1>0, <2>0, <2>1
  <2>4. \A j, k \in 1 .. f : Cell(f, n, j) = Cell(f, n, k) => j = k
    BY <1>0, <2>0, <2>1
  <2> QED BY <2>2, <2>3, <2>4
<1> QED BY <1>1, <1>2

\* calculate_running_average adds up the cells from the first one on, wherever
\* the oldest sample is: the sum is that of the window.
LEMMA RingSum ==
  ASSUME NEW c \in [Slot -> Nat], NEW f \in 0 .. HistorySize, NEW n \in Slot
  PROVE  CellSum(c, f) = Window!SumOf(Ring(c, f, n))
<1> DEFINE w == Ring(c, f, n)
           h == [j \in 1 .. f |-> Cell(f, n, j)]
<1>1. w \in Seq(Nat) /\ \A j \in 1 .. f : w[j] = c[h[j]] /\ h[j] \in Slot
  BY RingSeq
<1>2. DOMAIN w = 1 .. f
  BY DEF Ring
<1>3. IsFiniteSet(1 .. f)
  BY FS_Interval, Sizes
<1>4. /\ \A j, k \in 1 .. f : h[j] = h[k] => j = k
      /\ 0 .. f - 1 = {h[j] : j \in 1 .. f}
  BY CellsOnce
<1>5. \A j \in 1 .. f : c[h[j]] \in Int /\ w[j] = c[h[j]]
  BY <1>1
<1> DEFINE D == 1 .. f
           E == 0 .. f - 1
<1>6. /\ IsFiniteSet(D) /\ E = {h[j] : j \in D}
      /\ \A j \in D : c[h[j]] \in Int /\ w[j] = c[h[j]]
      /\ \A j, k \in D : h[j] = h[k] => j = k
  BY <1>3, <1>4, <1>5
<1> HIDE DEF w, h, D, E
<1>7. SumOver(w, D) = SumOver(c, E)
  BY <1>6, SumRenumbers
<1> QED BY <1>2, <1>7, FoldsAreSums DEF w, D, E

\* The verdict on the cells of a ring is the one on its window.
LEMMA VerdictIsJudged ==
  ASSUME NEW c \in [Slot -> Nat], NEW f \in 0 .. HistorySize, NEW n \in Slot
  PROVE  Verdict(CellSum(c, f), f) = Window!Judge(Ring(c, f, n))
<1>1. CellSum(c, f) = Window!SumOf(Ring(c, f, n)) /\ Len(Ring(c, f, n)) = f
  BY RingSum, RingSeq
<1> QED BY <1>1 DEF Verdict, Window!Judge

\* Initially every window is empty.
LEMMA InitMaps == Init => Window!Init
<1> SUFFICES ASSUME Init PROVE Window!Init
  OBVIOUS
<1>1. ASSUME NEW i \in Id PROVE OldestFirst(i) = <<>>
  BY DEF Init, OldestFirst
<1> QED BY <1>1 DEF Init, Window!Init

\* A check is a step of RunningWindow.
LEMMA CheckMaps ==
  ASSUME IndInv, Check
  PROVE  Window!Next
<1> DEFINE window == [k \in Id |-> OldestFirst(k)]
<1>0. idOf[Head(todo)] \in Id /\ latest[Head(todo)] \in Temp
  BY DEF Check, IndInv, TypeOK
<1>1. PICK i \in Id, t \in Temp :
        /\ Feed(i, t)
        /\ verdict' = [verdict EXCEPT ![i] = Verdict(CellSum(cells'[i], fill'[i]), fill'[i])]
  BY <1>0 DEF Check
<1>2. t \in Nat
  BY MonitorAssumption
<1>3. Slid(i, t) /\ \A k \in Id : k # i => OldestFirst(k)' = OldestFirst(k)
  BY <1>1, <1>2, FeedSlides
<1>4. window' = [window EXCEPT ![i] = Window!LastOnes(Append(@, t))]
  BY <1>1, <1>3 DEF Slid
<1>5. Verdict(CellSum(cells'[i], fill'[i]), fill'[i]) = Window!Judge(window'[i])
  <2>1. cells'[i] \in [Slot -> Nat] /\ fill'[i] \in 0 .. HistorySize /\ next'[i] \in Slot
    BY <1>1, <1>2, FeedStep
  <2>2. window'[i] = Ring(cells'[i], fill'[i], next'[i])
    BY <1>1 DEF OldestFirst, Ring
  <2> QED BY <2>1, <2>2, VerdictIsJudged
<1>6. Window!Sample(i, t)
  BY <1>1, <1>4, <1>5 DEF Window!Sample
<1> QED BY <1>1, <1>6 DEF Window!Next

\* Every step is one of RunningWindow or leaves the windows alone.
LEMMA NextMaps == IndInv /\ [Next]_vars => [Window!Next]_(Window!windowVars)
<1> SUFFICES ASSUME IndInv, [Next]_vars PROVE [Window!Next]_(Window!windowVars)
  OBVIOUS
<1>1. CASE Check
  BY <1>1, CheckMaps
<1>2. CASE UNCHANGED ringVars
  BY <1>2 DEF ringVars, OldestFirst, Window!windowVars
<1>3. Check \/ UNCHANGED ringVars
  BY DEF Next, DataThread, ReadId, Push, Leave, Report, BeginPass, Skip, CheckInvalid,
         EndPass, vars
<1> QED BY <1>1, <1>2, <1>3

\* The monitor knows of each id its last HistorySize samples, and its verdict
\* is that of the mean of exactly these: update_temperature_history and
\* calculate_running_average together do what RunningWindow says, for every
\* number of cells and all thresholds.
THEOREM Refinement == Spec => WindowSpec
BY InitMaps, NextMaps, Invariance, PTL DEF Spec, WindowSpec, Window!Spec
------------------------------------------------------------------------------
(* Passes. *)

\* A pass over the table that has begun gets shorter with every step of the data
\* thread and is never made longer by a sensor that comes, goes or reports.
PassShortens ==
  tableMutex = "held" =>
    /\ todo' = todo \/ Len(todo') = Len(todo) - 1
    /\ DataThread => Len(todo') = Len(todo) - 1 \/ tableMutex' = "free"
    /\ tableMutex' = "free" => todo = <<>>

\* process_sensor_data ends: what is left to visit only shrinks, and the mutex
\* of the table is given back when nothing is left.
THEOREM PassesShorten == Spec => [][PassShortens]_vars
<1>1. IndInv /\ [Next]_vars => [PassShortens]_vars
  <2> SUFFICES ASSUME IndInv, Next, tableMutex = "held" PROVE PassShortens
    BY DEF PassShortens, vars
  <2>1. CASE Skip \/ Check \/ CheckInvalid
    <3>1. todo # <<>> /\ todo' = Tail(todo) /\ tableMutex' = tableMutex /\ todo \in Seq(Sensor)
      BY <2>1 DEF Skip, Check, CheckInvalid, IndInv, TypeOK
    <3>2. Len(todo') = Len(todo) - 1
      BY <3>1
    <3> QED BY <3>1, <3>2 DEF PassShortens
  <2>2. CASE EndPass
    BY <2>2 DEF EndPass, PassShortens
  <2>3. CASE ~DataThread
    BY <2>3 DEF Next, ReadId, Push, Leave, Report, PassShortens
  <2>4. ~BeginPass
    BY DEF BeginPass
  <2> QED BY <2>1, <2>2, <2>3, <2>4 DEF DataThread
<1> QED BY <1>1, Invariance, PTL DEF Spec
==============================================================================
