---------------------------- MODULE Outbox_proofs ----------------------------
(* What holds of the outbox for every number of rows, zones and workers.   *)
(* The argument: a worker inside a batch holds the cursor's lock, so it is *)
(* alone, and what it has read stays pending until it commits; so the      *)
(* commit marks exactly rows that had no effect yet.                       *)
EXTENDS Outbox, FiniteSetTheorems, TLAPS

JobsHold ==
  \A w \in batching :
    /\ lock = w
    /\ todo[w] \subseteq Pending
    /\ done[w] \subseteq Pending
    /\ failed[w] \subseteq Pending

OutboxInv == TypeOK /\ JobsHold /\ ExactlyOnce

LEMMA InitEstablishes == Init => OutboxInv
<1> SUFFICES ASSUME Init PROVE OutboxInv
  OBVIOUS
<1>1. 0 \in 0..N /\ 0 \in 0..MaxCrashes /\ 0 \in 0..MaxAttempts /\ 0 \in 0..LastZone + 1
  BY OutboxAssumption
<1>2. TypeOK
  BY <1>1 DEF Init, TypeOK
<1> QED
  BY <1>2 DEF OutboxInv, JobsHold, ExactlyOnce, Init

\* A writer's commit only adds to what is pending.
LEMMA WriterStep ==
  ASSUME OutboxInv, NEW r \in Rows, WriterCommits(r)
  PROVE  OutboxInv'
<1> USE DEF OutboxInv
<1>1. Pending \subseteq Pending'
  BY DEF WriterCommits, Pending, Spent
<1>2. JobsHold'
  BY <1>1 DEF WriterCommits, JobsHold, cursor, batch
<1> QED
  BY <1>2 DEF WriterCommits, TypeOK, ExactlyOnce, cursor, batch

LEMMA BackoffStep ==
  ASSUME OutboxInv, BackoffPasses
  PROVE  OutboxInv'
<1>1. Pending' = Pending
  BY DEF BackoffPasses, rows, Pending, Spent
<1> QED
  BY <1>1 DEF OutboxInv, BackoffPasses, TypeOK, JobsHold, ExactlyOnce, rows, batch

LEMMA BeginStep ==
  ASSUME OutboxInv, NEW w \in Workers, BeginBatch(w),
         \A v \in Workers : v \notin batching => todo[v] = {} /\ done[v] = {} /\ failed[v] = {}
  PROVE  OutboxInv'
<1> USE DEF OutboxInv
<1>1. batching = {}
  BY OutboxAssumption DEF BeginBatch, JobsHold, TypeOK
<1>2. Pending \in SUBSET Rows
  BY DEF Pending, TypeOK
<1>3. TypeOK'
  BY <1>2 DEF BeginBatch, TypeOK, rows
<1>4. JobsHold'
  BY <1>1 DEF BeginBatch, JobsHold
<1> QED
  BY <1>3, <1>4 DEF ExactlyOnce, BeginBatch, rows

LEMMA ScanStep ==
  ASSUME OutboxInv, NEW w \in Workers, ScanZone(w)
  PROVE  OutboxInv'
<1> USE DEF OutboxInv
<1> DEFINE found == {r \in Pending : ZoneOf[r] = zone[w]}
           read == Oldest(todo[w] \cup Oldest(found))
<1>1. todo' = [todo EXCEPT ![w] = read]
  BY DEF ScanZone
<1>2. read \subseteq Pending
  BY DEF ScanZone, Oldest, JobsHold
<1>3. read \in SUBSET Rows
  BY <1>2 DEF Pending, TypeOK
<1> HIDE DEF read
<1>4. zone' \in [Workers -> 0..LastZone + 1]
  BY OutboxAssumption DEF ScanZone, TypeOK
<1>5. TypeOK'
  BY <1>1, <1>3, <1>4 DEF ScanZone, TypeOK, rows, cursor
<1>6. Pending' = Pending
  BY DEF ScanZone, rows, Pending, Spent
<1>7. JobsHold'
  BY <1>1, <1>2, <1>6 DEF JobsHold, ScanZone, cursor, TypeOK
<1> QED
  BY <1>5, <1>7 DEF ExactlyOnce, ScanZone, rows

LEMMA DeliverStep ==
  ASSUME OutboxInv, NEW w \in Workers, NEW r \in Rows, DeliverRow(w, r)
  PROVE  OutboxInv'
<1> USE DEF OutboxInv
<1>1. TypeOK'
  BY DEF DeliverRow, TypeOK, rows, cursor
<1>2. Pending' = Pending
  BY DEF DeliverRow, rows, Pending, Spent
<1>3. r \in Pending
  BY DEF DeliverRow, Delivering, IsFirst, JobsHold
<1>4. JobsHold'
  BY <1>2, <1>3 DEF JobsHold, DeliverRow, cursor, TypeOK
<1> QED
  BY <1>1, <1>4 DEF ExactlyOnce, DeliverRow, rows

LEMMA FailStep ==
  ASSUME OutboxInv, NEW w \in Workers, NEW r \in Rows, RowFails(w, r)
  PROVE  OutboxInv'
<1> USE DEF OutboxInv
<1>1. TypeOK'
  BY ZenonT(60) DEF RowFails, TypeOK, rows, cursor
<1>2. Pending' = Pending
  BY DEF RowFails, rows, Pending, Spent
<1>3. r \in Pending
  BY DEF RowFails, Delivering, IsFirst, JobsHold
<1>4. JobsHold'
  BY <1>2, <1>3 DEF JobsHold, RowFails, cursor, TypeOK
<1> QED
  BY <1>1, <1>4 DEF ExactlyOnce, RowFails, rows

LEMMA EndLeavesNobody ==
  ASSUME JobsHold, NEW w \in batching, EndBatch(w)
  PROVE  batching' = {}
  BY DEF JobsHold, EndBatch

\* The commit: what the batch delivered was unpublished until now, and the
\* effect and the mark become visible together.
LEMMA FinishStep ==
  ASSUME OutboxInv, NEW w \in Workers, FinishBatch(w)
  PROVE  OutboxInv'
<1> USE DEF OutboxInv
<1>1. w \in batching /\ EndBatch(w)
  BY DEF FinishBatch, Delivering
<1>2. done[w] \subseteq committed \ published
  BY <1>1 DEF JobsHold, Pending
<1>3. \A r \in failed[w] : attempts[r] < MaxAttempts
  BY <1>1, OutboxAssumption DEF JobsHold, Pending, Spent, TypeOK
<1>4. JobsHold'
  BY <1>1, EndLeavesNobody DEF JobsHold
<1>5. ExactlyOnce'
  BY <1>2 DEF ExactlyOnce, FinishBatch, TypeOK
<1>6. attempts' \in [Rows -> 0..MaxAttempts]
  BY <1>3, OutboxAssumption DEF FinishBatch, TypeOK
<1>7. reached' \in 0..N
  BY OutboxAssumption DEF FinishBatch, TypeOK, Rows
<1>8. 0 \in 0..LastZone + 1
  BY OutboxAssumption
<1>9. TypeOK'
  BY <1>1, <1>6, <1>7, <1>8 DEF FinishBatch, EndBatch, TypeOK
<1> QED
  BY <1>4, <1>5, <1>9

LEMMA CrashStep ==
  ASSUME OutboxInv, NEW w \in Workers, Crash(w)
  PROVE  OutboxInv'
<1> USE DEF OutboxInv
<1>1. w \in batching /\ EndBatch(w)
  BY DEF Crash
<1>2. JobsHold'
  BY <1>1, EndLeavesNobody DEF JobsHold
<1>3. 0 \in 0..LastZone + 1 /\ crashes' \in 0..MaxCrashes
  BY OutboxAssumption DEF Crash, TypeOK
<1>4. TypeOK'
  BY <1>1, <1>3 DEF Crash, EndBatch, TypeOK, rows
<1> QED
  BY <1>2, <1>4 DEF ExactlyOnce, Crash, rows

\* Outside a batch a worker holds nothing.
IdleIsBlank ==
  \A v \in Workers : v \notin batching => todo[v] = {} /\ done[v] = {} /\ failed[v] = {}

LEMMA IdleStep == TypeOK /\ IdleIsBlank /\ [Next]_vars => IdleIsBlank'
<1> SUFFICES ASSUME TypeOK, IdleIsBlank, [Next]_vars PROVE IdleIsBlank'
  OBVIOUS
<1>1. CASE (\E r \in Rows : WriterCommits(r)) \/ BackoffPasses \/ UNCHANGED vars
  BY <1>1 DEF WriterCommits, BackoffPasses, vars, batch, IdleIsBlank
<1>2. ASSUME NEW w \in Workers, BeginBatch(w) \/ ScanZone(w) PROVE IdleIsBlank'
  BY <1>2 DEF BeginBatch, ScanZone, IdleIsBlank, TypeOK
<1>3. ASSUME NEW w \in Workers, NEW r \in Rows, DeliverRow(w, r) \/ RowFails(w, r)
      PROVE  IdleIsBlank'
  BY <1>3 DEF DeliverRow, RowFails, Delivering, IdleIsBlank, TypeOK
<1>4. ASSUME NEW w \in Workers, FinishBatch(w) \/ Crash(w) PROVE IdleIsBlank'
  BY <1>4 DEF FinishBatch, Crash, EndBatch, IdleIsBlank, TypeOK
<1> QED
  BY <1>1, <1>2, <1>3, <1>4 DEF Next, BatchStep

LEMMA StepKeeps == OutboxInv /\ IdleIsBlank /\ [Next]_vars => OutboxInv'
<1> SUFFICES ASSUME OutboxInv, IdleIsBlank, [Next]_vars PROVE OutboxInv'
  OBVIOUS
<1>1. CASE \E r \in Rows : WriterCommits(r)
  BY <1>1, WriterStep
<1>2. CASE BackoffPasses
  BY <1>2, BackoffStep
<1>3. CASE \E w \in Workers : BeginBatch(w)
  BY <1>3, BeginStep DEF IdleIsBlank
<1>4. CASE \E w \in Workers : ScanZone(w) \/ \E r \in Rows : DeliverRow(w, r) \/ RowFails(w, r)
  BY <1>4, ScanStep, DeliverStep, FailStep
<1>5. CASE \E w \in Workers : FinishBatch(w) \/ Crash(w)
  BY <1>5, FinishStep, CrashStep
<1>6. CASE UNCHANGED vars
  BY <1>6 DEF vars, OutboxInv, TypeOK, JobsHold, ExactlyOnce, Pending, Spent
<1> QED
  BY <1>1, <1>2, <1>3, <1>4, <1>5, <1>6 DEF Next, BatchStep

LEMMA Inductive == Spec => [](OutboxInv /\ IdleIsBlank)
<1>1. Init => IdleIsBlank
  BY DEF Init, IdleIsBlank
<1>2. OutboxInv => TypeOK
  BY DEF OutboxInv
<1> QED
  BY <1>1, <1>2, InitEstablishes, StepKeeps, IdleStep, PTL DEF Spec

\* Type correctness of outbox.py's rows, cursor and batches.
THEOREM TypeCorrect == Spec => []TypeOK
<1>1. OutboxInv => TypeOK
  BY DEF OutboxInv
<1> QED
  BY Inductive, <1>1, PTL

\* A row's handlers have taken effect exactly once if outbox.py has published
\* the row and never otherwise, for any number of workers and crashes.
THEOREM DeliveredExactlyOnce == Spec => []ExactlyOnce
<1>1. OutboxInv => ExactlyOnce
  BY DEF OutboxInv
<1> QED
  BY Inductive, <1>1, PTL
-----------------------------------------------------------------------------
(* Order.  A batch reads zone by zone and keeps the oldest BatchSize rows  *)
(* of what it has read, so a row it drops is behind BatchSize older ones;  *)
(* from the read on it takes the rows in their order and stops at one that *)
(* is to be tried again.                                                   *)

\* So many rows of S come before r that a batch is full without it.
Filled(S, r) == Cardinality({x \in S : x < r}) >= BatchSize

LEMMA Least ==
  ASSUME NEW S \in SUBSET Nat, S # {}
  PROVE  \E m \in S : \A n \in S : m <= n
<1> DEFINE Below == {0..n : n \in S}
<1>1. \A n \in S : 0..n \in FiniteSubsetsOf(Nat)
  <2> TAKE n \in S
  <2>1. n \in Int /\ 0 \in Int
    OBVIOUS
  <2>2. IsFiniteSet(0..n)
    BY ONLY <2>1, FS_Interval
  <2> QED
    BY <2>2 DEF FiniteSubsetsOf
<1>2. Below \subseteq FiniteSubsetsOf(Nat) /\ Below # {}
  BY <1>1
<1>3. PICK B \in Below : \A C \in Below : ~ (<<C, B>> \in StrictSubsetOrdering(Nat))
  <2> HIDE DEF Below
  <2> QED
    BY <1>2, FS_StrictSubsetOrderingWellFounded, WFMin
<1>4. PICK m \in S : B = 0..m
  OBVIOUS
<1>5. ASSUME NEW n \in S, n < m PROVE FALSE
  <2>1. 0..n \in Below /\ 0..n \subseteq 0..m /\ m \in 0..m /\ m \notin 0..n
    BY <1>5
  <2>2. <<0..n, 0..m>> \in StrictSubsetOrdering(Nat)
    BY <2>1 DEF StrictSubsetOrdering
  <2> QED
    BY <2>1, <2>2, <1>3, <1>4
<1> QED
  BY <1>5

LEMMA RowsAreNumbers == Rows \subseteq Nat /\ Rows \subseteq Int
  BY OutboxAssumption DEF Rows

LEMMA RowsFinite ==
  ASSUME NEW S \in SUBSET Rows
  PROVE  IsFiniteSet(S) /\ Cardinality(S) \in Nat
<1>1. 1 \in Int /\ N \in Int
  BY OutboxAssumption
<1>2. IsFiniteSet(Rows)
  BY <1>1, FS_Interval DEF Rows
<1>3. IsFiniteSet(S)
  BY <1>2, FS_Subset
<1> QED
  BY <1>3, FS_CardinalityType

LEMMA FewerRows ==
  ASSUME NEW S \in SUBSET Rows, NEW T \in SUBSET S
  PROVE  Cardinality(T) <= Cardinality(S) /\ Cardinality(S) \in Nat /\ Cardinality(T) \in Nat
<1>1. T \in SUBSET Rows
  OBVIOUS
<1> QED
  BY <1>1, RowsFinite, FS_Subset

\* What has been read of the older rows is never forgotten for newer ones.
LEMMA MoreFill ==
  ASSUME NEW S \in SUBSET Rows, NEW T \in SUBSET S, NEW r \in Rows, NEW q \in Rows,
         r <= q, Filled(T, r)
  PROVE  Filled(S, q)
<1>1. {x \in T : x < r} \subseteq {x \in S : x < q}
  <2> SUFFICES ASSUME NEW x \in T, x < r PROVE x < q
    OBVIOUS
  <2>1. x \in Int /\ r \in Int /\ q \in Int
    BY RowsAreNumbers
  <2> QED
    BY <2>1
<1>2. {x \in S : x < q} \in SUBSET Rows
  OBVIOUS
<1>3. Cardinality({x \in T : x < r}) <= Cardinality({x \in S : x < q})
        /\ Cardinality({x \in T : x < r}) \in Nat /\ Cardinality({x \in S : x < q}) \in Nat
  BY <1>1, <1>2, FewerRows
<1> QED
  BY <1>3, OutboxAssumption DEF Filled

\* outbox._pending's cut keeps a row or fills the batch with older ones.
LEMMA KeptOrFilled ==
  ASSUME NEW S \in SUBSET Rows, NEW r \in Rows, r \in S \/ Filled(S, r)
  PROVE  r \in Oldest(S) \/ Filled(Oldest(S), r)
<1> DEFINE Cut == {x \in S \ Oldest(S) : x <= r}
<1>1. CASE Cut = {}
  <2>1. {x \in S : x < r} = {x \in Oldest(S) : x < r}
    <3>1. \A x \in S : x < r => x \in Oldest(S)
      BY <1>1, RowsAreNumbers
    <3>2. Oldest(S) \subseteq S
      BY DEF Oldest
    <3> QED
      BY <3>1, <3>2
  <2>2. Filled(S, r) => Filled(Oldest(S), r)
    BY <2>1 DEF Filled
  <2>3. r \in S => r \in Oldest(S)
    BY <1>1, RowsAreNumbers
  <2> QED
    BY <2>2, <2>3
<1>2. CASE Cut # {}
  <2>1. Cut \in SUBSET Nat
    BY RowsAreNumbers
  <2>2. PICK m \in Cut : \A n \in Cut : m <= n
    <3> HIDE DEF Cut
    <3> QED
      BY <1>2, <2>1, Least
  <2>3. m \in S /\ m \notin Oldest(S) /\ m <= r /\ m \in Rows
    OBVIOUS
  <2>4. {x \in S : x < m} = {x \in Oldest(S) : x < m}
    <3>1. \A x \in S : x < m => x \in Oldest(S)
      BY <2>2, <2>3, RowsAreNumbers
    <3>2. Oldest(S) \subseteq S
      BY DEF Oldest
    <3> QED
      BY <3>1, <3>2
  <2>5. {x \in S : x < m} \in SUBSET Rows
    OBVIOUS
  <2>6. Cardinality({x \in S : x < m}) >= BatchSize
    BY <2>3, <2>5, RowsFinite, OutboxAssumption DEF Oldest
  <2>7. Filled(Oldest(S), m)
    BY <2>4, <2>6 DEF Filled
  <2>8. Oldest(S) \in SUBSET Rows
    BY DEF Oldest
  <2> QED
    BY <2>3, <2>7, <2>8, MoreFill
<1> QED
  BY <1>1, <1>2

\* While zones are read: every row that was pending at the start, in a zone already
\* read, is in hand or behind a full batch.
ReadSoFar(w) ==
  /\ done[w] = {} /\ failed[w] = {}
  /\ \A r \in front[w] : ZoneOf[r] < zone[w] => r \in todo[w] \/ Filled(todo[w], r)

\* While rows are delivered: what is older than a row in hand is in hand, delivered or
\* given up, and what is delivered is older than what is left.
GivenUp(w) == {r \in failed[w] : attempts[r] + 1 >= MaxAttempts}
NothingPassed(w) ==
  /\ \A r \in front[w], s \in todo[w] \cup done[w] :
       r < s => r \in todo[w] \cup done[w] \cup GivenUp(w)
  /\ \A s \in done[w], r \in todo[w] : s < r

OrderInv ==
  \A w \in Workers :
    /\ w \notin batching => zone[w] = 0
    /\ w \in batching => /\ front[w] \subseteq Pending
                         /\ zone[w] <= LastZone => ReadSoFar(w)
                         /\ zone[w] > LastZone => NothingPassed(w)

BatchInv == OutboxInv /\ IdleIsBlank /\ OrderInv

LEMMA OrderBegin ==
  ASSUME BatchInv, NEW w \in Workers, BeginBatch(w)
  PROVE  OrderInv'
<1> USE DEF BatchInv, OutboxInv
<1>1. batching = {} /\ batching' = {w}
  BY OutboxAssumption DEF BeginBatch, JobsHold, TypeOK
<1>2. Pending' = Pending /\ front'[w] = Pending
  BY DEF BeginBatch, rows, Pending, Spent, TypeOK
<1>3. zone'[w] = 0 /\ done'[w] = {} /\ failed'[w] = {} /\ 0 <= LastZone /\ ~ 0 > LastZone
  BY <1>1, OutboxAssumption DEF BeginBatch, OrderInv, IdleIsBlank
<1>4. \A r \in front'[w] : ~ ZoneOf[r] < zone'[w]
  BY <1>2, <1>3, OutboxAssumption DEF Pending, TypeOK, Zones
<1>5. \A v \in Workers : v # w => zone'[v] = 0 /\ v \notin batching'
  BY <1>1 DEF BeginBatch, OrderInv
<1> QED
  BY <1>1, <1>2, <1>3, <1>4, <1>5 DEF OrderInv, ReadSoFar

LEMMA OrderScan ==
  ASSUME BatchInv, NEW w \in Workers, ScanZone(w)
  PROVE  OrderInv'
<1> USE DEF BatchInv, OutboxInv
<1> DEFINE found == {r \in Pending : ZoneOf[r] = zone[w]}
           merged == todo[w] \cup Oldest(found)
<1>1. w \in batching /\ lock = w /\ zone[w] \in 0..LastZone /\ zone'[w] = zone[w] + 1
  BY OutboxAssumption DEF ScanZone, JobsHold, TypeOK
<1>2. todo'[w] = Oldest(merged) /\ done'[w] = {} /\ failed'[w] = {} /\ front'[w] = front[w]
  BY <1>1, OutboxAssumption DEF ScanZone, TypeOK, OrderInv, ReadSoFar
<1>3. found \in SUBSET Rows /\ Oldest(found) \in SUBSET Rows /\ merged \in SUBSET Rows
        /\ front[w] \in SUBSET Rows /\ Oldest(merged) \subseteq merged
  BY DEF Pending, TypeOK, Oldest
<1>4. Pending' = Pending
  BY DEF ScanZone, rows, Pending, Spent
<1>5. ASSUME NEW r \in front[w], ZoneOf[r] < zone'[w]
      PROVE  r \in merged \/ Filled(merged, r)
  <2>1. r \in Rows /\ ZoneOf[r] \in Int
    BY <1>3, OutboxAssumption DEF Zones
  <2>2. CASE ZoneOf[r] < zone[w]
    <3>1. r \in todo[w] \/ Filled(todo[w], r)
      BY <2>2, <1>1, OutboxAssumption DEF OrderInv, ReadSoFar
    <3>2. r <= r
      BY <2>1, RowsAreNumbers
    <3> QED
      BY <3>1, <3>2, <1>3, <2>1, MoreFill
  <2>3. CASE ZoneOf[r] = zone[w]
    <3>1. r \in found
      BY <2>3, <1>1 DEF OrderInv
    <3>2. r \in Oldest(found) \/ Filled(Oldest(found), r)
      BY <3>1, <2>1, <1>3, KeptOrFilled
    <3>3. r <= r
      BY <2>1, RowsAreNumbers
    <3> QED
      BY <3>2, <3>3, <1>3, <2>1, MoreFill
  <2> QED
    BY <2>1, <2>2, <2>3, <1>1, <1>5
<1> HIDE DEF merged
<1>6. ASSUME NEW r \in front[w], ZoneOf[r] < zone'[w]
      PROVE  r \in todo'[w] \/ Filled(todo'[w], r)
  BY <1>2, <1>3, <1>5, <1>6, KeptOrFilled
<1>7. ReadSoFar(w)'
  BY <1>2, <1>6 DEF ReadSoFar
<1>8. zone'[w] > LastZone => NothingPassed(w)'
  <2> SUFFICES ASSUME zone'[w] > LastZone, NEW r \in front[w], NEW s \in todo'[w], r < s
               PROVE  r \in todo'[w]
    BY <1>2 DEF NothingPassed
  <2>1. r \in Rows /\ s \in Rows /\ s \in Oldest(merged)
    BY <1>2, <1>3
  <2>2. ZoneOf[r] < zone'[w]
    BY <1>1, <2>1, OutboxAssumption DEF Zones
  <2>3. CASE Filled(Oldest(merged), r)
    <3>0. r \in Int /\ s \in Int
      BY <2>1, RowsAreNumbers
    <3>1. r <= s
      BY <3>0
    <3>2. Filled(merged, s)
      BY <3>1, <2>1, <2>3, <1>3, MoreFill
    <3>3. Cardinality({x \in merged : x < s}) < BatchSize
      BY <2>1 DEF Oldest
    <3>4. Cardinality({x \in merged : x < s}) \in Nat
      BY <1>3, RowsFinite
    <3> QED
      BY <3>2, <3>3, <3>4, OutboxAssumption DEF Filled
  <2> QED
    BY <1>2, <1>6, <2>2, <2>3
<1>9. \A v \in Workers \ {w} : v \notin batching' /\ zone'[v] = 0
  BY <1>1 DEF ScanZone, OrderInv, JobsHold
<1> QED
  BY <1>1, <1>2, <1>4, <1>7, <1>8, <1>9 DEF OrderInv, ScanZone

\* One worker is in a batch, and its rows and what is pending stay as they are.
LEMMA Alone ==
  ASSUME BatchInv, NEW w \in batching
  PROVE  batching = {w}
  BY DEF BatchInv, OutboxInv, JobsHold

LEMMA OrderDeliver ==
  ASSUME BatchInv, NEW w \in Workers, NEW r \in Rows, DeliverRow(w, r)
  PROVE  OrderInv'
<1> USE DEF BatchInv, OutboxInv
<1>1. batching = {w} /\ batching' = {w} /\ zone' = zone /\ zone[w] > LastZone
  BY Alone DEF DeliverRow, Delivering
<1>2. Pending' = Pending /\ front' = front /\ GivenUp(w)' = GivenUp(w)
  BY DEF DeliverRow, rows, Pending, Spent, GivenUp
<1>3. todo'[w] = todo[w] \ {r} /\ done'[w] = done[w] \cup {r} /\ r \in todo[w]
        /\ \A s \in todo[w] : r <= s
  BY DEF DeliverRow, TypeOK, IsFirst
<1>4. todo[w] \subseteq Int
  BY RowsAreNumbers DEF TypeOK
<1>5. NothingPassed(w)
  BY <1>1 DEF OrderInv
<1>6. NothingPassed(w)'
  BY <1>2, <1>3, <1>4, <1>5 DEF NothingPassed
<1>7. ~ zone[w] <= LastZone
  BY <1>1, OutboxAssumption DEF TypeOK
<1> QED
  BY <1>1, <1>2, <1>6, <1>7 DEF OrderInv

LEMMA OrderFail ==
  ASSUME BatchInv, NEW w \in Workers, NEW r \in Rows, RowFails(w, r)
  PROVE  OrderInv'
<1> USE DEF BatchInv, OutboxInv
<1>1. batching = {w} /\ batching' = {w} /\ zone' = zone /\ zone[w] > LastZone
  BY Alone DEF RowFails, Delivering
<1>2. Pending' = Pending /\ front' = front /\ attempts' = attempts /\ done' = done
  BY DEF RowFails, rows, Pending, Spent
<1>3. NothingPassed(w) /\ failed'[w] = failed[w] \cup {r} /\ r \in todo[w]
  BY <1>1 DEF RowFails, OrderInv, TypeOK, IsFirst
<1>4. GivenUp(w) \subseteq GivenUp(w)'
  BY <1>2, <1>3 DEF GivenUp
<1>5. ASSUME todo' = [todo EXCEPT ![w] = {}]
      PROVE  NothingPassed(w)'
  <2>1. todo'[w] = {}
    BY <1>5 DEF TypeOK
  <2>2. ASSUME NEW q \in front[w], NEW s \in done[w], q < s PROVE q \notin todo[w]
    <3>1. q \in Int /\ s \in Int
      BY RowsAreNumbers DEF TypeOK
    <3> QED
      BY <2>2, <3>1, <1>3 DEF NothingPassed
  <2> QED
    BY <2>1, <2>2, <1>2, <1>3, <1>4 DEF NothingPassed
<1>6. ASSUME attempts[r] + 1 >= MaxAttempts, todo' = [todo EXCEPT ![w] = @ \ {r}]
      PROVE  NothingPassed(w)'
  <2>1. todo'[w] = todo[w] \ {r} /\ r \in GivenUp(w)'
    BY <1>2, <1>3, <1>6 DEF GivenUp, TypeOK
  <2> QED
    BY <2>1, <1>2, <1>3, <1>4 DEF NothingPassed
<1>7. NothingPassed(w)'
  BY <1>5, <1>6 DEF RowFails
<1>8. ~ zone[w] <= LastZone
  BY <1>1, OutboxAssumption DEF TypeOK
<1> QED
  BY <1>1, <1>2, <1>7, <1>8 DEF OrderInv

LEMMA OrderEnd ==
  ASSUME BatchInv, NEW w \in Workers, FinishBatch(w) \/ Crash(w)
  PROVE  OrderInv'
<1> USE DEF BatchInv, OutboxInv
<1>1. w \in batching /\ EndBatch(w)
  BY DEF FinishBatch, Crash, Delivering
<1>2. batching' = {} /\ \A v \in Workers : zone'[v] = 0
  BY <1>1, Alone DEF EndBatch, OrderInv, TypeOK
<1> QED
  BY <1>2 DEF OrderInv

LEMMA OrderOutside ==
  ASSUME BatchInv, (\E r \in Rows : WriterCommits(r)) \/ BackoffPasses \/ UNCHANGED vars
  PROVE  OrderInv'
<1>1. UNCHANGED batch /\ Pending \subseteq Pending' /\ UNCHANGED attempts
  BY DEF WriterCommits, BackoffPasses, vars, rows, batch, Pending, Spent
<1> QED
  BY <1>1 DEF BatchInv, OrderInv, ReadSoFar, NothingPassed, GivenUp, batch

LEMMA OrderStep == BatchInv /\ [Next]_vars => OrderInv'
<1> SUFFICES ASSUME BatchInv, [Next]_vars PROVE OrderInv'
  OBVIOUS
<1>1. CASE (\E r \in Rows : WriterCommits(r)) \/ BackoffPasses \/ UNCHANGED vars
  BY <1>1, OrderOutside
<1>2. ASSUME NEW w \in Workers, BatchStep(w) \/ Crash(w) PROVE OrderInv'
  BY <1>2, OrderBegin, OrderScan, OrderDeliver, OrderFail, OrderEnd DEF BatchStep
<1> QED
  BY <1>1, <1>2 DEF Next

LEMMA BatchInvariant == Spec => []BatchInv
<1>1. Init => OrderInv
  BY DEF Init, OrderInv
<1>2. BatchInv /\ [Next]_vars => BatchInv'
  BY OrderStep, StepKeeps, IdleStep DEF BatchInv, OutboxInv
<1>3. Init => IdleIsBlank
  BY DEF Init, IdleIsBlank
<1> QED
  BY <1>1, <1>2, <1>3, InitEstablishes, PTL DEF Spec, BatchInv

\* Only the commit of a batch publishes, and it publishes what the batch delivered.
LEMMA PublishedByFinish ==
  ASSUME BatchInv, [Next]_vars, NEW s \in published' \ published
  PROVE  \E w \in Workers : FinishBatch(w)
  BY DEF Next, WriterCommits, BackoffPasses, BatchStep, BeginBatch, ScanZone, DeliverRow,
         RowFails, Crash, vars, rows

\* outbox.deliver_batch keeps the order of (created, id): whatever a batch publishes, no row
\* that was waiting when it began is left behind, for any zones, batch size and failures.
THEOREM InOrder == Spec => DeliveredInOrder
<1>1. BatchInv /\ [Next]_vars =>
        \A s \in published' \ published : \A w \in batching :
          s \in done[w]
            => \A r \in front[w] : r < s => r \in published' \/ attempts'[r] >= MaxAttempts
  <2> SUFFICES ASSUME BatchInv, [Next]_vars, NEW s \in published' \ published,
                      NEW w \in batching, s \in done[w], NEW r \in front[w], r < s
               PROVE  r \in published' \/ attempts'[r] >= MaxAttempts
    OBVIOUS
  <2>1. PICK v \in Workers : FinishBatch(v)
    BY PublishedByFinish
  <2>2. v = w /\ w \in Workers
    BY <2>1, Alone DEF FinishBatch, Delivering
  <2>3. NothingPassed(w) /\ todo[w] = {}
    BY <2>1, <2>2 DEF BatchInv, OrderInv, FinishBatch, Delivering
  <2>4. r \in done[w] \/ r \in GivenUp(w)
    BY <2>3 DEF NothingPassed
  <2>5. r \in Rows
    BY <2>2 DEF BatchInv, OutboxInv, TypeOK
  <2>6. r \in failed[w] => attempts'[r] = attempts[r] + 1
    BY <2>1, <2>2, <2>5 DEF FinishBatch
  <2> QED
    BY <2>1, <2>2, <2>4, <2>6 DEF FinishBatch, GivenUp
<1> QED
  BY <1>1, BatchInvariant, PTL DEF Spec, DeliveredInOrder
=============================================================================
