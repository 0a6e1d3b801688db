-------------------------------- MODULE Outbox --------------------------------
(***************************************************************************)
(* The one ordered cursor over outbox_event: apps/shared/outbox.py.        *)
(*                                                                         *)
(* A row is written by the transaction of the write it records and         *)
(* delivered by deliver_batch, which beat starts on any worker every few   *)
(* seconds.  A batch is one transaction: it takes the cursor row's lock or *)
(* gives up, reads each zone in turn, runs the handlers row by row inside  *)
(* savepoints, marks what was delivered and commits.  Nothing it does      *)
(* shows before the commit, and a worker that dies takes all of it along,  *)
(* the counted attempts included.  Here a job is what such a transaction   *)
(* holds; the other variables are what the database holds.                 *)
(*                                                                         *)
(* Rows are numbered in (created, id) order.  Writers commit in any order, *)
(* so a row may appear behind rows already delivered, or between two of a  *)
(* batch's own reads.                                                      *)
(***************************************************************************)
EXTENDS Integers, FiniteSets

CONSTANTS N,            \* rows 1..N, in (created, id) order
          LastZone,     \* zone 0 is the library, 1..LastZone the tenants
          ZoneOf,       \* the zone each row belongs to
          Sound,        \* rows whose handlers never raise
          Broken,       \* rows whose handlers always raise
          Workers,
          None,
          BatchSize,    \* settings.OUTBOX_BATCH_SIZE
          MaxAttempts,  \* settings.OUTBOX_MAX_ATTEMPTS
          MaxCrashes    \* bound: how often a worker dies inside a batch

Rows == 1..N
Zones == 0..LastZone

ASSUME OutboxAssumption ==
  /\ N \in Nat /\ LastZone \in Nat
  /\ ZoneOf \in [Rows -> Zones]
  /\ Sound \subseteq Rows /\ Broken \subseteq Rows \ Sound
  /\ None \notin Workers
  /\ BatchSize \in Nat \ {0} /\ MaxAttempts \in Nat \ {0} /\ MaxCrashes \in Nat

VARIABLES committed,  \* the rows whose writer has committed
          published,  \* the rows with published_at set
          attempts,   \* attempts of each row
          applied,    \* how often each row's handlers took effect for good
          backingOff, \* the cursor's retry_not_before lies ahead
          reached,    \* the cursor's last_created and last_id
          lock,       \* the worker holding the cursor row, or None
          batching,   \* the workers inside a batch, and of each:
          zone,       \* the zone _pending reads next
          todo,       \* the rows read and not yet tried
          done,       \* delivered
          failed,     \* failed in this batch
          waits,      \* the batch stopped at a row to be tried again
          front,      \* history: what was pending when the batch began
          crashes

rows == <<committed, published, attempts, applied>>
cursor == <<backingOff, reached, lock>>
batch == <<batching, zone, todo, done, failed, waits, front>>
vars == <<committed, published, attempts, applied, backingOff, reached, lock,
          batching, zone, todo, done, failed, waits, front, crashes>>

Spent(r) == attempts[r] >= MaxAttempts
PendingPastCursor == {r \in committed \ published : ~Spent(r) /\ r > reached}   \* mutant
Pending == {r \in committed \ published : ~Spent(r)}
IsFirst(r, S) == r \in S /\ \A s \in S : r <= s
Oldest(S) == {r \in S : Cardinality({s \in S : s < r}) < BatchSize}
Delivering(w) == w \in batching /\ zone[w] > LastZone

-----------------------------------------------------------------------------
Init ==
  /\ committed = {} /\ published = {}
  /\ attempts = [r \in Rows |-> 0] /\ applied = [r \in Rows |-> 0]
  /\ backingOff = FALSE /\ reached = 0 /\ lock = None
  /\ batching = {}
  /\ zone = [w \in Workers |-> 0]
  /\ todo = [w \in Workers |-> {}] /\ done = [w \in Workers |-> {}]
  /\ failed = [w \in Workers |-> {}] /\ waits = [w \in Workers |-> FALSE]
  /\ front = [w \in Workers |-> {}]
  /\ crashes = 0

\* shared/audit.record in the writer's own transaction
WriterCommits(r) ==
  /\ r \notin committed
  /\ committed' = committed \cup {r}
  /\ UNCHANGED <<published, attempts, applied, cursor, batch, crashes>>

BackoffPasses ==
  /\ backingOff
  /\ backingOff' = FALSE
  /\ UNCHANGED <<rows, reached, lock, batch, crashes>>

\* A transaction ends, committed or not, and leaves nothing of its own.
EndBatch(w) ==
  /\ lock' = None
  /\ batching' = batching \ {w}
  /\ zone' = [zone EXCEPT ![w] = 0]
  /\ todo' = [todo EXCEPT ![w] = {}]
  /\ done' = [done EXCEPT ![w] = {}]
  /\ failed' = [failed EXCEPT ![w] = {}]
  /\ waits' = [waits EXCEPT ![w] = FALSE]
  /\ front' = [front EXCEPT ![w] = {}]

\* mutant: SELECT ... FOR UPDATE is missing
BeginUnlocked(w) ==
  /\ w \notin batching /\ ~backingOff
  /\ lock' = w
  /\ batching' = batching \cup {w}
  /\ front' = [front EXCEPT ![w] = Pending]
  /\ UNCHANGED <<rows, backingOff, reached, zone, todo, done, failed, waits, crashes>>

\* _locked_cursor and the retry clock; a batch that finds the cursor locked or
\* the backoff running returns at once and changes nothing.
BeginBatch(w) ==
  /\ lock = None /\ ~backingOff
  /\ lock' = w
  /\ batching' = batching \cup {w}
  /\ front' = [front EXCEPT ![w] = Pending]
  /\ UNCHANGED <<rows, backingOff, reached, zone, todo, done, failed, waits, crashes>>

\* One turn of _pending's loop: each zone's first rows are read at its own
\* moment (READ COMMITTED).  The merge keeps the first rows of the whole; to
\* keep them zone by zone comes to the same.
ScanZone(w) ==
  /\ w \in batching /\ zone[w] <= LastZone
  /\ LET inZone == {r \in Pending : ZoneOf[r] = zone[w]}
     IN  todo' = [todo EXCEPT ![w] = Oldest(@ \cup Oldest(inZone))]
  /\ zone' = [zone EXCEPT ![w] = @ + 1]
  /\ UNCHANGED <<rows, cursor, batching, done, failed, waits, front, crashes>>

\* The head of the batch, and its handlers ran.
DeliverRow(w, r) ==
  /\ Delivering(w) /\ IsFirst(r, todo[w])
  /\ r \notin Broken
  /\ todo' = [todo EXCEPT ![w] = @ \ {r}]
  /\ done' = [done EXCEPT ![w] = @ \cup {r}]
  /\ UNCHANGED <<rows, cursor, batching, zone, failed, waits, front, crashes>>

\* mutant: the loop goes on behind a row that is to be tried again
RowFailsAndIsPassed(w, r) ==
  /\ Delivering(w) /\ IsFirst(r, todo[w])
  /\ r \notin Sound
  /\ todo' = [todo EXCEPT ![w] = @ \ {r}]
  /\ failed' = [failed EXCEPT ![w] = @ \cup {r}]
  /\ waits' = [waits EXCEPT ![w] = attempts[r] + 1 < MaxAttempts]
  /\ UNCHANGED <<rows, cursor, batching, zone, done, front, crashes>>

\* The head of the batch, and a handler raised: _record_failure, and the batch
\* stops there unless the row's attempts are spent.
RowFails(w, r) ==
  /\ Delivering(w) /\ IsFirst(r, todo[w])
  /\ r \notin Sound
  /\ failed' = [failed EXCEPT ![w] = @ \cup {r}]
  /\ \/ /\ attempts[r] + 1 < MaxAttempts
        /\ todo' = [todo EXCEPT ![w] = {}]
        /\ waits' = [waits EXCEPT ![w] = TRUE]
     \/ /\ attempts[r] + 1 >= MaxAttempts
        /\ todo' = [todo EXCEPT ![w] = @ \ {r}]
        /\ UNCHANGED waits
  /\ UNCHANGED <<rows, cursor, batching, zone, done, front, crashes>>

\* The end of the batch: _mark_published, the cursor's own row, the commit.
FinishBatch(w) ==
  /\ Delivering(w) /\ todo[w] = {}
  /\ published' = published \cup done[w]
  /\ applied' = [r \in Rows |-> IF r \in done[w] THEN applied[r] + 1 ELSE applied[r]]
  /\ attempts' = [r \in Rows |-> IF r \in failed[w] THEN attempts[r] + 1 ELSE attempts[r]]
  /\ backingOff' = waits[w]
  /\ \/ done[w] = {} /\ UNCHANGED reached
     \/ \E r \in done[w] : (\A s \in done[w] : s <= r) /\ reached' = r
  /\ EndBatch(w)
  /\ UNCHANGED <<committed, crashes>>

\* The worker dies, or the batch's own statement fails: all of it rolls back.
Crash(w) ==
  /\ w \in batching /\ crashes < MaxCrashes
  /\ crashes' = crashes + 1
  /\ EndBatch(w)
  /\ UNCHANGED <<rows, backingOff, reached>>

BatchStep(w) ==
  \/ BeginBatch(w) \/ ScanZone(w)
  \/ \E r \in Rows : DeliverRow(w, r) \/ RowFails(w, r)
  \/ FinishBatch(w)

Next ==
  \/ \E r \in Rows : WriterCommits(r)
  \/ BackoffPasses
  \/ \E w \in Workers : BatchStep(w) \/ Crash(w)

\* Beat keeps starting batches and some worker keeps taking them up.
Fairness == WF_vars(\E w \in Workers : BatchStep(w)) /\ WF_vars(BackoffPasses)

Spec == Init /\ [][Next]_vars /\ Fairness

-----------------------------------------------------------------------------
TypeOK ==
  /\ committed \subseteq Rows /\ published \subseteq Rows
  /\ attempts \in [Rows -> 0..MaxAttempts]
  /\ applied \in [Rows -> Nat]
  /\ backingOff \in BOOLEAN
  /\ reached \in 0..N
  /\ lock \in Workers \cup {None}
  /\ batching \subseteq Workers
  /\ zone \in [Workers -> 0..LastZone + 1]
  /\ todo \in [Workers -> SUBSET Rows] /\ done \in [Workers -> SUBSET Rows]
  /\ failed \in [Workers -> SUBSET Rows] /\ waits \in [Workers -> BOOLEAN]
  /\ front \in [Workers -> SUBSET Rows]
  /\ crashes \in 0..MaxCrashes

\* "Order, and exactly once": a row's handlers have taken effect once if it is
\* published and never if it is not, whichever worker ran them, whatever failed
\* behind it in its batch and however often a worker died.
ExactlyOnce == \A r \in Rows : applied[r] = IF r \in published THEN 1 ELSE 0

\* "In (created, id) order", "nothing behind it overtakes it": when a batch
\* publishes a row, every older row that was pending when the batch began is
\* published too, or its attempts are spent.
DeliveredInOrder ==
  [][\A s \in published' \ published : \A w \in batching :
       s \in done[w]
         => \A r \in front[w] : r < s => r \in published' \/ attempts'[r] >= MaxAttempts]_vars

\* Nothing is delivered forever late: a row whose handlers work is published
\* whenever its writer commits, behind rows already delivered or not, and a row
\* that fails is published or left failed.
EverythingSettles ==
  /\ \A r \in Sound : r \in committed ~> r \in published
  /\ \A r \in Rows : r \in committed ~> r \in published \/ Spent(r)
=============================================================================
