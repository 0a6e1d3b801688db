----------------------------- MODULE EvidenceScan -----------------------------
(***************************************************************************)
(* One file attached to a case, its malware scan and its downloads:        *)
(* cases/evidence.py and cases/tasks.py.                                   *)
(*                                                                         *)
(* The bytes live in object storage and the row in the database, so no     *)
(* transaction covers both.  The scan is a message acknowledged only after *)
(* the task (CELERY_TASK_ACKS_LATE): it is delivered again when a worker   *)
(* dies with it, or is slow enough for the broker to give it to a second   *)
(* worker meanwhile.                                                       *)
(***************************************************************************)
EXTENDS Integers, FiniteSets

CONSTANTS Scanners,
          Readers,        \* downloads that may be under way
          Retries,        \* EVIDENCE_SCAN_RETRIES
          MaxDeliveries,  \* bound: deliveries of the message
          MaxFaults       \* bound: crashed or failed tasks

ASSUME EvidenceAssumption ==
  Retries \in Nat /\ MaxDeliveries \in Nat /\ MaxFaults \in Nat

VARIABLES stored,     \* the bytes are in object storage
          scanState,  \* the row: absent before the upload commits
          removed,    \* removed_at is set
          copies,     \* deliveries waiting in the broker
          deliveries, \* deliveries made
          task,       \* what each worker's task is doing
          download,   \* what each download has read of the row
          scanFailed,     \* a task ended in an exception and was acknowledged
          abandoned,  \* history: a task ended between its infected verdict and the deletion
          faults

row == <<scanState, removed>>
broker == <<copies, deliveries>>
scanVars == <<stored, scanState, removed, copies, deliveries, task, download, scanFailed, abandoned, faults>>

Verdicts == {"clean", "infected", "error"}   \* what a scan answers
NoTask == [at |-> "idle", attempts |-> 0, answer |-> "none"]

ScanInit ==
  /\ stored = FALSE /\ scanState = "absent" /\ removed = FALSE
  /\ copies = 0 /\ deliveries = 0
  /\ task = [w \in Scanners |-> NoTask]
  /\ download = [d \in Readers |-> "none"]
  /\ scanFailed = FALSE /\ abandoned = FALSE /\ faults = 0

-----------------------------------------------------------------------------
\* The upload: _store writes the bytes inside the transaction that adds the row.
StoreBytes ==
  /\ scanState = "absent" /\ ~stored
  /\ stored' = TRUE
  /\ UNCHANGED <<row, broker, task, download, scanFailed, abandoned, faults>>

\* The commit, and scan_evidence.delay as its on_commit callback.
CommitUpload ==
  /\ scanState = "absent" /\ stored
  /\ scanState' = "pending" /\ copies' = 1
  /\ UNCHANGED <<stored, removed, deliveries, task, download, scanFailed, abandoned, faults>>

\* The process dies, or the broker refuses, between the commit and the callback.
CommitUploadUnqueued ==
  /\ scanState = "absent" /\ stored /\ faults < MaxFaults
  /\ scanState' = "pending" /\ faults' = faults + 1
  /\ UNCHANGED <<stored, removed, broker, task, download, scanFailed, abandoned>>

\* remove_evidence, under the row's lock.
RemoveEvidence ==
  /\ scanState # "absent" /\ ~removed
  /\ removed' = TRUE
  /\ UNCHANGED <<stored, scanState, broker, task, download, scanFailed, abandoned, faults>>

\* download_evidence: the row, then the bytes.
BeginDownload(d) ==
  /\ download[d] = "none" /\ scanState = "clean" /\ ~removed
  /\ download' = [download EXCEPT ![d] = "reading"]
  /\ UNCHANGED <<stored, row, broker, task, scanFailed, abandoned, faults>>

EndDownload(d) ==
  /\ download[d] = "reading"
  /\ download' = [download EXCEPT ![d] = IF stored THEN "none" ELSE "missing"]
  /\ UNCHANGED <<stored, row, broker, task, scanFailed, abandoned, faults>>

-----------------------------------------------------------------------------
\* scan_evidence's first read: nothing to do unless the row is pending; the
\* bytes are read before anything is locked.
Take(w) ==
  /\ task[w] = NoTask /\ copies > 0 /\ deliveries < MaxDeliveries
  /\ copies' = copies - 1 /\ deliveries' = deliveries + 1
  /\ task' = IF scanState = "pending" THEN [task EXCEPT ![w].at = "scanning"] ELSE task
  /\ UNCHANGED <<stored, row, download, scanFailed, abandoned, faults>>

\* The broker gives a slow task's message to another worker as well.
Redeliver(w) ==
  /\ task[w] # NoTask /\ copies = 0 /\ deliveries < MaxDeliveries
  /\ copies' = 1
  /\ UNCHANGED <<stored, row, deliveries, task, download, scanFailed, abandoned, faults>>

\* One scan; an error is tried again while attempts are left.
Scan(w, answer) ==
  /\ task[w].at = "scanning"
  /\ task' = IF answer = "error" /\ task[w].attempts < Retries
             THEN [task EXCEPT ![w].attempts = @ + 1]
             ELSE [task EXCEPT ![w].at = "answered", ![w].answer = answer]
  /\ UNCHANGED <<stored, row, broker, download, scanFailed, abandoned, faults>>

\* mutant: the bytes go before the verdict commits
DecideDeletingFirst(w) ==
  /\ task[w].at = "answered"
  /\ IF stored /\ task[w].answer = "infected" /\ scanState = "pending"
     THEN stored' = FALSE /\ UNCHANGED <<scanState, task>>
     ELSE /\ scanState' = IF scanState = "pending" THEN task[w].answer ELSE scanState
          /\ task' = [task EXCEPT ![w] = NoTask]
          /\ UNCHANGED stored
  /\ UNCHANGED <<removed, broker, download, scanFailed, abandoned, faults>>

\* mutant: a pending row is left to the next delivery
DecideNothing(w) ==
  /\ task[w].at = "answered"
  /\ task' = [task EXCEPT ![w] = NoTask]
  /\ UNCHANGED <<stored, row, broker, download, scanFailed, abandoned, faults>>

\* mutant: the verdict is recorded and the file is left where it is
DecideKeepingBytes(w) ==
  /\ task[w].at = "answered"
  /\ scanState' = IF scanState = "pending" THEN task[w].answer ELSE scanState
  /\ task' = [task EXCEPT ![w] = NoTask]
  /\ UNCHANGED <<stored, removed, broker, download, scanFailed, abandoned, faults>>

\* The row read again under its lock: the first delivery to get here decides,
\* and an infected file's bytes are deleted after that commit.
Decide(w) ==
  /\ task[w].at = "answered"
  /\ scanState' = IF scanState = "pending" THEN task[w].answer ELSE scanState
  /\ task' = [task EXCEPT ![w] = IF scanState = "pending" /\ @.answer = "infected"
                                 THEN [@ EXCEPT !.at = "deleting"] ELSE NoTask]
  /\ UNCHANGED <<stored, removed, broker, download, scanFailed, abandoned, faults>>

DeleteBytes(w) ==
  /\ task[w].at = "deleting"
  /\ stored' = FALSE
  /\ task' = [task EXCEPT ![w] = NoTask]
  /\ UNCHANGED <<row, broker, download, scanFailed, abandoned, faults>>

\* The worker dies: an uncommitted verdict is rolled back, the message comes again.
CrashScan(w) ==
  /\ task[w] # NoTask /\ faults < MaxFaults
  /\ faults' = faults + 1
  /\ task' = [task EXCEPT ![w] = NoTask]
  /\ copies' = copies + 1
  /\ abandoned' = (abandoned \/ task[w].at = "deleting")
  /\ UNCHANGED <<stored, row, deliveries, download, scanFailed>>

\* The task raises (storage, the scanner's connection, the database): rolled
\* back, and acknowledged all the same.
FailScan(w) ==
  /\ task[w] # NoTask /\ faults < MaxFaults
  /\ faults' = faults + 1
  /\ task' = [task EXCEPT ![w] = NoTask]
  /\ scanFailed' = TRUE
  /\ abandoned' = (abandoned \/ task[w].at = "deleting")
  /\ UNCHANGED <<stored, row, broker, download>>

-----------------------------------------------------------------------------
Run(w) ==
  \/ Take(w)
  \/ \E answer \in Verdicts : Scan(w, answer)
  \/ Decide(w)
  \/ DeleteBytes(w)

ScanNext ==
  \/ StoreBytes \/ CommitUpload \/ CommitUploadUnqueued \/ RemoveEvidence
  \/ \E d \in Readers : BeginDownload(d) \/ EndDownload(d)
  \/ \E w \in Scanners : Run(w) \/ Redeliver(w) \/ CrashScan(w) \/ FailScan(w)

ScanSpec == ScanInit /\ [][ScanNext]_scanVars

\* A running worker takes what is queued and carries on with what it took.
FairScanSpec == ScanSpec /\ \A w \in Scanners : WF_scanVars(Run(w))

-----------------------------------------------------------------------------
ScanTypeOK ==
  /\ stored \in BOOLEAN /\ removed \in BOOLEAN /\ scanFailed \in BOOLEAN /\ abandoned \in BOOLEAN
  /\ scanState \in {"absent", "pending"} \cup Verdicts
  /\ copies \in 0..(1 + MaxFaults) /\ deliveries \in 0..MaxDeliveries /\ faults \in 0..MaxFaults
  /\ task \in [Scanners -> [at : {"idle", "scanning", "answered", "deleting"},
                           attempts : 0..Retries, answer : Verdicts \cup {"none"}]]
  /\ download \in [Readers -> {"none", "reading", "missing"}]
  /\ \A w \in Scanners : task[w] # NoTask => scanState # "absent"

\* "A rolled-back verdict never leaves a pending row without its bytes": only a
\* file recorded as infected can have lost them, so every later delivery of the
\* scan, and every download of a clean file, finds what it reads.
BytesOutliveTheScan ==
  /\ scanState \in {"pending", "clean", "error"} => stored
  /\ \A d \in Readers : download[d] # "missing"

\* ... and "the first one wins": once a scan of the file has been recorded no
\* other delivery of the task changes what it says.
RedeliveriesDoNoHarm ==
  [][/\ BytesOutliveTheScan'
     /\ scanState \in Verdicts => scanState' = scanState]_scanVars

\* A file waiting for its scan with a delivery to come is decided, however often
\* a worker dies with it, unless a task ended in an exception or the broker has
\* used up the deliveries of this instance.
QueuedFileIsDecided ==
  (scanState = "pending" /\ copies > 0) ~>
     (scanState \in Verdicts \/ scanFailed \/ deliveries = MaxDeliveries)

\* "An infected file's bytes are deleted from storage once the verdict commits"
\* (cases/tasks.py), unless the task ended right there: the delivery that comes
\* after finds the row decided and deletes nothing.
InfectedBytesAreDeleted == (scanState = "infected") ~> (~stored \/ abandoned)
=============================================================================
