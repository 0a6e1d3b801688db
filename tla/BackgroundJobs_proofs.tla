------------------------ MODULE BackgroundJobs_proofs ------------------------
(***************************************************************************)
(* What the worker's tasks promise of a file kept in object storage, which *)
(* no rollback undoes: the malware scan of a piece of evidence, and the    *)
(* export; and that nothing that was queued for them is forgotten.  For    *)
(* every set of workers, downloads and jobs, and every bound on the        *)
(* deliveries and the faults.                                              *)
(***************************************************************************)
EXTENDS EvidenceScan, Jobs, TLAPS

-----------------------------------------------------------------------------
(***************************************************************************)
(* The scan.  A deletion is under way only for a file whose infected       *)
(* verdict is committed, and a download that reads the bytes began on a    *)
(* clean row; since no verdict is ever replaced, both stay true, and the   *)
(* bytes of every other file stay where they are.                          *)
(***************************************************************************)
Answered == \A w \in Scanners : task[w].at = "answered" => task[w].answer \in Verdicts
DeletingIsInfected == \A w \in Scanners : task[w].at = "deleting" => scanState = "infected"
ReadingIsClean == \A d \in Readers : download[d] = "reading" => scanState = "clean"
CopiesAreFaults == copies <= 1 + faults

\* What a worker's task holds (ScanTypeOK).
TaskRecords == [at : {"idle", "scanning", "answered", "deleting"},
                attempts : 0..Retries, answer : Verdicts \cup {"none"}]

ScanInv ==
  /\ ScanTypeOK
  /\ Answered /\ DeletingIsInfected /\ ReadingIsClean /\ CopiesAreFaults
  /\ BytesOutliveTheScan

\* What one step of the upload, a download or the scan keeps, and does not replace.
FirstVerdictStands == scanState \in Verdicts => scanState' = scanState

LEMMA ScanStep == ScanInv /\ [ScanNext]_scanVars => ScanInv' /\ FirstVerdictStands
<1> SUFFICES ASSUME ScanInv, [ScanNext]_scanVars PROVE ScanInv' /\ FirstVerdictStands
  OBVIOUS
<1> USE EvidenceAssumption
<1> USE DEF ScanInv, ScanTypeOK, Answered, DeletingIsInfected, ReadingIsClean, CopiesAreFaults,
            BytesOutliveTheScan, FirstVerdictStands, NoTask, Verdicts, row, broker
<1>1. ASSUME StoreBytes PROVE ScanInv' /\ FirstVerdictStands
  BY <1>1 DEF StoreBytes
<1>2. ASSUME CommitUpload PROVE ScanInv' /\ FirstVerdictStands
  BY <1>2 DEF CommitUpload
<1>3. ASSUME CommitUploadUnqueued PROVE ScanInv' /\ FirstVerdictStands
  BY <1>3 DEF CommitUploadUnqueued
<1>4. ASSUME RemoveEvidence PROVE ScanInv' /\ FirstVerdictStands
  BY <1>4 DEF RemoveEvidence
<1>5. ASSUME NEW d \in Readers, BeginDownload(d) PROVE ScanInv' /\ FirstVerdictStands
  BY <1>5 DEF BeginDownload
<1>6. ASSUME NEW d \in Readers, EndDownload(d) PROVE ScanInv' /\ FirstVerdictStands
  BY <1>6 DEF EndDownload
<1>7. ASSUME NEW w \in Scanners, Take(w) PROVE ScanInv' /\ FirstVerdictStands
  BY <1>7 DEF Take
<1>8. ASSUME NEW w \in Scanners, NEW a \in Verdicts, Scan(w, a)
      PROVE ScanInv' /\ FirstVerdictStands
  <2>1. CASE a = "error" /\ task[w].attempts < Retries
    BY <1>8, <2>1 DEF Scan
  <2>2. CASE ~(a = "error" /\ task[w].attempts < Retries)
    <3>1. /\ task[w].at = "scanning" /\ task' = [task EXCEPT ![w].at = "answered", ![w].answer = a]
          /\ UNCHANGED <<stored, row, broker, download, scanFailed, abandoned, faults>>
      BY <1>8, <2>2 DEF Scan
    <3>2. task' \in [Scanners -> TaskRecords]
      BY ZenonT(60), <3>1 DEF TaskRecords
    <3>3. /\ task'[w].at = "answered" /\ task'[w].answer = a
          /\ \A v \in Scanners : v # w => task'[v] = task[v]
      BY <3>1
    <3>4. task[w] # NoTask
      BY <3>1
    <3> QED
      BY <3>1, <3>2, <3>3, <3>4 DEF TaskRecords
  <2> QED
    BY <2>1, <2>2
<1>9. ASSUME NEW w \in Scanners, Decide(w) PROVE ScanInv' /\ FirstVerdictStands
  BY <1>9 DEF Decide
<1>10. ASSUME NEW w \in Scanners, DeleteBytes(w) PROVE ScanInv' /\ FirstVerdictStands
  <2>1. /\ scanState = "infected" /\ stored' = FALSE /\ task' = [task EXCEPT ![w] = NoTask]
        /\ UNCHANGED <<row, broker, download, scanFailed, abandoned, faults>>
    BY <1>10 DEF DeleteBytes
  <2>2. NoTask \in TaskRecords
    BY DEF TaskRecords
  <2>3. task' \in [Scanners -> TaskRecords]
    BY <2>1, <2>2 DEF TaskRecords
  <2>4. \A v \in Scanners : task'[v] = task[v] \/ task'[v] = NoTask
    BY <2>1
  <2> QED
    BY <2>1, <2>3, <2>4 DEF TaskRecords
<1>11. ASSUME NEW w \in Scanners, Redeliver(w) PROVE ScanInv' /\ FirstVerdictStands
  BY <1>11 DEF Redeliver
<1>12. ASSUME NEW w \in Scanners, CrashScan(w) PROVE ScanInv' /\ FirstVerdictStands
  BY <1>12 DEF CrashScan
<1>13. ASSUME NEW w \in Scanners, FailScan(w) PROVE ScanInv' /\ FirstVerdictStands
  BY <1>13 DEF FailScan
<1>14. CASE UNCHANGED scanVars
  BY <1>14 DEF scanVars
<1> QED
  BY <1>1, <1>2, <1>3, <1>4, <1>5, <1>6, <1>7, <1>8, <1>9, <1>10, <1>11, <1>12, <1>13, <1>14
     DEF ScanNext, Run

\* Type correctness of the scan and its downloads, and the rest of the invariant.
THEOREM ScanInvariant == ScanSpec => []ScanInv
<1>1. ASSUME ScanInit PROVE ScanInv
  <2>1. NoTask \in TaskRecords
    BY EvidenceAssumption DEF NoTask, TaskRecords
  <2>2. task \in [Scanners -> TaskRecords] /\ \A w \in Scanners : task[w] = NoTask
    BY <1>1, <2>1 DEF ScanInit
  <2>3. ScanTypeOK
    <3>1. copies \in 0..(1 + MaxFaults) /\ deliveries \in 0..MaxDeliveries /\ faults \in 0..MaxFaults
      BY <1>1, EvidenceAssumption DEF ScanInit
    <3>2. download \in [Readers -> {"none", "reading", "missing"}]
      BY <1>1 DEF ScanInit
    <3> QED
      BY <1>1, <2>2, <3>1, <3>2 DEF ScanInit, ScanTypeOK, TaskRecords
  <2>4. Answered /\ DeletingIsInfected
    BY <1>1 DEF ScanInit, Answered, DeletingIsInfected, NoTask
  <2>5. ReadingIsClean /\ CopiesAreFaults /\ BytesOutliveTheScan
    BY <1>1, EvidenceAssumption DEF ScanInit, ReadingIsClean, CopiesAreFaults, BytesOutliveTheScan
  <2> QED
    BY <2>3, <2>4, <2>5 DEF ScanInv
<1> QED
  BY <1>1, ScanStep, PTL DEF ScanSpec

\* cases/tasks.py: "the first one wins", and "a rolled-back verdict never leaves a
\* pending row without its bytes", whoever dies when and however often the
\* message is delivered.
THEOREM FirstScanDecides == ScanSpec => RedeliveriesDoNoHarm
<1>1. ScanInv /\ [ScanNext]_scanVars
        => [BytesOutliveTheScan' /\ FirstVerdictStands]_scanVars
  BY ScanStep DEF ScanInv
<1> QED
  BY <1>1, ScanInvariant, PTL DEF ScanSpec, RedeliveriesDoNoHarm, FirstVerdictStands

-----------------------------------------------------------------------------
(* What a scan still has to do is in somebody's hands: the message is      *)
(* acknowledged when its task ends (CELERY_TASK_ACKS_LATE), so a file that *)
(* was queued waits in the broker or in a task until it is decided, or a   *)
(* task of it ends in an exception.                                        *)
AbsentIsUnsent == scanState = "absent" => copies = 0 /\ deliveries = 0

QueuedScanIsHeld ==
  scanState = "pending" /\ deliveries > 0 =>
    copies > 0 \/ scanFailed \/ \E w \in Scanners : task[w].at # "idle"

\* The bytes of an infected file are there only while the task that recorded the
\* verdict is deleting them, or because that task ended before it could.
InfectedBytesAreHeld ==
  scanState = "infected" => ~stored \/ abandoned \/ \E w \in Scanners : task[w].at = "deleting"

ScanHeld == AbsentIsUnsent /\ QueuedScanIsHeld /\ InfectedBytesAreHeld

\* What one task's step leaves to the others.
LEMMA TasksHold ==
  ASSUME ScanTypeOK, ScanHeld, NEW w \in Scanners,
         \A v \in Scanners : v # w => task'[v] = task[v],
         scanState' # "absent", task[w].at = "deleting" => ~stored' \/ abandoned',
         stored' => stored, abandoned => abandoned', scanFailed => scanFailed',
         scanState' = "pending" => copies' > 0 \/ scanFailed' \/ task'[w].at # "idle",
         scanState' = "infected" => scanState = "infected" \/ task'[w].at = "deleting"
  PROVE  ScanHeld'
<1>1. AbsentIsUnsent' /\ QueuedScanIsHeld'
  BY DEF AbsentIsUnsent, QueuedScanIsHeld
<1>2. InfectedBytesAreHeld'
  BY DEF ScanHeld, InfectedBytesAreHeld
<1> QED
  BY <1>1, <1>2 DEF ScanHeld

LEMMA ScanHeldStep == ScanInv /\ ScanHeld /\ [ScanNext]_scanVars => ScanHeld'
<1> SUFFICES ASSUME ScanInv, ScanHeld, [ScanNext]_scanVars PROVE ScanHeld'
  OBVIOUS
<1>types. ScanTypeOK /\ copies \in Nat /\ deliveries \in Nat /\ Verdicts = {"clean", "infected", "error"}
  BY EvidenceAssumption DEF ScanInv, ScanTypeOK, Verdicts
<1>1. ASSUME UNCHANGED task,
             \/ StoreBytes \/ CommitUpload \/ CommitUploadUnqueued \/ RemoveEvidence
             \/ \E d \in Readers : BeginDownload(d) \/ EndDownload(d)
             \/ UNCHANGED scanVars
      PROVE  ScanHeld'
  BY <1>1, <1>types DEF StoreBytes, CommitUpload, CommitUploadUnqueued, RemoveEvidence, BeginDownload,
     EndDownload, row, broker, scanVars, ScanHeld, AbsentIsUnsent, QueuedScanIsHeld, InfectedBytesAreHeld
<1>2. ASSUME NEW w \in Scanners, Take(w) PROVE ScanHeld'
  <2>1. scanState # "absent" /\ task[w].at = "idle"
    BY <1>2, <1>types DEF Take, ScanHeld, AbsentIsUnsent, NoTask
  <2>2. CASE scanState = "pending"
    <3>1. task'[w].at = "scanning" /\ \A v \in Scanners : v # w => task'[v] = task[v]
      BY <1>2, <1>types, <2>2 DEF Take, ScanTypeOK
    <3> QED
      BY <1>2, <1>types, <2>1, <3>1, TasksHold DEF Take, row
  <2>3. CASE scanState # "pending"
    BY <1>2, <1>types, <2>1, <2>3, TasksHold DEF Take, row
  <2> QED
    BY <2>2, <2>3
<1>3. ASSUME NEW w \in Scanners, NEW a \in Verdicts, Scan(w, a) PROVE ScanHeld'
  <2>1. task'[w].at \in {"scanning", "answered"} /\ \A v \in Scanners : v # w => task'[v] = task[v]
    BY <1>3, <1>types DEF Scan, ScanTypeOK
  <2>2. task[w].at = "scanning" /\ task[w] # NoTask
    BY <1>3 DEF Scan, NoTask
  <2>3. scanState # "absent"
    BY <1>types, <2>2 DEF ScanTypeOK
  <2> QED
    BY <1>3, <1>types, <2>1, <2>2, <2>3, TasksHold DEF Scan, row
<1>4. ASSUME NEW w \in Scanners, Decide(w) PROVE ScanHeld'
  <2>1. task[w].at = "answered" /\ task[w] # NoTask /\ task[w].answer \in Verdicts
    BY <1>4 DEF Decide, NoTask, ScanInv, Answered
  <2>2. scanState # "absent"
    BY <1>types, <2>1 DEF ScanTypeOK
  <2>3. \A v \in Scanners : v # w => task'[v] = task[v]
    BY <1>4, <1>types DEF Decide, ScanTypeOK
  <2>4. scanState = "pending" /\ task[w].answer = "infected" => task'[w].at = "deleting"
    BY <1>4, <1>types DEF Decide, ScanTypeOK
  <2>5. scanState' = IF scanState = "pending" THEN task[w].answer ELSE scanState
    BY <1>4 DEF Decide
  <2> QED
    BY <1>4, <1>types, <2>1, <2>2, <2>3, <2>4, <2>5, TasksHold DEF Decide
<1>5. ASSUME NEW w \in Scanners, DeleteBytes(w) PROVE ScanHeld'
  <2>1. scanState = "infected" /\ \A v \in Scanners : v # w => task'[v] = task[v]
    BY <1>5, <1>types DEF DeleteBytes, ScanInv, DeletingIsInfected, ScanTypeOK
  <2> QED
    BY <1>5, <1>types, <2>1, TasksHold DEF DeleteBytes, row
<1>6. ASSUME NEW w \in Scanners, Redeliver(w) PROVE ScanHeld'
  <2>1. scanState # "absent"
    BY <1>6, <1>types DEF Redeliver, ScanTypeOK
  <2> QED
    BY <1>6, <2>1 DEF Redeliver, row, ScanHeld, AbsentIsUnsent, QueuedScanIsHeld, InfectedBytesAreHeld
<1>7. ASSUME NEW w \in Scanners, CrashScan(w) \/ FailScan(w) PROVE ScanHeld'
  <2>1. scanState # "absent" /\ \A v \in Scanners : v # w => task'[v] = task[v]
    BY <1>7, <1>types DEF CrashScan, FailScan, ScanTypeOK
  <2>2. CASE CrashScan(w)
    <3>1. copies' > 0 /\ (abandoned => abandoned') /\ (task[w].at = "deleting" => abandoned')
      <4>1. copies' = copies + 1 /\ abandoned' = (abandoned \/ task[w].at = "deleting")
        BY <2>2 DEF CrashScan
      <4>2. copies' > 0
        BY <1>types, <4>1
      <4> QED
        BY Zenon, <4>1, <4>2
    <3> QED
      BY <1>types, <2>1, <2>2, <3>1, TasksHold DEF CrashScan, row
  <2>3. CASE FailScan(w)
    BY <1>types, <2>1, <2>3, TasksHold DEF FailScan, row, broker
  <2> QED
    BY <1>7, <2>2, <2>3
<1>8. ASSUME NEW d \in Readers, BeginDownload(d) \/ EndDownload(d) PROVE UNCHANGED task
  BY <1>8 DEF BeginDownload, EndDownload
<1>9. StoreBytes \/ CommitUpload \/ CommitUploadUnqueued \/ RemoveEvidence \/ UNCHANGED scanVars => UNCHANGED task
  BY DEF StoreBytes, CommitUpload, CommitUploadUnqueued, RemoveEvidence, scanVars
<1> QED
  BY <1>1, <1>2, <1>3, <1>4, <1>5, <1>6, <1>7, <1>8, <1>9 DEF ScanNext, Run

\* A file whose scan was delivered is never forgotten, and an infected one's bytes are
\* somebody's to delete, whoever dies when: what QueuedFileIsDecided and
\* InfectedBytesAreDeleted say comes about never stops being on its way.
THEOREM ScansAreNotDropped == ScanSpec => [](QueuedScanIsHeld /\ InfectedBytesAreHeld)
<1>1. ScanInit => ScanHeld
  BY DEF ScanInit, ScanHeld, AbsentIsUnsent, QueuedScanIsHeld, InfectedBytesAreHeld
<1>2. ScanHeld => QueuedScanIsHeld /\ InfectedBytesAreHeld
  BY DEF ScanHeld
<1> QED
  BY <1>1, <1>2, ScanHeldStep, ScanInvariant, PTL DEF ScanSpec

-----------------------------------------------------------------------------
(***************************************************************************)
(* The jobs.  At most one task is past a job's lock, the job is queued for *)
(* as long as that task works, and what it has written is the file.        *)
(***************************************************************************)
Inside(w) == working[w].at \in {"building", "built", "written"}

WorkRecords == [at : {"idle", "waiting", "building", "built", "written"},
                on : JobIds \cup {0}, built : Nat]

JobsTyped ==
  /\ job \in [JobIds -> [status : {"none", "queued", "succeeded", "failed"}, content : Nat]]
  /\ file \in [Exports -> Nat]
  /\ data \in Nat
  /\ working \in [JobWorkers -> WorkRecords]
  /\ \A w \in JobWorkers : working[w].at # "idle" => working[w].on \in JobIds

OneTaskInside ==
  \A v, w \in JobWorkers : Inside(v) /\ Inside(w) /\ working[v].on = working[w].on => v = w
InsideIsQueued == \A w \in JobWorkers : Inside(w) => job[working[w].on].status = "queued"
WrittenIsTheFile ==
  \A w \in JobWorkers :
    working[w].at = "written" => /\ working[w].on \in Exports
                                 /\ file[working[w].on] = working[w].built

JobsInv ==
  JobsTyped /\ OneTaskInside /\ InsideIsQueued /\ WrittenIsTheFile /\ FileIsWhatWasRecorded

\* A build leaves a task's record one of a task.
LEMMA BuiltRecord ==
  ASSUME NEW r \in WorkRecords, NEW d \in Nat
  PROVE [r EXCEPT !.at = "built", !.built = d] \in WorkRecords
  BY DEF WorkRecords

\* One step of a request, a worker or the bank's data keeps the invariant.
LEMMA JobsStep == JobsInv /\ [JobsNext]_jobVars => JobsInv'
<1> SUFFICES ASSUME JobsInv, [JobsNext]_jobVars PROVE JobsInv'
  OBVIOUS
<1> USE JobAssumption
<1> USE DEF JobsInv, JobsTyped, OneTaskInside, InsideIsQueued, WrittenIsTheFile,
            FileIsWhatWasRecorded, Inside, NoWork, AtWork, JobIds, WorkRecords
<1>1. ASSUME NEW j \in JobIds, CreateJob(j) PROVE JobsInv'
  BY <1>1 DEF CreateJob
<1>2. ASSUME NEW w \in JobWorkers, NEW j \in JobIds, TakeJob(w, j) PROVE JobsInv'
  BY ZenonT(60), <1>2 DEF TakeJob
<1>3. ASSUME NEW w \in JobWorkers, LockJob(w) PROVE JobsInv'
  BY <1>3 DEF LockJob, JobRowFree
<1>4. ASSUME NEW w \in JobWorkers, BuildJob(w) PROVE JobsInv'
  <2>1. /\ working[w].at = "building"
        /\ working' = [working EXCEPT ![w].at = "built", ![w].built = data]
        /\ UNCHANGED <<job, file, data>>
    BY <1>4 DEF BuildJob
  <2>2. /\ working'[w].at = "built" /\ working'[w].on = working[w].on
        /\ \A v \in JobWorkers : v # w => working'[v] = working[v]
    BY <2>1
  <2>3. JobsTyped'
    <3>1. \A v \in JobWorkers : working'[v].at # "idle" => working'[v].on \in JobIds
      BY <2>1, <2>2
    <3>2. [working[w] EXCEPT !.at = "built", !.built = data] \in WorkRecords
      BY BuiltRecord
    <3>3. working' \in [JobWorkers -> WorkRecords]
      BY <2>1, <3>2
    <3> QED
      BY <2>1, <3>1, <3>3
  <2>4. OneTaskInside'
    BY <2>1, <2>2
  <2>5. InsideIsQueued'
    BY <2>1, <2>2
  <2>6. WrittenIsTheFile' /\ FileIsWhatWasRecorded'
    BY <2>1, <2>2
  <2> QED
    BY <2>3, <2>4, <2>5, <2>6
<1>5. ASSUME NEW w \in JobWorkers, WriteFile(w) PROVE JobsInv'
  BY <1>5 DEF WriteFile
<1>6. ASSUME NEW w \in JobWorkers, CommitJob(w) PROVE JobsInv'
  BY <1>6 DEF CommitJob
<1>7. ASSUME NEW w \in JobWorkers, RefuseJob(w) PROVE JobsInv'
  BY <1>7 DEF RefuseJob
<1>8. ASSUME NEW w \in JobWorkers, RedeliverJob(w) PROVE JobsInv'
  BY <1>8 DEF RedeliverJob
<1>9. ASSUME NEW w \in JobWorkers, KillWorker(w) PROVE JobsInv'
  BY <1>9 DEF KillWorker
<1>10. ASSUME NEW w \in JobWorkers, RaiseJob(w) PROVE JobsInv'
  BY <1>10 DEF RaiseJob
<1>11. CASE ChangeData
  BY <1>11 DEF ChangeData
<1>12. CASE UNCHANGED jobVars
  BY <1>12 DEF jobVars
<1> QED
  BY <1>1, <1>2, <1>3, <1>4, <1>5, <1>6, <1>7, <1>8, <1>9, <1>10, <1>11, <1>12
     DEF JobsNext, WorkOnJobs

\* Every reachable state has one task at most past a job's lock.
THEOREM JobsInvariant == JobsSpec => []JobsInv
<1>1. JobsInit => JobsInv
  BY JobAssumption DEF JobsInit, JobsInv, JobsTyped, OneTaskInside, InsideIsQueued,
     WrittenIsTheFile, FileIsWhatWasRecorded, Inside, NoWork, JobIds, WorkRecords
<1> QED
  BY <1>1, JobsStep, PTL DEF JobsSpec

\* reports/jobs.run_export: the file of a finished export is the one whose hash
\* its row and the audit trail name.
THEOREM ExportIsRecorded == JobsSpec => []FileIsWhatWasRecorded
  BY JobsInvariant, PTL DEF JobsInv

-----------------------------------------------------------------------------
(* What was queued is in somebody's hands.  A job's message is in the      *)
(* broker or with a task, from its first delivery until the job has ended  *)
(* or a task of it has raised.                                             *)
Tasks(j) == {w \in JobWorkers : working[w].at # "idle" /\ working[w].on = j}

OnTheWay(j) == message[j].copies > 0 \/ Tasks(j) # {} \/ j \in raised
QueuedJobIsHeld ==
  \A j \in JobIds : job[j].status = "queued" /\ message[j].given > 0 => OnTheWay(j)

\* A job nobody has created has no message and no task.
UncreatedIsUnsent ==
  \A j \in JobIds :
    job[j].status = "none" => message[j].copies = 0 /\ message[j].given = 0 /\ Tasks(j) = {}

MessagesTyped == message \in [JobIds -> [copies : Nat, given : Nat]]
IdleIsAtRest == \A w \in JobWorkers : working[w].at = "idle" => working[w] = NoWork
JobsHeld == MessagesTyped /\ QueuedJobIsHeld /\ UncreatedIsUnsent /\ IdleIsAtRest

\* What a step leaves of a job it is not about, and what it must see to of one it is.
Leaves(j) ==
  /\ job'[j] = job[j] /\ message'[j] = message[j] /\ (j \in raised => j \in raised')
  /\ Tasks(j)' = Tasks(j)
SeesTo(j) ==
  \/ job'[j].status \in {"succeeded", "failed"}
  \/ job'[j].status = "queued" /\ (message'[j].given > 0 => OnTheWay(j)')

LEMMA OneJobMoves ==
  ASSUME JobsHeld, NEW j \in JobIds, MessagesTyped', IdleIsAtRest',
         \A k \in JobIds : k # j => Leaves(k), Leaves(j) \/ SeesTo(j)
  PROVE  JobsHeld'
<1>1. ASSUME NEW k \in JobIds, Leaves(k)
      PROVE  /\ job'[k].status = "queued" /\ message'[k].given > 0 => OnTheWay(k)'
             /\ job'[k].status = "none" =>
                  message'[k].copies = 0 /\ message'[k].given = 0 /\ Tasks(k)' = {}
  BY <1>1 DEF JobsHeld, QueuedJobIsHeld, UncreatedIsUnsent, Leaves, OnTheWay
<1>2. ASSUME SeesTo(j)
      PROVE  /\ job'[j].status = "queued" /\ message'[j].given > 0 => OnTheWay(j)'
             /\ job'[j].status # "none"
  BY <1>2 DEF SeesTo
<1>3. QueuedJobIsHeld'
  BY <1>1, <1>2 DEF QueuedJobIsHeld
<1>4. UncreatedIsUnsent'
  BY <1>1, <1>2 DEF UncreatedIsUnsent
<1> QED
  BY <1>3, <1>4 DEF JobsHeld

\* A worker's task is one of its job's, and of no other's.
LEMMA OneTaskMoves ==
  ASSUME JobsTyped, NEW w \in JobWorkers, NEW after, working' = [working EXCEPT ![w] = after]
  PROVE  /\ \A k : k # working[w].on /\ k # after.on => Tasks(k)' = Tasks(k)
         /\ working[w].at = "idle" => \A k : k # after.on => Tasks(k)' = Tasks(k)
         /\ after.at = "idle" => \A k : k # working[w].on => Tasks(k)' = Tasks(k)
         /\ after.at # "idle" => w \in Tasks(after.on)'
         /\ IdleIsAtRest /\ (after.at = "idle" => after = NoWork) => IdleIsAtRest'
<1>1. working'[w] = after /\ \A v \in JobWorkers : v # w => working'[v] = working[v]
  BY DEF JobsTyped
<1> QED
  BY <1>1 DEF Tasks, IdleIsAtRest

LEMMA JobsHeldStep == JobsInv /\ JobsHeld /\ [JobsNext]_jobVars => JobsHeld'
<1> SUFFICES ASSUME JobsInv, JobsHeld, [JobsNext]_jobVars PROVE JobsHeld'
  OBVIOUS
<1>types. JobsTyped /\ MessagesTyped /\ IdleIsAtRest /\ NoWork.at = "idle"
  BY DEF JobsInv, JobsHeld, NoWork
<1>1. ASSUME NEW j \in JobIds, CreateJob(j) PROVE JobsHeld'
  <2>1. /\ MessagesTyped' /\ message'[j].given = message[j].given
        /\ \A k \in JobIds : k # j => message'[k] = message[k]
    BY <1>1, <1>types DEF CreateJob, MessagesTyped
  <2>2. job'[j].status = "queued" /\ \A k \in JobIds : k # j => job'[k] = job[k]
    BY <1>1, <1>types DEF CreateJob, JobsTyped
  <2>3. message[j].given = 0
    BY <1>1 DEF CreateJob, JobsHeld, UncreatedIsUnsent
  <2>4. SeesTo(j)
    BY <2>1, <2>2, <2>3 DEF SeesTo
  <2>5. \A k \in JobIds : k # j => Leaves(k)
    BY <1>1, <2>1, <2>2 DEF CreateJob, Leaves, Tasks
  <2> QED
    BY <1>1, <1>types, <2>1, <2>4, <2>5, OneJobMoves DEF CreateJob, IdleIsAtRest
<1>2. ASSUME NEW w \in JobWorkers, NEW j \in JobIds, TakeJob(w, j) PROVE JobsHeld'
  <2> DEFINE one == [copies |-> message[j].copies - 1, given |-> message[j].given + 1]
             taken == [NoWork EXCEPT !.at = "waiting", !.on = j]
  <2>1. /\ working[w] = NoWork /\ message[j].copies > 0 /\ working' = [working EXCEPT ![w] = taken]
        /\ message' = [message EXCEPT ![j] = one] /\ UNCHANGED <<job, raised>>
    BY <1>2 DEF TakeJob
  <2>2. one \in [copies : Nat, given : Nat]
    BY <1>types, <2>1 DEF MessagesTyped
  <2>3. taken.at = "waiting" /\ taken.on = j
    BY DEF NoWork
  <2> HIDE DEF one, taken
  <2>4. MessagesTyped' /\ \A k \in JobIds : k # j => message'[k] = message[k]
    BY <1>types, <2>1, <2>2 DEF MessagesTyped
  <2>5. Tasks(j)' # {} /\ IdleIsAtRest' /\ \A k \in JobIds : k # j => Tasks(k)' = Tasks(k)
    BY <1>types, <2>1, <2>3, OneTaskMoves
  <2>6. \A k \in JobIds : k # j => Leaves(k)
    BY <2>1, <2>4, <2>5 DEF Leaves
  <2>7. job[j].status # "none" /\ job[j].status \in {"none", "queued", "succeeded", "failed"}
    BY <1>types, <2>1 DEF JobsHeld, UncreatedIsUnsent, MessagesTyped, JobsTyped
  <2>8. SeesTo(j)
    BY <2>1, <2>5, <2>7 DEF SeesTo, OnTheWay
  <2> QED
    BY <2>4, <2>5, <2>6, <2>8, OneJobMoves
\* A task goes on.
<1>3. ASSUME NEW w \in JobWorkers, NEW after, working' = [working EXCEPT ![w] = after],
             after.at # "idle", after.on = working[w].on, working[w].at # "idle",
             UNCHANGED <<job, message, raised>>
      PROVE  JobsHeld'
  <2>1. w \in Tasks(working[w].on) /\ w \in Tasks(working[w].on)'
    BY <1>types, <1>3, OneTaskMoves DEF Tasks
  <2>2. \A k \in JobIds : (Tasks(k) # {} => Tasks(k)' # {}) /\ (Tasks(k) = {} => Tasks(k)' = {})
    BY <1>types, <1>3, <2>1, OneTaskMoves
  <2>3. IdleIsAtRest'
    BY <1>types, <1>3, OneTaskMoves
  <2> QED
    BY <1>3, <2>2, <2>3 DEF JobsHeld, MessagesTyped, QueuedJobIsHeld, UncreatedIsUnsent, OnTheWay
\* A task ends.
<1>4. ASSUME NEW w \in JobWorkers, NEW j \in JobIds, working[w].on = j,
             working' = [working EXCEPT ![w] = NoWork], MessagesTyped', raised \subseteq raised',
             \A k \in JobIds : k # j => job'[k] = job[k] /\ message'[k] = message[k], SeesTo(j)
      PROVE  JobsHeld'
  <2>1. \A k \in JobIds : k # j => Leaves(k)
    BY <1>types, <1>4, OneTaskMoves DEF Leaves
  <2>2. IdleIsAtRest'
    BY <1>types, <1>4, OneTaskMoves
  <2> QED
    BY <1>4, <2>1, <2>2, OneJobMoves
\* What a task works on has been created.
<1>5. ASSUME NEW w \in JobWorkers, working[w].at # "idle"
      PROVE  \E j \in JobIds : working[w].on = j /\ job[j].status \in {"queued", "succeeded", "failed"}
  <2>1. working[w].on \in JobIds /\ w \in Tasks(working[w].on)
    BY <1>types, <1>5 DEF JobsTyped, Tasks
  <2>2. job[working[w].on].status # "none"
    BY <2>1 DEF JobsHeld, UncreatedIsUnsent
  <2> QED
    BY <1>types, <2>1, <2>2 DEF JobsTyped
<1>6. ASSUME NEW w \in JobWorkers, LockJob(w) PROVE JobsHeld'
  <2>1. working[w].at = "waiting" /\ UNCHANGED <<job, message, raised>>
    BY <1>6 DEF LockJob
  <2>2. CASE job[working[w].on].status = "queued"
    <3> DEFINE after == [working[w] EXCEPT !.at = "building"]
    <3>1. working' = [working EXCEPT ![w] = after]
      BY <1>6, <2>2 DEF LockJob
    <3>2. after.at = "building" /\ after.on = working[w].on
      BY <1>types DEF JobsTyped, WorkRecords
    <3> HIDE DEF after
    <3> QED
      BY <1>3, <2>1, <3>1, <3>2
  <2>3. CASE job[working[w].on].status # "queued"
    <3>1. working' = [working EXCEPT ![w] = NoWork]
      BY <1>6, <2>3 DEF LockJob
    <3>2. PICK j \in JobIds : working[w].on = j /\ job[j].status \in {"succeeded", "failed"}
      BY <1>5, <2>1, <2>3
    <3>3. SeesTo(j)
      BY <2>1, <3>2 DEF SeesTo
    <3> QED
      BY <1>4, <1>types, <2>1, <3>1, <3>2, <3>3 DEF MessagesTyped
  <2> QED
    BY <2>2, <2>3
<1>7. ASSUME NEW w \in JobWorkers, BuildJob(w) PROVE JobsHeld'
  <2> DEFINE after == [working[w] EXCEPT !.at = "built", !.built = data]
  <2>1. /\ working[w].at = "building" /\ working' = [working EXCEPT ![w] = after]
        /\ UNCHANGED <<job, message, raised>>
    BY <1>7 DEF BuildJob
  <2>2. after.at = "built" /\ after.on = working[w].on
    BY <1>types DEF JobsTyped, WorkRecords
  <2> HIDE DEF after
  <2> QED
    BY <1>3, <2>1, <2>2
<1>8. ASSUME NEW w \in JobWorkers, WriteFile(w) PROVE JobsHeld'
  <2> DEFINE after == [working[w] EXCEPT !.at = "written"]
  <2>1. /\ working[w].at = "built" /\ working' = [working EXCEPT ![w] = after]
        /\ UNCHANGED <<job, message, raised>>
    BY <1>8 DEF WriteFile
  <2>2. after.at = "written" /\ after.on = working[w].on
    BY <1>types DEF JobsTyped, WorkRecords
  <2> HIDE DEF after
  <2> QED
    BY <1>3, <2>1, <2>2
<1>9. ASSUME NEW w \in JobWorkers, CommitJob(w) \/ RefuseJob(w) PROVE JobsHeld'
  <2>1. /\ working[w].at # "idle" /\ UNCHANGED <<message, raised>>
        /\ working' = [working EXCEPT ![w] = NoWork]
    BY <1>9 DEF CommitJob, RefuseJob
  <2>2. PICK j \in JobIds : working[w].on = j
    BY <1>5, <2>1
  <2>3. job'[j].status \in {"succeeded", "failed"} /\ \A k \in JobIds : k # j => job'[k] = job[k]
    BY <1>9, <1>types, <2>2 DEF CommitJob, RefuseJob, JobsTyped
  <2>4. SeesTo(j)
    BY <2>3 DEF SeesTo
  <2> QED
    BY <1>4, <1>types, <2>1, <2>2, <2>3, <2>4 DEF MessagesTyped
<1>10. ASSUME NEW w \in JobWorkers, KillWorker(w) \/ RaiseJob(w) PROVE JobsHeld'
  <2>1. working[w].at # "idle" /\ working' = [working EXCEPT ![w] = NoWork] /\ UNCHANGED job
    BY <1>10, <1>types DEF KillWorker, RaiseJob, AtWork, IdleIsAtRest
  <2>2. PICK j \in JobIds : working[w].on = j /\ job'[j].status \in {"queued", "succeeded", "failed"}
    BY <1>5, <2>1
  <2>3. CASE KillWorker(w)
    <3>1. message' = [message EXCEPT ![j].copies = message[j].copies + 1] /\ UNCHANGED raised
      BY <2>2, <2>3 DEF KillWorker
    <3>2. /\ MessagesTyped' /\ message'[j].copies > 0
          /\ \A k \in JobIds : k # j => message'[k] = message[k]
      BY <1>types, <2>2, <3>1 DEF MessagesTyped
    <3>3. SeesTo(j)
      BY <2>2, <3>2 DEF SeesTo, OnTheWay
    <3> QED
      BY <1>4, <2>1, <2>2, <3>1, <3>2, <3>3
  <2>4. CASE RaiseJob(w)
    <3>1. raised' = raised \cup {j} /\ UNCHANGED message
      BY <2>2, <2>4 DEF RaiseJob
    <3>2. SeesTo(j)
      BY <2>2, <3>1 DEF SeesTo, OnTheWay
    <3> QED
      BY <1>4, <1>types, <2>1, <2>2, <3>1, <3>2 DEF MessagesTyped
  <2> QED
    BY <1>10, <2>3, <2>4
<1>11. ASSUME NEW w \in JobWorkers, RedeliverJob(w) PROVE JobsHeld'
  <2>1. /\ working[w].at # "idle" /\ message' = [message EXCEPT ![working[w].on].copies = 1]
        /\ UNCHANGED <<job, working, raised>>
    BY <1>11, <1>types DEF RedeliverJob, AtWork, IdleIsAtRest
  <2>2. PICK j \in JobIds : working[w].on = j /\ job'[j].status \in {"queued", "succeeded", "failed"}
    BY <1>5, <2>1
  <2>3. /\ MessagesTyped' /\ message'[j].copies = 1
        /\ \A k \in JobIds : k # j => message'[k] = message[k]
    BY <1>types, <2>1, <2>2 DEF MessagesTyped
  <2>4. SeesTo(j)
    BY <2>2, <2>3 DEF SeesTo, OnTheWay
  <2>5. IdleIsAtRest' /\ \A k \in JobIds : k # j => Leaves(k)
    BY <1>types, <2>1, <2>3 DEF IdleIsAtRest, Leaves, Tasks
  <2> QED
    BY <2>3, <2>4, <2>5, OneJobMoves
<1>12. CASE ChangeData \/ UNCHANGED jobVars
  <2>1. UNCHANGED <<job, message, working, raised>>
    BY <1>12 DEF ChangeData, jobVars
  <2> QED
    BY <2>1 DEF JobsHeld, MessagesTyped, QueuedJobIsHeld, UncreatedIsUnsent, IdleIsAtRest, OnTheWay, Tasks
<1> QED
  BY <1>1, <1>2, <1>6, <1>7, <1>8, <1>9, <1>10, <1>11, <1>12 DEF JobsNext, WorkOnJobs

\* A job that was delivered is never forgotten: until it has ended it is in the broker,
\* with a worker, or one whose task raised (reports/tasks.py, registers_jobs.py; the
\* message is acknowledged late).  What QueuedJobEnds says comes about never stops
\* being on its way.
THEOREM JobsAreNotDropped == JobsSpec => []QueuedJobIsHeld
<1>1. JobsInit => JobsHeld
  BY DEF JobsInit, JobsHeld, MessagesTyped, QueuedJobIsHeld, UncreatedIsUnsent, IdleIsAtRest,
     Tasks, NoWork
<1>2. JobsHeld => QueuedJobIsHeld
  BY DEF JobsHeld
<1> QED
  BY <1>1, <1>2, JobsHeldStep, JobsInvariant, PTL DEF JobsSpec
=============================================================================
