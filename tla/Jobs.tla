-------------------------------- MODULE Jobs --------------------------------
(***************************************************************************)
(* Work a request queues for one worker task: an export (reports/jobs.py,  *)
(* reports/tasks.py) and a look-up in the public registers                 *)
(* (tenants/registers_jobs.py).  Both are a row added by the request, a    *)
(* message sent after its commit, and a task that holds the row's lock     *)
(* while it works.  A look-up's result goes into the row; an export's goes *)
(* into object storage, which no rollback undoes, under a key fixed by the *)
(* job's id.                                                               *)
(*                                                                         *)
(* The message is acknowledged when its task ends, well or not; it comes   *)
(* again when a worker dies with it or is slow with it.                    *)
(***************************************************************************)
EXTENDS Integers

CONSTANTS Exports, Lookups,
          JobWorkers,
          MaxData,        \* bound: how often the bank's data changes
          MaxJobTasks,    \* bound: deliveries of one job's message
          MaxJobFaults    \* bound: lost messages, dead workers, tasks that raise

ASSUME JobAssumption ==
  /\ Exports \cap Lookups = {}
  /\ MaxData \in Nat \ {0} /\ MaxJobTasks \in Nat /\ MaxJobFaults \in Nat

JobIds == Exports \cup Lookups

VARIABLES job,        \* the rows: status, and the content hash or the result
          file,       \* the export's bytes in storage, 0 for none
          data,       \* what a build reads: the bank's rows, or the registers
          message,    \* of each job: copies in the broker, and deliveries made
          working,    \* what each worker's task is doing
          raised,     \* jobs of which a task ended in an exception
          jobFaults

jobVars == <<job, file, data, message, working, raised, jobFaults>>

NoWork == [at |-> "idle", on |-> 0, built |-> 0]
AtWork == {w \in JobWorkers : working[w] # NoWork}

JobsInit ==
  /\ job = [j \in JobIds |-> [status |-> "none", content |-> 0]]
  /\ file = [j \in Exports |-> 0]
  /\ data = 1
  /\ message = [j \in JobIds |-> [copies |-> 0, given |-> 0]]
  /\ working = [w \in JobWorkers |-> NoWork]
  /\ raised = {} /\ jobFaults = 0

-----------------------------------------------------------------------------
\* create and start_lookup, and the on_commit that sends the message: the process may die
\* between the two
CreateJob(j) ==
  /\ job[j].status = "none"
  /\ job' = [job EXCEPT ![j].status = "queued"]
  /\ \/ message' = [message EXCEPT ![j].copies = 1] /\ UNCHANGED jobFaults
     \/ jobFaults < MaxJobFaults /\ jobFaults' = jobFaults + 1 /\ UNCHANGED message
  /\ UNCHANGED <<file, data, working, raised>>

TakeJob(w, j) ==
  /\ working[w] = NoWork /\ message[j].copies > 0 /\ message[j].given < MaxJobTasks
  /\ message' = [message EXCEPT ![j] = [copies |-> @.copies - 1, given |-> @.given + 1]]
  /\ working' = [working EXCEPT ![w] = [NoWork EXCEPT !.at = "waiting", !.on = j]]
  /\ UNCHANGED <<job, file, data, raised, jobFaults>>

RedeliverJob(w) ==
  LET j == working[w].on
  IN  /\ w \in AtWork /\ message[j].copies = 0
      /\ message' = [message EXCEPT ![j].copies = 1]
      /\ UNCHANGED <<job, file, data, working, raised, jobFaults>>

\* mutant: the row is read without its lock
JobSeen(j) == TRUE
JobRowFree(j) == \A v \in AtWork : working[v].on = j => working[v].at = "waiting"

\* run_export and run_lookup: only a queued job is worked on
LockJob(w) ==
  LET j == working[w].on
  IN  /\ working[w].at = "waiting" /\ JobRowFree(j)
      /\ working' = [working EXCEPT ![w] =
           IF job[j].status = "queued" THEN [@ EXCEPT !.at = "building"] ELSE NoWork]
      /\ UNCHANGED <<job, file, data, message, raised, jobFaults>>

BuildJob(w) ==
  /\ working[w].at = "building"
  /\ working' = [working EXCEPT ![w].at = "built", ![w].built = data]
  /\ UNCHANGED <<job, file, data, message, raised, jobFaults>>

WriteFile(w) ==
  /\ working[w].at = "built" /\ working[w].on \in Exports
  /\ file' = [file EXCEPT ![working[w].on] = working[w].built]
  /\ working' = [working EXCEPT ![w].at = "written"]
  /\ UNCHANGED <<job, data, message, raised, jobFaults>>

CommitJob(w) ==
  /\ working[w].at = IF working[w].on \in Exports THEN "written" ELSE "built"
  /\ job' = [job EXCEPT ![working[w].on] = [status |-> "succeeded", content |-> working[w].built]]
  /\ working' = [working EXCEPT ![w] = NoWork]
  /\ UNCHANGED <<file, data, message, raised, jobFaults>>

\* mutant: the failure is logged and the row left as it is
RefuseJobSilently(w) ==
  /\ working[w].at = "building"
  /\ working' = [working EXCEPT ![w] = NoWork]
  /\ UNCHANGED <<job, file, data, message, raised, jobFaults>>

\* What is wrong with the request, or a register that is out of reach, fails the job.
RefuseJob(w) ==
  /\ working[w].at = "building"
  /\ job' = [job EXCEPT ![working[w].on].status = "failed"]
  /\ working' = [working EXCEPT ![w] = NoWork]
  /\ UNCHANGED <<file, data, message, raised, jobFaults>>

KillWorker(w) ==
  /\ w \in AtWork /\ jobFaults < MaxJobFaults
  /\ jobFaults' = jobFaults + 1
  /\ message' = [message EXCEPT ![working[w].on].copies = @ + 1]
  /\ working' = [working EXCEPT ![w] = NoWork]
  /\ UNCHANGED <<job, file, data, raised>>

\* Any other exception: rolled back, acknowledged, and the job stays queued.
RaiseJob(w) ==
  /\ w \in AtWork /\ jobFaults < MaxJobFaults
  /\ jobFaults' = jobFaults + 1
  /\ raised' = raised \cup {working[w].on}
  /\ working' = [working EXCEPT ![w] = NoWork]
  /\ UNCHANGED <<job, file, data, message>>

ChangeData ==
  /\ data < MaxData
  /\ data' = data + 1
  /\ UNCHANGED <<job, file, message, working, raised, jobFaults>>

WorkOnJobs(w) ==
  \/ \E j \in JobIds : TakeJob(w, j)
  \/ LockJob(w) \/ BuildJob(w) \/ WriteFile(w) \/ CommitJob(w) \/ RefuseJob(w)

JobsNext ==
  \/ \E j \in JobIds : CreateJob(j)
  \/ \E w \in JobWorkers : WorkOnJobs(w) \/ RedeliverJob(w) \/ KillWorker(w) \/ RaiseJob(w)
  \/ ChangeData

\* A running worker takes what is queued and goes on with what it took.
JobsSpec == JobsInit /\ [][JobsNext]_jobVars /\ \A w \in JobWorkers : WF_jobVars(WorkOnJobs(w))
-----------------------------------------------------------------------------
\* "The file's key, its hash and the audit row land together or not at all" (run_export),
\* though the file itself is outside the transaction: whatever deliveries, deaths and
\* rollbacks came before, the file of a finished export is the one whose hash the row
\* records, which is what a download's audit row names.
FileIsWhatWasRecorded ==
  \A j \in Exports : job[j].status = "succeeded" => file[j] = job[j].content

\* A queued job with a delivery to come ends, however often a worker dies with it, unless a
\* task of it raised or the deliveries of this instance are used up.
QueuedJobEnds ==
  \A j \in JobIds :
    (job[j].status = "queued" /\ message[j].copies > 0) ~>
      (job[j].status \in {"succeeded", "failed"} \/ j \in raised \/ message[j].given = MaxJobTasks)
=============================================================================
