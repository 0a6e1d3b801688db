--------------------------- MODULE MCBackgroundJobs ---------------------------
(* The three kinds of work Celery does for a request after its commit.  No *)
(* variable is shared: a behaviour runs one of them, the one `part` names. *)
(*                                                                         *)
(* Outbox: four rows, two of the library and two of a tenant, of which one *)
(* always fails, one may fail and two never do; batches of two, two        *)
(* attempts, two workers of which one dies once.  Scan: one retry, four    *)
(* deliveries, two faults: a redelivery overtakes a slow scan.  Jobs: one  *)
(* export, one look-up, three deliveries of each and two faults.           *)
EXTENDS Outbox, EvidenceScan, Jobs

CONSTANTS w1, w2, x1, l1

VARIABLE part

MCZoneOf == [r \in 1..N |-> r % 2]

mcVars == <<part, vars, scanVars, jobVars>>

MCInit == part \in {"outbox", "scan", "jobs"} /\ Init /\ ScanInit /\ JobsInit

MCNext ==
  /\ part' = part
  /\ \/ part = "outbox" /\ Next /\ UNCHANGED <<scanVars, jobVars>>
     \/ part = "scan" /\ ScanNext /\ UNCHANGED <<vars, jobVars>>
     \/ part = "jobs" /\ JobsNext /\ UNCHANGED <<vars, scanVars>>

\* Each part's own fairness, while it is the one that runs.
MCFairness ==
  /\ WF_mcVars(part = "outbox" /\ \E w \in Workers : BatchStep(w) /\ UNCHANGED <<part, scanVars, jobVars>>)
  /\ WF_mcVars(part = "outbox" /\ BackoffPasses /\ UNCHANGED <<part, scanVars, jobVars>>)
  /\ \A w \in Scanners : WF_mcVars(part = "scan" /\ Run(w) /\ UNCHANGED <<part, vars, jobVars>>)
  /\ \A w \in JobWorkers : WF_mcVars(part = "jobs" /\ WorkOnJobs(w) /\ UNCHANGED <<part, vars, scanVars>>)

MCSpec == MCInit /\ [][MCNext]_mcVars /\ MCFairness
=============================================================================
