------------------------------ MODULE AgentRuns ------------------------------
(***************************************************************************)
(* Runs of bleqq's agents over the API: one key opens a run, files the     *)
(* changes it sighted under it and closes it (agents/runs.py,              *)
(* watch/registration.py).  Answers get lost, so every call may be sent    *)
(* again, and two workers of one key, or two runs, may call at once.       *)
(*                                                                         *)
(* A call that names a run holds that run's row lock from its first read   *)
(* to its commit; opening a run and the stable key of a change have only   *)
(* their unique constraints.  A call is two steps: what it reads, and the  *)
(* write that follows from it.  What a second sighting adds to a change,   *)
(* and filings other than changes, are left out.                           *)
(***************************************************************************)
EXTENDS Naturals, FiniteSets

CONSTANTS Callers,
          ApiRuns,     \* run ids, in the order they are made
          RetryKeys,   \* Idempotency-Key values of POST /agent-runs
          StableKeys,  \* the reforms there are to be sighted
          MaxChanges   \* WATCH_RUN_MAX_CHANGES

ASSUME RunsAssumption ==
  /\ MaxChanges \in Nat /\ ApiRuns \subseteq Nat \ {0}
  /\ IsFiniteSet(StableKeys) /\ "none" \notin RetryKeys

VARIABLES apiRun,   \* run rows: status, the retry key, the stored count
          change,   \* regulatory_change: the run that registered each reform
          call,     \* what each caller's request has read
          answers   \* history: the runs answered under each retry key

runsVars == <<apiRun, change, call, answers>>

NoRun == 0
Ends == {"succeeded", "failed"}
NotOpened == [status |-> "none", key |-> "none", changes |-> 0]
NoCall == [op |-> "none"]

RunsInit ==
  /\ apiRun = [r \in ApiRuns |-> NotOpened]
  /\ change = [k \in StableKeys |-> NoRun]
  /\ call = [c \in Callers |-> NoCall]
  /\ answers = [i \in RetryKeys |-> {}]

\* run.changes.count()
Registered(r) == Cardinality({k \in StableKeys : change[k] = r})
OpenedWith(i) == {r \in ApiRuns : apiRun[r].key = i}

\* mutant: the run is read without its lock
OwnRunRead(r) == apiRun[r] # NotOpened
\* _own_run: select_for_update waits for whoever holds the row
OwnRun(r) ==
  /\ apiRun[r] # NotOpened
  /\ \A c \in Callers : call[c].op \in {"file", "close"} => call[c].run # r

Read(c, request) == call[c] = NoCall /\ call' = [call EXCEPT ![c] = request]
Answered(c) == call' = [call EXCEPT ![c] = NoCall]

-----------------------------------------------------------------------------
(* POST /agent-runs *)
\* mutant: without agent_run_idempotency_unique
NeverTaken(i) == FALSE
Taken(i) == OpenedWith(i) # {}

\* _replayed_open finds the run this key opened, or nothing
BeginOpen(c, i) ==
  \/ /\ Taken(i) /\ call[c] = NoCall
     /\ answers' = [answers EXCEPT ![i] = @ \cup OpenedWith(i)]
     /\ UNCHANGED <<apiRun, change, call>>
  \/ /\ ~Taken(i) /\ Read(c, [op |-> "open", key |-> i])
     /\ UNCHANGED <<apiRun, change, answers>>

\* the insert: a key taken meanwhile violates the constraint and the call fails
OpenRun(c) ==
  /\ call[c].op = "open"
  /\ IF Taken(call[c].key)
     THEN UNCHANGED <<apiRun, answers>>
     ELSE \E r \in ApiRuns :
            /\ apiRun[r] = NotOpened /\ \A q \in ApiRuns : q < r => apiRun[q] # NotOpened
            /\ apiRun' = [apiRun EXCEPT ![r] = [status |-> "running", key |-> call[c].key, changes |-> 0]]
            /\ answers' = [answers EXCEPT ![call[c].key] = @ \cup {r}]
  /\ Answered(c) /\ UNCHANGED change

-----------------------------------------------------------------------------
(* POST /changes *)
\* require_open_run, then change_with_stable_key
BeginFile(c, r, k) ==
  /\ OwnRun(r) /\ apiRun[r].status = "running"
  /\ Read(c, [op |-> "file", run |-> r, key |-> k, known |-> change[k] # NoRun])
  /\ UNCHANGED <<apiRun, change, answers>>

\* A second sighting registers nothing (_merge).  A new one spends a slot of the run's
\* budget; a reform another run registered meanwhile fails on its unique stable key.
RegisterChange(c) ==
  LET r == call[c].run
      k == call[c].key
  IN  /\ call[c].op = "file"
      /\ change' = IF ~call[c].known /\ Registered(r) < MaxChanges /\ change[k] = NoRun
                   THEN [change EXCEPT ![k] = r] ELSE change
      /\ Answered(c) /\ UNCHANGED <<apiRun, answers>>

-----------------------------------------------------------------------------
(* PATCH /agent-runs/{runId} *)
BeginClose(c, r, end) ==
  /\ OwnRun(r)
  /\ Read(c, [op |-> "close", run |-> r, end |-> end,
              running |-> apiRun[r].status = "running", counted |-> Registered(r)])
  /\ UNCHANGED <<apiRun, change, answers>>

\* _close: a closed run is answered again or refused, and stays as it is
FinishRun(c) ==
  /\ call[c].op = "close"
  /\ apiRun' = IF call[c].running
               THEN [apiRun EXCEPT ![call[c].run].status = call[c].end,
                                   ![call[c].run].changes = call[c].counted]
               ELSE apiRun
  /\ Answered(c) /\ UNCHANGED <<change, answers>>

\* The connection is lost before the commit.
LoseCall(c) ==
  /\ call[c] # NoCall /\ Answered(c)
  /\ UNCHANGED <<apiRun, change, answers>>

RunsNext ==
  \E c \in Callers :
    \/ OpenRun(c) \/ RegisterChange(c) \/ FinishRun(c) \/ LoseCall(c)
    \/ \E i \in RetryKeys : BeginOpen(c, i)
    \/ \E r \in ApiRuns :
         \/ \E k \in StableKeys : BeginFile(c, r, k)
         \/ \E end \in Ends : BeginClose(c, r, end)

RunsSpec == RunsInit /\ [][RunsNext]_runsVars
-----------------------------------------------------------------------------
RunsTypeOK ==
  /\ apiRun \in [ApiRuns -> [status : Ends \cup {"none", "running"},
                             key : RetryKeys \cup {"none"}, changes : 0..Cardinality(StableKeys)]]
  /\ change \in [StableKeys -> ApiRuns \cup {NoRun}]
  /\ \A c \in Callers : call[c].op \in {"none", "open", "file", "close"}
  /\ answers \in [RetryKeys -> SUBSET ApiRuns]

\* Every run is a RunLedger, however filings, closes and their retries meet: "a close
\* waits for a filing in flight and counts it, and a filing that waited on a close reads
\* the run closed" (_own_run), and two filings "never both squeeze past the last slot"
\* (spend).
Ledger(r) ==
  INSTANCE RunLedger WITH
    Limit <- MaxChanges, status <- apiRun[r].status,
    filings <- Registered(r), total <- apiRun[r].changes
RunsAreLedgers ==
  /\ \A r \in ApiRuns : Ledger(r)!Init
  /\ [][\A r \in ApiRuns : UNCHANGED Ledger(r)!ledger \/ Ledger(r)!Next]_runsVars

\* "The same Idempotency-Key answers the run it already opened": all the answers one retry
\* key ever got name one run.
RetriesFindTheirRun == \A i \in RetryKeys : Cardinality(answers[i]) <= 1
=============================================================================
