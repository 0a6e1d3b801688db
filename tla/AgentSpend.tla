----------------------------- MODULE AgentSpend -----------------------------
(***************************************************************************)
(* The monthly cap on one bank's own agents: agents/budget.py, tasks.py,   *)
(* control.py, runner_events.py.                                           *)
(*                                                                         *)
(* Whoever opens a run takes the bank's spend lock, an advisory lock held  *)
(* to the end of its transaction, before it adds up what open runs may     *)
(* still cost.  The runner's events write a run's cost first and take the  *)
(* lock after; an event that closes its run, an interruption, a pause and  *)
(* a new cap never take it.  Each transaction is therefore several steps.  *)
(*                                                                         *)
(* One month of one bank.  The agents' schedule is a flag: due or not yet. *)
(* A run the runner would not start is closed as failed in the same        *)
(* transaction; it costs nothing and is left out.                          *)
(***************************************************************************)
EXTENDS Integers, FiniteSets, FiniteSetsExt

CONSTANTS Beats,      \* overlapping runs of run_due_tenant_agents for this bank
          Askers,     \* people who ask for a run: run now, a research request
          BankAgents,
          MaxRuns,    \* bound: runs of one agent
          Limit,      \* AGENT_RUN_BUDGET_LIMIT
          Caps, Costs,\* the caps people set, what the runner reports
          Free        \* held by nobody

Openers == Beats \cup Askers
Spends == BankAgents \X (1..MaxRuns)   \* a run is its agent and its number

\* A bank has finitely many agents; the lock names a transaction, an event's run or nobody.
ASSUME SpendAssumption ==
  /\ Limit \in Nat /\ MaxRuns \in Nat /\ Caps \subseteq Nat /\ Costs \subseteq Nat
  /\ Beats \cap Askers = {} /\ Free \notin Beats \cup Askers
  /\ Spends \cap (Openers \cup {Free}) = {}
  /\ IsFiniteSet(BankAgents)

VARIABLES cap, aiOn,
          bankAgent, \* paused, and due: next_run_at has come
          spending,  \* the run rows: status and cost
          opening,   \* transactions that open runs
          report,    \* the runner's event being applied to each run
          budgeting, \* put_budget's transaction
          spendLock, \* SPEND_LOCK
          peak,      \* history: the highest cap there has been
          disturbed  \* history: events in whose window a cap or a closing cost was committed

rows == <<cap, aiOn, bankAgent, spending>>
spendVars == <<rows, opening, report, budgeting, spendLock, peak, disturbed>>

NoOpening == [on |-> FALSE, rows |-> {}, todo |-> {}, start |-> {}, stop |-> {}]
NoReport == [at |-> "none", cost |-> 0, paused |-> FALSE, over |-> FALSE]
NoBudgeting == [on |-> FALSE, cap |-> 0, stop |-> {}]

Unopened == [status |-> "none", cost |-> 0]
Running(r) == spending[r].status = "running"
RowLocked(a) == \E b \in Beats : a \in opening[b].rows
RunRowFree(r) == report[r] = NoReport

SpendInit ==
  /\ cap \in Caps /\ aiOn = TRUE /\ peak = cap
  /\ bankAgent = [a \in BankAgents |-> [paused |-> FALSE, due |-> TRUE]]
  /\ spending = [r \in Spends |-> Unopened]
  /\ opening = [o \in Openers |-> NoOpening]
  /\ report = [r \in Spends |-> NoReport]
  /\ budgeting = NoBudgeting
  /\ spendLock = Free /\ disturbed = {}

-----------------------------------------------------------------------------
(* What is spent and what is promised (budget.py). *)
Spent == MapThenSumSet(LAMBDA r : spending[r].cost, Spends)
Larger(m, n) == IF m > n THEN m ELSE n
Promise(r) == IF Running(r) THEN Larger(spending[r].cost, Limit) ELSE spending[r].cost
Held == MapThenSumSet(Promise, Spends)

\* mutant: the spend is read before the event's own cost is saved
SpentBefore(r) == Spent
\* What a transaction reads: committed rows and its own.
SpentWith(r) == Spent - spending[r].cost + report[r].cost
Fits(o) == Held + Limit * (Cardinality(opening[o].start) + 1) <= cap

\* mutant: the lock is not waited for
LockIgnored(who) == TRUE
LockGranted(who) == spendLock \in {Free, who}
Release(who) == spendLock' = IF spendLock = who THEN Free ELSE spendLock

-----------------------------------------------------------------------------
(* Opening runs (tasks.py). *)
Asked(a) == Cardinality({o \in Openers : a \in opening[o].todo \cup opening[o].start})
Used(a) == Cardinality({n \in 1..MaxRuns : spending[<<a, n>>] # Unopened})
WithinBound(a) == Used(a) + Asked(a) < MaxRuns

\* mutant: a beat takes agents another holds
EveryDue == {a \in BankAgents : bankAgent[a].due /\ ~bankAgent[a].paused}
DueAndFree == {a \in BankAgents : bankAgent[a].due /\ ~bankAgent[a].paused /\ ~RowLocked(a)}

\* run_due_tenant_agents: select_for_update(skip_locked), then each agent's slot is moved
BeginBeat(b) ==
  /\ opening[b] = NoOpening /\ DueAndFree # {}
  /\ \A a \in DueAndFree : WithinBound(a)
  /\ opening' = [opening EXCEPT ![b] =
       [NoOpening EXCEPT !.on = TRUE, !.rows = DueAndFree, !.todo = DueAndFree]]
  /\ UNCHANGED <<rows, report, budgeting, spendLock, peak, disturbed>>

\* run_now and create_request: refuse_stopped on an agent read without a lock
BeginAsk(p, a) ==
  /\ opening[p] = NoOpening /\ ~bankAgent[a].paused /\ WithinBound(a)
  /\ opening' = [opening EXCEPT ![p] = [NoOpening EXCEPT !.on = TRUE, !.todo = {a}]]
  /\ UNCHANGED <<rows, report, budgeting, spendLock, peak, disturbed>>

\* open_tenant_run: the switch, the cap under the spend lock, and the hand-over, which
\* the runner may refuse.  What does not fit is paused by a beat and refused to a person.
OpenTenantRun(o, a) ==
  LET left == [opening[o] EXCEPT !.todo = @ \ {a}]
  IN  /\ a \in opening[o].todo
      /\ IF ~aiOn
         THEN /\ opening' = [opening EXCEPT ![o] = left] /\ UNCHANGED spendLock
         ELSE /\ LockGranted(o) /\ spendLock' = o
              /\ \E answer \in {left, [left EXCEPT !.start = @ \cup {a}]} :
                   opening' = [opening EXCEPT ![o] =
                     IF Fits(o) THEN answer
                     ELSE [left EXCEPT !.stop = @ \cup (IF o \in Beats THEN {a} ELSE {})]]
      /\ UNCHANGED <<rows, report, budgeting, peak, disturbed>>

NextNumber(a) == CHOOSE n \in 1..MaxRuns : spending[<<a, n>>] = Unopened /\ Used(a) = n - 1

CommitOpening(o) ==
  /\ opening[o].on /\ opening[o].todo = {}
  /\ spending' = [r \in Spends |->
       IF r[1] \in opening[o].start /\ r[2] = NextNumber(r[1])
       THEN [Unopened EXCEPT !.status = "running"] ELSE spending[r]]
  /\ bankAgent' = [a \in BankAgents |->
       IF a \notin opening[o].rows THEN bankAgent[a]
       ELSE [paused |-> a \in opening[o].stop, due |-> FALSE]]
  /\ opening' = [opening EXCEPT ![o] = NoOpening]
  /\ Release(o)
  /\ UNCHANGED <<cap, aiOn, report, budgeting, peak, disturbed>>

-----------------------------------------------------------------------------
(* The runner's events (runner_events.py). *)
Reported(r, c) == Running(r) /\ RunRowFree(r) /\ c >= spending[r].cost

\* apply_event of a run that goes on: the row is locked and its cost saved; the agent is
\* read as it is now
BeginReport(r, c) ==
  /\ Reported(r, c)
  /\ report' = [report EXCEPT ![r] =
       [at |-> "saved", cost |-> c, paused |-> bankAgent[r[1]].paused, over |-> FALSE]]
  /\ UNCHANGED <<rows, opening, budgeting, spendLock, peak, disturbed>>

\* _hold_to_the_cap
HoldToTheCap(r) ==
  /\ report[r].at = "saved"
  /\ IF ~aiOn
     THEN /\ report' = [report EXCEPT ![r].at = "off"] /\ UNCHANGED spendLock
     ELSE /\ LockGranted(r) /\ spendLock' = r
          /\ report' = [report EXCEPT ![r].at = "held", ![r].over = SpentWith(r) > cap]
  /\ disturbed' = disturbed \ {r}
  /\ UNCHANGED <<rows, opening, budgeting, peak>>

Reading == {r \in Spends : report[r].at = "held"}
MustPause(r) == report[r].over /\ ~report[r].paused

CommitReport(r) ==
  /\ report[r].at \in {"off", "held"}
  /\ MustPause(r) => ~RowLocked(r[1])
  /\ spending' = [spending EXCEPT ![r] =
       [status |-> IF report[r].over \/ report[r].at = "off" THEN "closed" ELSE "running",
        cost |-> report[r].cost]]
  /\ bankAgent' = IF MustPause(r) THEN [bankAgent EXCEPT ![r[1]] = [paused |-> TRUE, due |-> FALSE]]
                  ELSE bankAgent
  /\ report' = [report EXCEPT ![r] = NoReport]
  /\ Release(r)
  /\ disturbed' = IF report[r].at = "off" THEN disturbed \cup Reading ELSE disturbed
  /\ UNCHANGED <<cap, aiOn, opening, budgeting, peak>>

\* apply_event that closes its run: no cap is looked at
ClosingReport(r, c) ==
  /\ Reported(r, c)
  /\ spending' = [spending EXCEPT ![r] = [status |-> "closed", cost |-> c]]
  /\ disturbed' = disturbed \cup Reading
  /\ UNCHANGED <<cap, aiOn, bankAgent, opening, report, budgeting, spendLock, peak>>

\* control.interrupt
Interrupt(r) ==
  /\ Running(r) /\ RunRowFree(r)
  /\ spending' = [spending EXCEPT ![r].status = "closed"]
  /\ UNCHANGED <<cap, aiOn, bankAgent, opening, report, budgeting, spendLock, peak, disturbed>>

\* A beat holds an agent's row and waits for the spend lock, whose holder waits to pause
\* that agent: the database aborts one of the two.
BreakDeadlock(b, r) ==
  /\ opening[b].todo # {} /\ spendLock = r
  /\ MustPause(r) /\ r[1] \in opening[b].rows
  /\ \/ /\ opening' = [opening EXCEPT ![b] = NoOpening] /\ UNCHANGED <<report, spendLock>>
     \/ /\ report' = [report EXCEPT ![r] = NoReport] /\ spendLock' = Free /\ UNCHANGED opening
  /\ UNCHANGED <<rows, budgeting, peak, disturbed>>

-----------------------------------------------------------------------------
(* The cap, the pause and the switch. *)
\* put_budget: its own lock is another key, so it waits for no reader of the spend
BeginBudget(c) ==
  /\ budgeting = NoBudgeting
  /\ budgeting' = [on |-> TRUE, cap |-> c,
                   stop |-> IF Spent >= c THEN {a \in BankAgents : ~bankAgent[a].paused} ELSE {}]
  /\ UNCHANGED <<rows, opening, report, spendLock, peak, disturbed>>
CommitBudget ==
  /\ budgeting.on /\ \A a \in budgeting.stop : ~RowLocked(a)
  /\ cap' = budgeting.cap /\ peak' = Larger(peak, budgeting.cap)
  /\ bankAgent' = [a \in BankAgents |->
       IF a \in budgeting.stop THEN [paused |-> TRUE, due |-> FALSE] ELSE bankAgent[a]]
  /\ budgeting' = NoBudgeting
  /\ disturbed' = disturbed \cup Reading
  /\ UNCHANGED <<aiOn, spending, opening, report, spendLock>>

\* control.pause and control.resume
Pause(a) ==
  /\ ~bankAgent[a].paused /\ ~RowLocked(a)
  /\ bankAgent' = [bankAgent EXCEPT ![a] = [paused |-> TRUE, due |-> FALSE]]
  /\ UNCHANGED <<cap, aiOn, spending, opening, report, budgeting, spendLock, peak, disturbed>>
Resume(a) ==
  /\ bankAgent[a].paused
  /\ bankAgent' = [bankAgent EXCEPT ![a].paused = FALSE]
  /\ UNCHANGED <<cap, aiOn, spending, opening, report, budgeting, spendLock, peak, disturbed>>

\* Time passes: next_run_at is reached.
FallDue(a) ==
  /\ ~bankAgent[a].paused /\ ~bankAgent[a].due
  /\ bankAgent' = [bankAgent EXCEPT ![a].due = TRUE]
  /\ UNCHANGED <<cap, aiOn, spending, opening, report, budgeting, spendLock, peak, disturbed>>

SwitchAi ==
  /\ aiOn' = ~aiOn
  /\ UNCHANGED <<cap, bankAgent, spending, opening, report, budgeting, spendLock, peak, disturbed>>

SpendNext ==
  \/ \E b \in Beats : BeginBeat(b) \/ \E r \in Spends : BreakDeadlock(b, r)
  \/ \E p \in Askers, a \in BankAgents : BeginAsk(p, a)
  \/ \E o \in Openers : CommitOpening(o) \/ \E a \in BankAgents : OpenTenantRun(o, a)
  \/ \E r \in Spends :
       \/ HoldToTheCap(r) \/ CommitReport(r) \/ Interrupt(r)
       \/ \E c \in Costs : BeginReport(r, c) \/ ClosingReport(r, c)
  \/ \E c \in Caps : BeginBudget(c)
  \/ CommitBudget
  \/ \E a \in BankAgents : Pause(a) \/ Resume(a) \/ FallDue(a)
  \/ SwitchAi

SpendSpec == SpendInit /\ [][SpendNext]_spendVars
-----------------------------------------------------------------------------
SpendTypeOK ==
  /\ cap \in Caps /\ peak \in Caps /\ aiOn \in BOOLEAN
  /\ bankAgent \in [BankAgents -> [paused : BOOLEAN, due : BOOLEAN]]
  /\ spending \in [Spends -> [status : {"none", "running", "closed"}, cost : Costs \cup {0}]]
  /\ \A o \in Openers : opening[o].todo \cup opening[o].start \cup opening[o].stop \subseteq BankAgents
  /\ spendLock \in Openers \cup Spends \cup {Free}
  /\ disturbed \subseteq Spends

\* "a beat, a run now and a research request cannot both take the last of it"
\* (fits_the_cap): while every run keeps its limit, what open runs may still cost and
\* closed ones did cost never passes a cap the bank has set.
PromisesFitTheCap == (\A r \in Spends : spending[r].cost <= Limit) => Held <= peak

\* A run that goes on after its report leaves the bank within its cap: of two reports
\* that pass it together, the later one sees the other's cost (_hold_to_the_cap).  A cap
\* lowered, or a run closed, between its look and its commit is seen by the next report.
OverspendIsCaught ==
  [][\A r \in Spends \ disturbed :
       Reading \ Reading' = {r} /\ Running(r)' /\ spending'[r] # spending[r] => Spent' <= cap]_spendVars

\* "a slot is taken once whatever happens to the run" (take_slot): a beat opens a run only
\* for an agent that is unpaused and whose slot no other beat has spent, at the moment it
\* commits.
OneRunPerSlot ==
  [][\A b \in Beats, a \in BankAgents :
       opening[b].on /\ ~opening'[b].on /\ a \in opening[b].start /\ spending' # spending =>
         bankAgent[a].due /\ ~bankAgent[a].paused]_spendVars
=============================================================================
