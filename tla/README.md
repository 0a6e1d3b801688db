# A TLA+ development of Compliance Watch

Compliance Watch (`src/README.md`) is a Django service for banks. Research agents watch
regulators and file proposals; platform reviewers decide them, and an approval writes the
shared library; each registered change becomes a *case* in every bank, which people triage,
assess, work and sign off. This directory holds TLA+ models of the parts where two people,
two workers, a retry or a crash can meet, TLC configurations that check them on small
instances, and TLAPS proofs of the results that matter most for every instance. Paths
below are under `src/backend/` unless they start with `docs/` or `frontend/`.

To check: `tlc -config MCBackgroundJobs.cfg MCBackgroundJobs.tla` (any `MC*.cfg` with the
module [§4](#4-runs-and-bounds) gives), `tlapm Outbox_proofs.tla` (any `*_proofs.tla`).

Contents: [1 What the system promises its parts](#1-what-every-component-rests-on) ·
[2 Inventory](#2-inventory) · [3 Modules](#3-modules-and-the-code) · [4 Runs](#4-runs-and-bounds) ·
[5 Fairness](#5-fairness) · [6 Proofs](#6-proofs) · [7 Disagreements found](#7-where-the-code-and-its-documents-disagree) ·
[8 Not modelled](#8-what-is-not-modelled-and-why) · [9 Plan](#9-plan)

## 1 What every component rests on

- **One request is one transaction** (`config/settings.py`, `ATOMIC_REQUESTS`), under
  PostgreSQL's READ COMMITTED: each statement sees what was committed when it began. A
  handler that raises leaves nothing behind. So a handler that locks the one row it decides
  by *before* it reads it is an atomic step; one that reads without a lock is two steps, and
  the models split exactly those.
- **Locks** are row locks, `select_for_update`, held until the transaction ends. A plain
  `UPDATE` waits for them as well.
- **Optimistic versions.** A person's write to a case names the version they read
  (`If-Match`, `cases/logic.check_version`). The models keep what each person last read.
- **Audit and outbox in the same transaction.** `shared/audit.record` writes the audit row
  and, for events somebody listens to, an `outbox_event` row. One ordered cursor
  (`shared/outbox.py`), started by Celery beat every few seconds on any worker, delivers
  those rows to handlers: it creates cases, re-decides footprint verdicts, carries a drafted
  "So what?" to the banks and notifies people.
- **Tasks** are delivered at least once (`CELERY_TASK_ACKS_LATE`), may run twice at the same
  time, and are queued by `transaction.on_commit` callbacks, which are lost if the process
  dies between the commit and the callback.
- **Object storage** is outside every transaction.
- **Tenancy** is row-level security: a transaction sees the library and its own bank's rows
  (a *zone*). The models take this as given.

## 2 Inventory

| Component | State | Operations and interactions | What makes it correct, and what is hard |
|---|---|---|---|
| `cases` | one `change_case` per bank and change, its impact assessment, actions, evidence, sign-off names, cached footprint verdict, "So what?" copy | triage, dismiss, restore, close, assess, plan and do actions, attach and remove evidence, ask for, give and send back a sign-off; created and re-decided by the outbox; evidence scanned by a task | no lost update between people; four eyes on planned work; what is signed off is what was asked; verdicts follow the scope; **stale copies, scans that answer late, redelivery** |
| `shared` outbox | `outbox_event` rows, one cursor row | write with the recorded transaction; deliver in batches with savepoints, attempts and a back-off | exactly one effect for each row, in order, none forgotten; **late commits, crashes, poison rows** |
| `shared`, the rest | audit trail, storage, adapters | used by everything | append-only audit; tenancy |
| `taxonomy` footprint | dimensions, terms, each bank's footprint and its change requests | decide whether a record is in scope, in Python and in SQL; ask for, approve, reject, withdraw a scope change | the two rules agree; a second person decides; verdicts are recomputed; **preview against approval** |
| `taxonomy` vocabularies | library and tenant lists | label, retire, merge | a merge leaves no row on the merged value; **writers during the merge** |
| `identity` sessions | session row: current and previous refresh hash, limits, revocation | refresh, replay within a grace window, sign out, revoke | no revived session, stolen secrets end it, tabs keep working; **unlocked read, then save** |
| `identity` members, roles | memberships, roles, what a role grants | remove with or without a hand-over, change roles, edit a role, rejoin | always an administrator; no open work without an active owner; **checks on unlocked reads** |
| `identity` enrolment, keys | invitations, e-mailed codes, enrolment sessions, passkeys, API keys | invite, accept, guess a code, register and remove a passkey, enrol again | a code's attempts are bounded and open one session; the last passkey stays; **two guesses, two removals, one against a new enrolment** |
| `proposals` | proposals, batch rows and their decisions | file, decide, decide batch rows | decided once, by an independent reviewer, applied with the decision and as previewed; **two decisions, two approvals on one obligation, a stale preview** |
| `library` | instruments, obligations, versions, scopes, provisions | written only by approvals; read as of a date | versions without gaps, append-only |
| `watch` | sources, changes, facts, links, drafts | register under a stable key, correct, confirm | one change for one reform; a confirmation is of what was read |
| `agents` | definitions, runs with their budgets, the bank's monthly cap, its own agents and their slots | beats, people and API keys open runs; the runner reports cost; a run files and is closed; pause, cap and switch | no filing beyond the budget or after the close; open runs fit under the cap; one run for a slot or a period; **overlapping beats, reports that pass a cap together, retried calls** |
| `register` | a bank's answer for each obligation, legal entity and unit, duty occurrences, risk acceptances | answer alone and in bulk, complete an occurrence, accept a risk by two people | an answer lands on the version it names; one open occurrence of a duty; **rows that the first answer creates, the lock order of bulk answers** |
| `collab` | comments, participants, notifications, mail rows | reminders, escalation, digests and mails by tasks | nobody told twice; **rounds that overlap, come again or run past midnight** |
| `tenants` | profile, organisation, policy, support grants, look-up jobs | grant and end support access; run look-ups | no support access after its end |
| `home`, `search`, `reports`, `integrations`, `governance` | snapshots, index, export jobs, MCP tools, problem reports | reads over the rest, and queued jobs | a job ends; reads respect the zone |
| `billing` | – | a stub | – |
| `frontend` | browser state | several tabs over one cookie, copies with versions | seen from the backend by its requests |

`PROJECT.json` lists the same components with their source files, and the hazards at their
lines.

## 3 Modules and the code

| Module | Models | Granularity |
|---|---|---|
| `FourEyes` | what every four-eyes control promises: ask, take back, decide by another person, material frozen while asked and after | abstract specification |
| `CaseWorkflow` | `cases/state`, `logic`, `triage`, `assessment`, `actions`, `evidence`, `signoff` | one handler, one step, under the case's lock |
| `Outbox` | `shared/outbox.deliver_batch` and the writers | one read, one row, one commit |
| `FootprintRule` | `taxonomy/matching.py` and the SQL functions of `taxonomy` migration 0008 | pure operators |
| `CaseFootprint` | `cases/creation.py`, `cases/matching.py`, driven by footprint approvals, scope edits, dismissals and restores | one bank visited, one commit |
| `ScopeChange` | `taxonomy/footprint_logic.py`: requests to change the bank's scope | validate, insert; lock, count, decide |
| `SoWhat` | `cases/so_what.py`, `watch/so_what_draft.py` | read, write |
| `Members` | `identity/members_logic`, `roles_logic`, `tenants/reassignment`, `cases/actions` owner writes | reads with locks, commit |
| `Enrolment` | `identity/invitation_logic`, `code_logic`, `passkey_logic` | read, claim or lock, commit |
| `RefreshSession` | `identity/session_logic.refresh`, `sign_out`, `revoke_all` | read, answer, receipt |
| `EvidenceScan` | `cases/evidence.py`, `cases/tasks.py` | storage and database steps apart |
| `Jobs` | `reports/jobs`, `reports/tasks`, `tenants/registers_jobs`: an export and a register look-up as queued jobs | delivery, row lock, build, file, commit |
| `Proposals` | `proposals/logic`, `apply`, `batch` for two kinds | lock and judge, lock and read, write |
| `RunLedger` | what an agent run promises its readers: filings up to a limit while open, one close with their number | abstract specification |
| `AgentRuns` | `agents/runs.py`, `watch/registration.py`: runs over the API | read with the run's lock, commit |
| `AgentSpend` | `agents/budget`, `tasks`, `control`, `runner_events`: a bank's monthly cap | every lock and read apart |
| `AgentBeat` | `agents/tasks.run_platform_agents` | plan, claim, open |
| `Register` | `register/applicability`, `logic`, `duties` | lock, check, insert, lock again, commit |
| `Reminders` | `collab/reminders`, `escalation`, `tasks` | one round's reads, its commit; row lock, relay, record |

`MC*.tla` instantiates the modules it names. `*_proofs.tla` holds the theorems about the modules it
extends: its namesake, or (`BackgroundJobs`, `Agents`, `SignIn`) those of the run of that name;
`FootprintRule_proofs` has `CaseFootprint` too, `ScopeAndRegister_proofs` the three of `scope_change` and
`register_and_reminders`. Next to an
operator, a definition commented `mutant:` is the same operator as a plausible bug would
leave it. It is not part of the specification; it documents which property catches that bug.

Four MC modules (`MCBackgroundJobs`, `MCAgents`, `MCSignIn`, `MCRegisterReminders`) check several
components in one run. Those components share no row, lock or message, so a product of them
would only multiply states: the MC module has one variable more, `part`, chosen at the start, and
a behaviour takes the steps of that part alone. What the run says of a component is what a run
of its own would say. Components that do interact share a module (`CaseFootprint` has cases,
cursor and scope; `Members` roles and work; `AgentSpend` beats, people, runner and cap).

**CaseWorkflow.** `status`, `version`, `owner`, `requester`, `signedOffBy`, `closeReason` are
the case row; `assessment`, `actions`, `evidence` its children; `lastMove` is the last status
row of the timeline. `Edges` and `GuardsHold` are `state.TRANSITIONS` and its guards, and
`Transition` is `logic.transition`. All handlers start with `load_case(for_update=True)`, so
each is atomic; a person's `copy` is what they read last, and a write that names a stale
version is no step. Attaching or removing evidence and the scanner's verdict name no version
and raise none, as in the code. `asked`/`askedAt` are history variables: the file and version
of the standing request. The case's labels (a bank's own names for a status category),
participants, priorities and notes are left out: no guard reads them.

**FourEyes as CaseWorkflow's abstraction.** `SignoffAsFourEyes` maps the asker to
`requester`, the decider to `signedOffBy`, the material to the live actions and evidence.
Everything before a request is `Work`; sending back is `TakeBack`.

**Outbox.** Rows are numbered in `(created, id)` order, and writers commit in any order, so a
row may appear behind rows already delivered. `BeginBatch` takes the cursor (`skip_locked`) and
respects the back-off; `ScanZone` is one zone's query, `DeliverRow` and `RowFails` one row's
savepoint, `FinishBatch` the commit with `_mark_published`. What a batch has done is in
`todo`, `done`, `failed` until then, and `Crash` throws it away, counted attempts included.
What a handler does is one counter, `applied`; `CaseFootprint` and `SoWhat` open two handlers up.

**CaseFootprint** uses of `Outbox` only what is shown there: one batch at a time, a batch
commits or vanishes, each event takes effect once. It lets a batch handle events in any
order, which includes the cursor's. A handler reads what is committed when it runs; the
change's facts are read once for all banks at the creation (`facts`), and each bank's
footprint when that bank is reached. An `UPDATE` of a case locks it (`draft`), and dismissing
or restoring waits.

**SoWhat.** Saving and confirming read the case without a lock and write every column of the
wording afterwards. Those are `BeginSave`/`BeginConfirm` and `Write`. The cursor's transaction
writes through a lock, so `Write` waits for it.

**Members.** A request's reads are kept in `request` until it commits. Only
`BeginRemove` locks the membership and the open items; the last-administrator count and the
"active owner" check are unlocked reads. `since` records how much the request has missed.

**EvidenceScan.** The upload writes bytes before the row commits, and the scan is queued after
(`CommitUploadUnqueued` is the process dying between the two). A delivery may be repeated when
a worker is slow or dies; `Decide` re-reads the row under its lock; the bytes of an infected
file are deleted after that commit.

**RefreshSession.** Secrets are numbered as they are drawn. A tab's request is sent with the
cookie of that moment, read, answered and received in four steps, so responses overtake each
other. Time is three events: the grace window closes (`GraceRunsOut`), `expires_at` passes (`Expire`), and a
limit lowered since, the idle limit or the support grant ends the session (`SessionRunsOut`). A refresh that
finds the session revoked or expired (`SessionLive`, the code's `_live`) is refused at its read and changes
nothing; the limits are looked at when it answers, and revoke. A rotation never moves `expires_at` later,
so `expired` is never taken back. A sign-out asks only whether the session is revoked.

**Proposals.** Two kinds stand for the rest: an obligation version (one decision, may replace
the scope) and a re-tag batch (a decision for each row, over several calls). A decision is three
steps because two row locks are taken in turn and READ COMMITTED lets other decisions commit
in between. A version's filing is one step: it reads the obligation only to check that it exists.
A batch reads the obligations' scopes for its previews and then inserts; the insert commits
nothing anybody else reads, so the two are one step at the moment of the read. An agent's
key may reject a `Flagged` proposal but not approve it; `asker` is the person whose request
opened the agent run.

**ScopeChange.** Asking validates before it inserts, so a request may rest on a scope that moved
in between; deciding waits for the request's row and then reads everything again. A change adds
and removes terms, one scope item and one company's line. The history is a sequence of
added/removed for each of them. `preview` is what is stored with a request: the counts when sent,
replaced by those of the decision. No lock holds what a preview counts: `Move` lets an obligation be
published or withdrawn, or a case open or close, between any two steps, and a decision counts (`Count`)
before it writes (`Approve`, `TurnDown`). `stood` remembers what was listed while a decider held the row and
had not counted. The records of an instance are of one kind; obligations and cases are counted alike, by a
query each. A request's version is left out, because the status decides all that `If-Match` could refuse.
A term may be retired after the count, as in the code. Each request is a `FourEyes` of its own (`Eyes(r)`),
its material the scope the decision was taken on.

**Enrolment.** `code` has the counted attempts, `call` what a request has read and locked. The
attempt is claimed by one conditional `UPDATE`; a removal locks the passkeys it counts, all
together; nothing locks the invitation, so a registration closes the invitation it saw when it
began. Only an invitation whose membership exists (`member`) can be issued again, whatever the membership's
status is. The expiry of a code and of an enrolment session is left out; one registration per session at a time.

**AgentRuns and RunLedger.** A call that names a run holds its row; opening a run and a reform's
stable key rest on unique constraints. `RunsAreLedgers` maps a run's status, the changes that name
it and its stored count to `RunLedger`: filing after the close or past the limit would be no step of it.

**AgentSpend.** Whoever opens a run takes `SPEND_LOCK` before adding up; the runner's report writes
the cost first and takes the lock after; closing reports, a pause and a new cap never take it.
A beat that holds agents' rows may wait for the spend lock while its holder waits for such a row:
the database ends one of them (`BreakDeadlock`). `put_budget` takes a lock with another key, so a
report may still judge by the old cap. Left out: month change, plan limits on research requests,
runs that fail to start.

**AgentBeat.** A beat plans outside any transaction and takes its agents one by one, each claimed
by an advisory lock and read again. The order is PostgreSQL's: an agent that never ran sorts last.
All agents have one cadence. Each claimed agent gets its run: `definitions.retire_version` refuses
(`last_version`) to retire the last published version of an active agent, and one without version rows runs as
it is, so the branch of the beat for an agent with nothing to run is not reached.

**Register.** A call locks the entries it finds, checks `If-Match` on those, inserts what it did
not find, locks what another call inserted first, and writes. `entryLock` is the lock or the
uncommitted insert. Two bulk answers may wait for each other (`RollBack`). A duty approved after
"applies" was answered starts at the next such answer. Units of a Statement of Applicability are left out.

**Jobs.** The message is acknowledged when its task ends, well or not, and comes again when a
worker dies or is slow. The row's lock is held while the job is built; the export's file is
written before the commit, under a key fixed by the job, and no rollback undoes it. What is built is
the version of the data read. Applying a look-up and the nightly recheck are left out.

**Reminders.** One action of one bank. A round (reminders, escalations) reads under its advisory
lock and commits later; the mails' messages follow the commit and may be lost there. A mail's row
is locked while the relay takes it; a worker that dies then has sent a mail nobody recorded. Messages
come twice and late, and what a round or a mail calls today is the clock's day. Delegates, muted
kinds and people who left change who is told, not how often, and are left out; the people told for
one action are one here.

## 4 Runs and bounds

Each bound is a constant of the instance, named in the `.cfg`. Deadlock is checked except
where a bound or a final state ends the behaviour, which the `.cfg` then says.

| Run | Shows | Instance, and why it is enough |
|---|---|---|
| `case_workflow` | people writing from stale copies lose no assessment (`CurrentCopyHasTheAssessment`), approve only a request they read (`ApprovedAsRead`), sign off exactly the file asked for (`SignoffCoversTheRequest`), close planned work only by two (`PlannedWorkNeedsTwoPeople`), change nothing afterwards (`SignedOffIsFinal`); `ImplementsFourEyes` | 2 people with every permission, so only the workflow refuses; 1 action and 1 piece of evidence with limits of 1, so the limits bite; 9 case versions reach approval after one send-back and a second request |
| `case_footprint` | the Python and the SQL rule give each case the same verdict (`MirrorsAgree`), verdicts follow the scope (`VerdictsSettle`), no bank is forgotten (`EveryBankIsServed`) | 2 banks, one restricted at first and one not; 3 events: the registration and two moves; one lost batch |
| `case_restored` | *violated*: `OpenVerdictsAreCurrent` | the same instance |
| `proposals` | versions are the approvals, numbered in their order (`VersionsFollowApprovals`), a batch closes with its last row (`BatchClosesWithItsRows`), decisions are independent and final (`DecidedOnceByAnother`), what is applied is what the reviewer saw (`AppliedAsPreviewed`) | 2 people, 2 keys of one agent, so "same key", "same agent" and "same person" differ; 2 versions (one may set the scope, the other is flagged and does not) and a 2-row batch that meet on one obligation; 2 decisions in flight |
| `background_jobs` | *outbox*: `ExactlyOnce`, `DeliveredInOrder`, `EverythingSettles`; *scan*: the first verdict stands and readers find the bytes (`RedeliveriesDoNoHarm`), `QueuedFileIsDecided`, `InfectedBytesAreDeleted`; *jobs*: `FileIsWhatWasRecorded`, `QueuedJobEnds` | 4 rows in 2 zones, one always failing, one sometimes, batches of 2 so that a zone's rows need two, 2 attempts, 2 workers of which one dies once anywhere; 2 workers on one scan, 4 deliveries, 2 faults at any step, 1 retry; one export and one look-up, 3 deliveries, 2 faults, data that changes between two builds |
| `agents` | *So what?*: `UntouchedCopyIsCurrent`, `AgentsLeaveTheBanksWords`; *runs*: `RetriesFindTheirRun`, `RunsAreLedgers`; *spend*: `PromisesFitTheCap`, `OverspendIsCaught`, `OneRunPerSlot`; *beat*: `OneRunPerPeriod` | 2 people, 3 drafts (delivered, during a batch, after), 5 versions; 2 callers, 2 runs, 3 reforms for 2 places; 2 overlapping beats and a person, 2 agents with one run each, caps of one and two runs' limits, costs under and over a limit; 2 beats that start 2 of 3 agents each, over 3 periods |
| `sign_in` | *members*: `AloneKeepsTheBank`, `HandsOverWhatItLocked`; *session*: `GraceWindowHolds`, `RevokedStaysRevoked`; *enrolment*: `CodeIsGuessedInBounds`, `LastPasskeyStays` | 3 people so that leaver, heir and last administrator differ, each with one role or none at first, 2 requests at once, 2 commits; 3 tabs and 3 secrets: a response is still on its way while the others rotate twice; 3 invitations, 2 codes of 2 attempts, 2 passkeys, 2 requests at once |
| `members_last_admin` | *violated*: `KeepsOneAdmin` | without role edits, so the violation is the race and not the unchecked edit |
| `refresh_tabs` | *violated*: `TabsAreSafe` | 3 tabs and 3 secrets |
| `scope_change` | every request is a `FourEyes` (`EachIsFourEyes`), history replays to the scope (`HistoryRebuildsScope`), a decided request shows what its decision did to the records of that day (`DecidedOnTodaysCounts`) | 3 people and 3 requests over 3 terms, one retired meanwhile, one item and one line that come and go; 4 records with different terms, of which one appears while requests wait and are decided: it is one that each of the changes may hide or reveal |
| `register_and_reminders` | *register*: `OneOpenOccurrence`; *reminders*: `ToldOnce` | 2 officers, 2 obligations, one with a duty, one company, 2 days, versions up to 2; 2 workers, 2 days, 2 mishaps: an edit, a message that comes twice, a death, a refused mail |
| `register_stale` | *violated*: `AnswerLandsOnItsVersion` | the same officers, answering for the bank or the company |

Type invariants are written for the modules that need them in a proof or as a reader's guide
to their state, and are not run properties: they say nothing a safety property would not trip over.

Some properties carry a proviso that is the code's own:

- `AloneKeepsTheBank` speaks of a request that commits while its reads are still current. Without
  it the statement is false (`members_last_admin`).
- `GraceWindowHolds` keeps tabs in as long as no two rotations started from one secret (`refresh_tabs`).
- `QueuedFileIsDecided`, `InfectedBytesAreDeleted` and `QueuedJobEnds` except a task that ended in an
  exception, or died right between the verdict and the deletion; both are visible in the model's state.
- `PromisesFitTheCap` compares with the highest cap there has been (`peak`), because a lower cap
  takes nothing back from a running run, and supposes runs that keep their own limit.
- `OverspendIsCaught` excepts reports in whose window a cap was lowered or another run closed
  (`disturbed`); the next report sees those.
- `ToldOnce` counts the workers that died with a mail just taken: at-least-once delivery sends that mail again.

Symmetry is used where all properties of a run are safety or action properties: people
(`case_workflow`, `sign_in`, `proposals`, `scope_change`, `register_and_reminders`), requests, beats, agents and the keys
of one agent. In a sum of parts the same model values stand for the people of one part and the
tabs, officers or workers of another, which never occur in one behaviour. Runs with liveness have none.

## 5 Fairness

- `Outbox`: weak fairness of *some* worker taking a batch step and of the back-off passing.
  Beat starts `deliver_outbox` every `OUTBOX_POLL_INTERVAL_S`; no particular worker is assumed
  alive, and crashes are bounded. A handler that always kills its worker is outside: its attempt
  is rolled back with everything else and it would block the cursor.
- `CaseFootprint`: weak fairness of the cursor as a whole, which `EverythingSettles` justifies.
- `EvidenceScan`, `Jobs`: weak fairness of each worker's own next step. A repeated delivery, a
  crash and a failure are never fair.
- `MCBackgroundJobs` restates each part's fairness for the behaviours that run that part.
- People, agents, writers and browsers are assumed to do nothing. No run uses strong fairness.

## 6 Proofs

The theorems hold for all values of the constants that meet the modules' named assumptions. Those
say that values the code keeps apart are apart (`None` is no person, the free lock no officer or
beat, a proposal's principals are people or keys, terms, lines and requests are different
things), that bounds are natural numbers, that batches and attempts are positive, and that the rows
a model starts from are well formed (every row has a zone, every term a dimension). Five of them
carry a fact of the code:

- `ScopeChangeAssumption`: no change adds and removes one term; `_validate_change` refuses it.
- `RegisterAssumption`: the lock's value for "nobody" is no officer.
- `BeatAssumption`: the value of an unheld advisory lock is no beat.
- `RunsAssumption`: the reforms agents may file are finitely many (a run's count is a number of
  rows), and no client sends the model's "no key" as a retry key.
- `SpendAssumption`: a bank has finitely many agents, so what its runs cost is a finite sum; and the
  spend lock's holders (openers, events, nobody) are told apart.

The bounds of the instances (commits, deliveries, versions, faults) stay in the guards as constants, so
a theorem speaks of every bound at once.

Each proof has one step per action. None of the safety properties below that rests on more than one
step is inductive; what each needs is a named part of the module's invariant. Those invariants
were checked by TLC on the instances of section 4 before they were proved.

**Induction.** A sum over a set is a fold, and how it changes with one entry is an induction over the
set. `Agents_proofs` proves what it needs by minimal counterexample: the strict subsets of a finite
set are well founded, so a family of subsets that holds the empty set and is closed under adding an
element is all of them (`SubsetInduction`, stated of the family as a set, since the provers cannot
instantiate an operator). `SumTableExists`, `SumIsMonotone` and `SumAfterOneChange` follow.

**CaseWorkflow_proofs.** `TypeCorrect` goes handler by handler. From a closed case with a requester
but no request behind it, or work under way without a saved assessment, one step breaks the sign-off
properties. `SignoffInv` adds the two facts that exclude such states: a request stands exactly while
sign-off is awaited or was given (`RequestStands`), and no case is implemented before its
assessment is saved (`WorkIsAssessed`). `CopyInv` says that no copy, and no standing request, is
ahead of the case's version; a copy level with the case was then read since the last raising
write. `SignedOffForGood` follows from `SignoffInv`: a signed-off case has no edge out, and each
child's write looks at the category under the lock. `SignoffRefinesFourEyes` maps each step to `Work`, `Ask`,
`TakeBack`, `Decide` or a stutter of `FourEyes`.

**Outbox_proofs.** A worker inside a batch holds the cursor's lock and so is alone; what it read stays
pending until it commits (`JobsHold`); so the commit marks rows that had no effect yet. `InOrder` adds what a
batch knows of the rows that waited when it began (`OrderInv`): while it reads its zones, each waiting row
of a zone already read is in hand or behind a full batch (`ReadSoFar`); once it delivers, what is
older than a row in hand or delivered is in hand, delivered or given up (`NothingPassed`).

**FootprintRule_proofs.** `Mirror`: the Python rule quantifies over dimensions, the SQL rule over
guarded terms; `GuardedTerm` and `AdmitsPerDimension` translate one into the other. `HalvesAgree`
carries that to every reachable state of `CaseFootprint`. `VerdictsCatchUp` needs the events: an
out-of-date verdict or missing case has an undelivered event that will visit its bank
(`VerdictsFollow`, `CasesFollowRegistration`), also while a batch has drafts it may yet lose, and the
facts a creation reads once are current unless an event for every bank is still to come (`FactsAreFresh`).

**BackgroundJobs_proofs.** *Scan*: a deletion is under way only on an infected row, a download reads only
on a clean one, and no verdict is replaced, so both stay true whoever dies. *Jobs*: one task at most is past
a job's lock and its job is still queued (`OneTaskInside`, `InsideIsQueued`); once it has written the
file, the file is what it built (`WrittenIsTheFile`), and nobody else can write it until the commit.
*Nothing is forgotten*: the safety half of `QueuedFileIsDecided`, `InfectedBytesAreDeleted` and
`QueuedJobEnds`, without fairness. What was delivered is in the broker, with a task, decided, or one whose task
raised (`ScansAreNotDropped`, `JobsAreNotDropped`), since the message goes back when its worker dies.

**ScopeAndRegister_proofs.** *Reminders*: a round that found somebody to tell is the only one of its
kind, and what it is about to write is still missing (`StillOwed`); a mail's row is held from before the
relay takes it, so a mail taken and not recorded is one a worker died with (`TakenIsTold`). *Scope*: one
request waits and whoever decides it is alone and finds it pending (`OneWaits`, `DecidersHold`, `OneDecides`); a
thing is named once by a change (`ChangesAreUnmixed`), so the ledger gets one line for what moved; a decision that
has counted holds the counts of a list that stood while it held the row, over the scope as it still is
(`CountsAreTimely`), so what it writes is what it does. *Register*: calls hold the
entries they write (`HoldsItsEntries`), a series a call is about to start is still not started (`StartsOnce`), and a
series has one open date past all that is done, or is not begun or over (`OneSeries`). *Versions*: a row
checked against the version its call names is held and stays at that version until the call ends
(`CheckedVersionsStand`), so `AnswerLandsOnItsVersion`, false of the code, is true of every answer that
names the version of a row there is (`NamedVersionsAreOverwritten`): finding 4 is version 0 and nothing else.

**Proposals_proofs.** Whoever holds a proposal may still decide it (`Held`), and whoever is about to
write has read the obligations as they still are, under locks nobody else writes through
(`Locked`). With that, an approval adds one version with the next number (`Numbered`, `OneVersionEach`),
a settled row and its batch move together (`BatchClosesWithItsRows`), and a decision made stays
(`DecisionsStand`).

**Agents_proofs.** *So what?*: a copy behind the library has a draft to come or in the batch
(`NewsIsOnItsWay`), and a batch that has written found the copy unconfirmed and holds its row (`BatchIsSound`). *Runs*: a call that
names a run holds its row and what it has read of it is still so (`RowsAreLocked`, `CallsAreFresh`);
a retry key once answered is on one run (`KeysAreTaken`). *Slots*: beats hold different agents'
rows, and a held agent is due and unpaused (`HeldAreDue`). *Beat*: the agent a beat has claimed and
found due has no run in this period, though the beat may have begun in an earlier one (`ClaimsAreDue`,
`RunsAreSeen`). *Cap*: whoever has looked at the month's total holds the spend lock until it commits
(`LookersHoldTheLock`). A run is held to its limit whatever it really cost (`KeptPromise`): at the limit
while it runs, then at its cost or the limit. Reports and closes can only lower that total, so only
an opening raises it, and what the lock's holder has started fits beside it (`StartsFit`). A look that found the
spend within the cap stays true until its commit, unless a closing report or a new cap overtakes
it (`LooksAreTrue`, which the property leaves out as `disturbed`).

**SignIn_proofs.** *Session*: nothing locks the row, so the invariant is about what each tab read: its
secret is no newer than the row it saw, whose two secrets follow each other unless two rotations
started from one (`TabReads`, `SecretsInOrder`); so whoever a live session turns away sent a secret
older than both (`TabIsRefused`). Who is shut out at the read found it revoked or expired, which it stays. *Codes*: guesses are at most the attempts counted, which the conditional
update bounds (`GuessesAreCounted`); a code has one answer under way, and a used one opened one session
(`OneAnswerAtATime`). *Passkeys*: a removal about to commit holds a passkey that it
leaves, and no other removal holds that one (`PasskeysInv`). *Members*: as long as nobody has
committed since it read, what a request found still holds (`ReadsHold`, `CheckHolds`); what it locked holds whatever
others commit (`ItemsAreHeld`). `KeepsOneAdmin` is false of the code; `OneAtATimeKeepsAnAdmin` says what it
lacks: with role changes, deactivations and removals decided one at a time, and the bank's own role left as it is, a
check once passed would pass again until its commit, whatever else commits in between (`AdminInv`).

| Theorem | Property of a run |
|---|---|
| `SignoffCoverage` | `SignoffCoversTheRequest` |
| `PlannedWork` | `PlannedWorkNeedsTwoPeople` |
| `NoLostAssessment` | `CurrentCopyHasTheAssessment` |
| `ApprovalIsOfTheRequestRead` | `ApprovedAsRead` |
| `SignedOffForGood` | `SignedOffIsFinal` |
| `SignoffRefinesFourEyes` | `ImplementsFourEyes` |
| `DeliveredExactlyOnce` | `ExactlyOnce` |
| `InOrder` | `DeliveredInOrder` |
| `HalvesAgree` | `MirrorsAgree` |
| `VerdictsCatchUp` | `VerdictsSettle` |
| `FirstScanDecides` | `RedeliveriesDoNoHarm` |
| `ExportIsRecorded` | `FileIsWhatWasRecorded` |
| `PeopleAreToldOnce` | `ToldOnce` |
| `RequestsAreFourEyes` | `EachIsFourEyes` |
| `HistoryIsTheScope` | `HistoryRebuildsScope` |
| `DecisionsCountToday` | `DecidedOnTodaysCounts` |
| `OneDateIsOpen` | `OneOpenOccurrence` |
| `LibraryIsWhatWasApproved` | `VersionsFollowApprovals` |
| `BatchesClose` | `BatchClosesWithItsRows` |
| `DecisionsAreIndependentAndFinal` | `DecidedOnceByAnother` |
| `RowsAreAppliedAsPreviewed` | `AppliedAsPreviewed` |
| `CopiesCatchUp` | `UntouchedCopyIsCurrent` |
| `WordsAreTheBanks` | `AgentsLeaveTheBanksWords` |
| `OneRunPerKey` | `RetriesFindTheirRun` |
| `RunsKeepTheirLedgers` | `RunsAreLedgers` |
| `SlotsAreSpentOnce` | `OneRunPerSlot` |
| `OverlappingBeatsStartOne` | `OneRunPerPeriod` |
| `CapHoldsThePromises` | `PromisesFitTheCap` |
| `OverspendingRunsEnd` | `OverspendIsCaught` |
| `TabsKeepTheirSession` | `GraceWindowHolds` |
| `RevocationIsForGood` | `RevokedStaysRevoked` |
| `GuessesAreBounded` | `CodeIsGuessedInBounds` |
| `LastPasskeyIsKept` | `LastPasskeyStays` |
| `AloneTheBankIsKept` | `AloneKeepsTheBank` |
| `RemovalsHandOverWhatTheyLocked` | `HandsOverWhatItLocked` |
| `Mirror`, `WideningIsMonotone` | the rule behind `MirrorsAgree`, for every taxonomy |
| `ScansAreNotDropped`, `JobsAreNotDropped` | none: the safety half of three liveness properties |
| `CheckedVersionsStand`, `NamedVersionsAreOverwritten` | what is left of `AnswerLandsOnItsVersion` |
| `OneAtATimeKeepsAnAdmin` | `KeepsOneAdmin`, under a lock the code does not take |
| `FourEyesTheorem`, `TypeCorrect` (twice), and the `...Invariant` theorems | none: no signer is the requester; the types; the inductive invariants |

**Only model-checked.** `EverythingSettles`, `EveryBankIsServed`, `QueuedFileIsDecided`,
`InfectedBytesAreDeleted` and `QueuedJobEnds` are liveness, which needs fairness and `ENABLED` that the
prover does not handle. The properties of the four runs that expect a violation are false of the
code.

## 7 Where the code and its documents disagree

With a run that shows it:

1. **A restored case keeps an old verdict** (`case_restored`). `_recompute` skips cases set
   aside and `triage.restore_change` does not decide again, so an open case may keep a verdict the
   scope has left, though `cases/matching.py:13` says every open case is re-decided.
2. **The last administrator** (`members_last_admin`). Two overlapping removals or role
   changes each count the other's administrator (`members_logic.assert_not_last_admin` locks
   nothing), though the module says a tenant always keeps one.
3. **Two tabs refreshing at once** (`refresh_tabs`). Two refreshes that read the row together both
   rotate; the later save forgets the secret the other handed out, and if that response arrives
   last the browser is signed out, though `identity/api.py:558` says two tabs are safe.

4. **Two first answers** (`register_stale`). `If-Match` is checked on the entries a call could lock
   and missing ones are inserted afterwards. Of two calls that name version 0 the second waits for
   the first's insert and writes over it without a second look, though `_check_version` says the
   version is read under the row's lock.

Visible in the models, without a run of their own:

- `cases/so_what.py` `confirm_so_what` writes back the text it read: a colleague's save in
  between, or a newer draft, is overwritten by the older words (`SoWhat!Write`).
- `identity/roles_logic.update_role` may take `members.manage` from the only role that grants it,
  with no check (`Members!UpdateRole`).
- `members_logic.deactivate_member` and `reassignment` check owners with unlocked reads, so an
  item may be given to somebody a removal is taking out.
- Reopening a done action, or restoring a case, keeps an owner removed meanwhile (`Members!Reopen`).
- A worker that dies between an infected verdict and the deletion leaves the bytes for good, and a
  lost `scan_evidence` message leaves a file pending for good: no sweep looks for either.
- A dimension's rule edited by an approval (`proposals/apply.py`) moves verdicts and writes no
  event that recomputes them.
- A version that carries a scope replaces a re-tag approved since it was filed; the audit row
  holds both, and nothing promises otherwise.
- A scope item that another request took out between a removal's check and its insert gets a second
  "removed" row in the history (`ScopeChange!Switched`).
- `run_export` leaves a job queued after an exception "for a retry" that nobody makes: its message
  is acknowledged and no sweep looks for it (`Jobs!RaiseJob`).
- A mail the relay refused stays `failed`: "the next run tries that row again" (`collab/tasks.py`),
  but the next run of the day finds today's notification and is silent, and a later day has another row
  (`Reminders!Already`). `emailed_at` is stamped before the mail's message is queued, so it may
  name a mail that was never sent (`CommitRound`). A mail delivered after midnight takes the next
  day's row, and a reminder of that kind due that day is then skipped.
- `put_budget` and the runner's reports take different locks, so a cap lowered at the same time is
  not seen by a report under way (`AgentSpend`).
- All zones wait for one row's back-off; `shared/outbox.py` says so itself.

## 8 What is not modelled, and why

- **Within modelled components**: labels, notes, priorities, participants and the case file
  (data no guard reads); the text of a proposal, its rejection reasons, standards rules,
  idempotency keys, and the other kinds of proposal; issuing a session; role permissions other
  than `members.manage`; API keys; an agent's definitions and versions; gaps, risk acceptances, units
  and owners of the register; what an exporter builds; who of several people is reminded, and the digest.
- **Components without a module**: the taxonomy's vocabularies (label, retire, merge), watch
  beyond registration (curation, confirmation), support access. Their hazards are
  listed in `PROJECT.json`, without a property where none covers them.
- **Reads and rendering**: home, search, governance, integrations, frontend. Their state is derived;
  their correctness is about queries, which TLC does not reach.
- **Most of the repository's lines** are schemas, serialisers, seeds, tests, translations and pages. They
  have no state of their own and are abstracted to nothing; the map covers the handlers that decide.
- **Infrastructure**: deployment, checkers, documents.

Liveness of people is not a property of the code and is not stated.

## 9 Plan

Every safety and action property of the passing runs is proved; the five liveness properties are
model-checked. What would still add something is more of the code: curation and confirmation in
`watch`, support access in `tenants`, the other kinds of proposal.
