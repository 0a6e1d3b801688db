---------------------------- MODULE CaseFootprint ----------------------------
(***************************************************************************)
(* How one registered change becomes a case in every bank, and how each    *)
(* case's cached verdict follows the scope: apps/cases/creation.py and     *)
(* matching.py, run by the outbox cursor.                                  *)
(*                                                                         *)
(* Outbox.tla gives what is used of the cursor here: one batch at a time,  *)
(* in one transaction whose writes nobody sees before its commit and which *)
(* may roll back, and every event delivered once.  Events are handled in   *)
(* any order, which allows more than the cursor does: a handler reads what *)
(* is committed when it runs, never what its event says.  Meanwhile banks  *)
(* approve footprints, editors move the change's scope terms and people    *)
(* work their cases, each in a transaction of its own.                     *)
(***************************************************************************)
EXTENDS FootprintRule, Integers, Sequences

CONSTANTS Tenants,        \* the active banks
          Dims,           \* the taxonomy's dimension rows
          StartFootprint, \* the footprint each bank begins with
          Scopes,         \* the scopes an editor may give the change
          Footprints,     \* the footprints a bank may approve
          MaxEvents,      \* bound: outbox rows written
          MaxRollbacks    \* bound: batches that die

ASSUME CaseFootprintAssumption ==
  /\ Dims \in [Dimensions -> DimensionRows]
  /\ StartFootprint \in [Tenants -> SUBSET Terms]
  /\ Scopes \subseteq SUBSET Terms /\ Footprints \subseteq SUBSET Terms
  /\ MaxEvents \in Nat /\ MaxRollbacks \in Nat

VARIABLES registered,  \* the change is in the library
          scope,       \* its scope terms
          footprint,   \* each bank's approved terms
          cases,       \* each bank's committed case
          events,      \* the outbox rows, by id
          delivered,   \* the ids published
          batch,       \* the ids the running batch has still to handle
          handled,     \* the ids it has taken up
          current,     \* the one of them being handled, or 0
          facts,       \* the scope its create_cases read
          left,        \* the banks its current event has still to visit
          draft,       \* its uncommitted writes, and so its row locks
          rollbacks

world == <<registered, scope, footprint, events>>
running == <<batch, handled, current, facts, left, draft>>
vars == <<registered, scope, footprint, cases, events, delivered,
          batch, handled, current, facts, left, draft, rollbacks>>

NoCase == [state |-> "none", verdict |-> FALSE, restored |-> FALSE]
\* restored is a history: the case was set aside once and taken up again
Case(verdict) == [state |-> "open", verdict |-> verdict, restored |-> FALSE]
NoDraft == [state |-> "untouched", verdict |-> FALSE, restored |-> FALSE]

Ids == 1..Len(events)
Idle == batch = {} /\ handled = {}
Untouched(t) == draft[t] = NoDraft
\* What the batch's transaction sees of a bank's case: its own write first.
Seen(t) == IF Untouched(t) THEN cases[t] ELSE draft[t]
\* The verdict the database gives now
Current(t) == SqlInFootprint(scope, footprint[t], Dims)

-----------------------------------------------------------------------------
Init ==
  /\ registered = FALSE /\ scope = {} /\ footprint = StartFootprint
  /\ cases = [t \in Tenants |-> NoCase]
  /\ events = <<>> /\ delivered = {}
  /\ batch = {} /\ handled = {} /\ current = 0 /\ facts = {} /\ left = {}
  /\ draft = [t \in Tenants |-> NoDraft]
  /\ rollbacks = 0

\* audit.record: the outbox row commits with the write it records
Emit(kind, banks) ==
  /\ Len(events) < MaxEvents
  /\ events' = Append(events, [kind |-> kind, banks |-> banks])

(* What goes on around the cursor. *)
RegisterChange(s) ==
  /\ ~registered
  /\ registered' = TRUE /\ scope' = s
  /\ Emit("registered", Tenants)
  /\ UNCHANGED <<footprint, cases, delivered, running, rollbacks>>

UpdateChangeFacts(s) ==
  /\ registered
  /\ scope' = s
  /\ Emit("facts_updated", Tenants)
  /\ UNCHANGED <<registered, footprint, cases, delivered, running, rollbacks>>

ApproveFootprint(t, f) ==
  /\ footprint' = [footprint EXCEPT ![t] = f]
  /\ Emit("footprint_approved", {t})
  /\ UNCHANGED <<registered, scope, cases, delivered, running, rollbacks>>

\* Dismissed, or closed on one person's word; both may be restored.  The case
\* row is locked, so it waits for a batch that has written it.
SetAside(t) ==
  /\ Untouched(t) /\ cases[t].state = "open"
  /\ cases' = [cases EXCEPT ![t].state = "aside"]
  /\ UNCHANGED <<world, delivered, running, rollbacks>>

\* triage.restore_change: the state and nothing of the verdict
Restore(t) ==
  /\ Untouched(t) /\ cases[t].state = "aside"
  /\ cases' = [cases EXCEPT ![t] = [state |-> "open", verdict |-> @.verdict, restored |-> TRUE]]
  /\ UNCHANGED <<world, delivered, running, rollbacks>>

(* The batch. *)
BeginBatch ==
  /\ Idle
  /\ batch' = Ids \ delivered
  /\ UNCHANGED <<world, cases, delivered, handled, current, facts, left, draft, rollbacks>>

\* A handler begins: create_cases reads the change's facts once, for all banks.
TakeEvent(i) ==
  /\ left = {} /\ i \in batch
  /\ batch' = batch \ {i} /\ handled' = handled \cup {i} /\ current' = i
  /\ facts' = scope /\ left' = events[i].banks
  /\ UNCHANGED <<world, cases, delivered, draft, rollbacks>>

\* _create_case in the bank's zone; UNIQUE (tenant, change) makes a second
\* attempt a no-op.
CreateCase(t) ==
  /\ t \in left /\ events[current].kind = "registered"
  /\ left' = left \ {t}
  /\ draft' = IF Seen(t) = NoCase
              THEN [draft EXCEPT ![t] = Case(InFootprint(facts, footprint[t], Dims))]
              ELSE draft
  /\ UNCHANGED <<world, cases, delivered, batch, handled, current, facts, rollbacks>>

\* matching._recompute: one UPDATE of the open cases whose verdict moves
Recompute(t) ==
  /\ t \in left /\ events[current].kind # "registered"
  /\ left' = left \ {t}
  /\ draft' = IF Seen(t).state = "open" /\ Seen(t).verdict # Current(t)
              THEN [draft EXCEPT ![t] = [Seen(t) EXCEPT !.verdict = Current(t)]]
              ELSE draft
  /\ UNCHANGED <<world, cases, delivered, batch, handled, current, facts, rollbacks>>

EndBatch ==
  /\ batch' = {} /\ handled' = {} /\ current' = 0 /\ facts' = {} /\ left' = {}
  /\ draft' = [t \in Tenants |-> NoDraft]

\* mutant: everything up to the newest row is marked, not what was handled
CommitUpToNow ==
  /\ batch = {} /\ left = {} /\ handled # {}
  /\ cases' = [t \in Tenants |-> Seen(t)]
  /\ delivered' = Ids
  /\ EndBatch
  /\ UNCHANGED <<world, rollbacks>>

CommitBatch ==
  /\ batch = {} /\ left = {} /\ handled # {}
  /\ cases' = [t \in Tenants |-> Seen(t)]
  /\ delivered' = delivered \cup handled
  /\ EndBatch
  /\ UNCHANGED <<world, rollbacks>>

\* mutant: the rows were marked in a transaction of their own
RollbackTooLate ==
  /\ ~Idle /\ rollbacks < MaxRollbacks
  /\ rollbacks' = rollbacks + 1
  /\ delivered' = delivered \cup handled
  /\ EndBatch
  /\ UNCHANGED <<world, cases>>

RollbackBatch ==
  /\ ~Idle /\ rollbacks < MaxRollbacks
  /\ rollbacks' = rollbacks + 1
  /\ EndBatch
  /\ UNCHANGED <<world, cases, delivered>>

Cursor ==
  \/ BeginBatch
  \/ \E i \in batch : TakeEvent(i)
  \/ \E t \in left : CreateCase(t) \/ Recompute(t)
  \/ CommitBatch

Next ==
  \/ Cursor \/ RollbackBatch
  \/ \E s \in Scopes : RegisterChange(s) \/ UpdateChangeFacts(s)
  \/ \E t \in Tenants :
       \/ SetAside(t) \/ Restore(t)
       \/ \E f \in Footprints : ApproveFootprint(t, f)

\* Beat keeps the cursor going (Outbox.tla's EverythingSettles).
Spec == Init /\ [][Next]_vars /\ WF_vars(Cursor)

-----------------------------------------------------------------------------
Decided == [state : {"open", "aside"}, verdict : BOOLEAN, restored : BOOLEAN]

\* A draft is a new case or a re-decided open one: "A closed or dismissed case is
\* finished work", so the cursor never writes a case that somebody set aside.
TypeOK ==
  /\ registered \in BOOLEAN /\ scope \in SUBSET Terms
  /\ footprint \in [Tenants -> SUBSET Terms]
  /\ cases \in [Tenants -> Decided \cup {NoCase}]
  /\ events \in Seq([kind : {"registered", "facts_updated", "footprint_approved"},
                     banks : SUBSET Tenants])
  /\ delivered \subseteq Ids /\ batch \subseteq Ids /\ handled \subseteq Ids
  /\ current \in Ids \cup {0}
  /\ facts \in SUBSET Terms /\ left \subseteq Tenants
  /\ \A t \in Tenants : Untouched(t) \/ (draft[t] \in Decided /\ draft[t].state = "open")
  /\ rollbacks \in 0..MaxRollbacks

Settled == Idle /\ delivered = Ids
Stale(t) == cases[t].state = "open" /\ cases[t].verdict # Current(t)

\* "Keeping change_case.footprint_match true after the scope moves": once the
\* outbox is empty every bank has the case of a registered change and every open
\* case that was never set aside says what the rule says of the scope and the
\* footprint as they are now, whatever moved while a batch was running.
VerdictsSettle ==
  Settled => \A t \in Tenants :
    /\ registered => cases[t] # NoCase
    /\ cases[t].restored \/ ~Stale(t)

\* "The two are tested against each other": create_cases decides in Python and
\* _recompute in SQL, and whatever the dimensions say, the two halves give every
\* pair of a scope and a footprint that is ever reached the same answer.
MirrorsAgree ==
  \A t \in Tenants, dims \in [Dimensions -> DimensionRows] :
    InFootprint(scope, footprint[t], dims) <=> SqlInFootprint(scope, footprint[t], dims)

\* A registered change reaches every bank, and verdicts catch up with the last
\* decision that moved them, though a batch may die on the way.
EveryBankIsServed ==
  /\ \A t \in Tenants : registered ~> cases[t] # NoCase
  /\ <>[](\A t \in Tenants : cases[t].restored \/ ~Stale(t))

\* "Cached on change_case.footprint_match, which is recomputed when the footprint
\* or the change scope moves" (docs/inputs/data-model.md), for every open case.
OpenVerdictsAreCurrent == Settled => \A t \in Tenants : ~Stale(t)
=============================================================================
