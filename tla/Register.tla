------------------------------ MODULE Register ------------------------------
(***************************************************************************)
(* Answers to "does this obligation apply to us?" and the duty they start: *)
(* register/applicability.py, logic.py, duties.py.                         *)
(*                                                                         *)
(* An answer lands on the register entry of an obligation, or on the row   *)
(* of one legal entity under it.  Rows are created by the first answer     *)
(* that needs them.  A call locks the entries it finds, checks If-Match,   *)
(* inserts the entries it did not find, locks whatever another call        *)
(* inserted first, and then writes.  The entry's lock covers its entities' *)
(* rows: no call reaches one without it.                                   *)
(*                                                                         *)
(* One recurring duty an obligation, due every day up to LastDue.  The     *)
(* units of a Statement of Applicability are left out.                     *)
(***************************************************************************)
EXTENDS Integers, FiniteSets, FiniteSetsExt

CONSTANTS Officers,
          Obligations, \* numbers: an INSERT goes in the order of their ids
          Entities, Whole,
          Asked,       \* bound: the sets of targets people answer for in one call
          Recurring,   \* the obligations the library has a recurring duty for
          LastDay, LastDue,  \* bounds: the days that pass, where the rule ends
          MaxAnswers   \* bound: the version a row reaches

ASSUME RegisterAssumption ==
  /\ Obligations \subseteq Nat /\ Recurring \subseteq Obligations /\ Whole \notin Entities
  /\ Asked \subseteq SUBSET (Obligations \X (Entities \cup {Whole}))
  /\ LastDay \in Nat \ {0} /\ LastDue \in Nat \ {0} /\ MaxAnswers \in Nat
  /\ 0 \notin Officers  \* 0 is the lock nobody holds

Targets == Obligations \X (Entities \cup {Whole})
About(T) == {t[1] : t \in T}

VARIABLES rowVersion,  \* of each target's row, 0 before it is written; what it says is left out
          duty,        \* each obligation's duty in the library
          occurrence,  \* each target's dated occurrences
          day,         \* today in the bank's time zone
          entryLock,   \* the row lock, or the uncommitted insert, of each entry
          answering    \* each person's call

regVars == <<rowVersion, duty, occurrence, day, entryLock, answering>>

Unlocked == 0      \* entryLock of a row nobody holds
AnyVersion == -1   \* a call without If-Match
NoAnswer == [at |-> "idle", targets |-> {}, value |-> "", named |-> AnyVersion,
             todo |-> {}, on |-> 0, first |-> {}]

HasEntry(o) == rowVersion[<<o, Whole>>] > 0
Holds(u) == {o \in Obligations : entryLock[o] = u}

RegInit ==
  /\ rowVersion = [t \in Targets |-> 0]
  /\ duty = [o \in Obligations |-> "none"]
  /\ occurrence = [t \in Targets |-> [open |-> {}, done |-> {}]]
  /\ day = 1
  /\ entryLock = [o \in Obligations |-> Unlocked]
  /\ answering = [u \in Officers |-> NoAnswer]

-----------------------------------------------------------------------------
(* A call (_store). *)
\* set_applicability names one target and the version it saw, set_applicability_many
\* several and none
BeginAnswer(u, T, v, n) ==
  /\ answering[u] = NoAnswer
  /\ \A t \in T : rowVersion[t] < MaxAnswers
  /\ n \in {AnyVersion} \cup {rowVersion[t] : t \in {s \in T : T = {s}}}
  /\ answering' = [answering EXCEPT ![u] =
       [NoAnswer EXCEPT !.at = "locking", !.targets = T, !.value = v, !.named = n,
                        !.todo = {o \in About(T) : HasEntry(o)}]]
  /\ UNCHANGED <<rowVersion, duty, occurrence, day, entryLock>>

\* mutant: entries are read without a lock
EntryRead(u, o) == TRUE
EntryFree(u, o) == entryLock[o] \in {Unlocked, u}

\* _locked_entries, and the locking read that follows the INSERT: rows in any order
LockEntry(u, o) ==
  /\ answering[u].at \in {"locking", "reading back"} /\ o \in answering[u].todo
  /\ EntryFree(u, o)
  /\ entryLock' = [entryLock EXCEPT ![o] = u]
  /\ answering' = [answering EXCEPT ![u].todo = @ \ {o}]
  /\ UNCHANGED <<rowVersion, duty, occurrence, day>>

\* What the call found under its locks; a row it did not find counts as version 0.
Found(u, t) == IF t[1] \in Holds(u) THEN rowVersion[t] ELSE 0
Unlock(u) == entryLock' = [o \in Obligations |-> IF entryLock[o] = u THEN Unlocked ELSE entryLock[o]]

CheckVersion(u) ==
  /\ answering[u].at = "locking" /\ answering[u].todo = {}
  /\ IF \A t \in answering[u].targets : answering[u].named \in {AnyVersion, Found(u, t)}
     THEN /\ answering' = [answering EXCEPT ![u].at = "inserting", ![u].on = day,
                                            ![u].todo = About(answering[u].targets) \ Holds(u)]
          /\ UNCHANGED entryLock
     ELSE /\ answering' = [answering EXCEPT ![u] = NoAnswer]   \* stale_write
          /\ Unlock(u)
  /\ UNCHANGED <<rowVersion, duty, occurrence, day>>

\* ensure_register_entries: one INSERT, in order, that skips an entry there already and
\* waits for one being inserted
InsertEntry(u) ==
  LET o == Min(answering[u].todo)
  IN  /\ answering[u].at = "inserting" /\ answering[u].todo # {}
      /\ \/ HasEntry(o) /\ UNCHANGED entryLock
         \/ ~HasEntry(o) /\ EntryFree(u, o) /\ entryLock' = [entryLock EXCEPT ![o] = u]
      /\ answering' = [answering EXCEPT ![u].todo = @ \ {o}]
      /\ UNCHANGED <<rowVersion, duty, occurrence, day>>

ReadBack(u) ==
  /\ answering[u].at = "inserting" /\ answering[u].todo = {}
  /\ answering' = [answering EXCEPT ![u].at = "reading back",
                                    ![u].todo = About(answering[u].targets) \ Holds(u)]
  /\ UNCHANGED <<rowVersion, duty, occurrence, day, entryLock>>

NeverScheduled(t) == occurrence[t].open \cup occurrence[t].done = {}

\* schedule_first: an answer "applies" starts the duty on each target that never had it,
\* from the day the answer was decided
ScheduleFirst(u) ==
  /\ answering[u].at = "reading back" /\ answering[u].todo = {}
  /\ answering' = [answering EXCEPT ![u].at = "committing", ![u].first =
       {t \in answering[u].targets : /\ answering[u].value = "applies" /\ answering[u].on <= LastDue
                                     /\ duty[t[1]] = "active" /\ NeverScheduled(t)}]
  /\ UNCHANGED <<rowVersion, duty, occurrence, day, entryLock>>

\* A new entry starts at version 1, an entity's row at 0; each answer moves its row by one.
Started(t) == IF t[2] = Whole THEN Max({1, rowVersion[t]}) ELSE rowVersion[t]

Commit(u) ==
  LET call == answering[u]
  IN  /\ call.at = "committing"
      /\ rowVersion' = [t \in Targets |->
           IF t \in call.targets THEN Started(t) + 1
           ELSE IF t \in About(call.targets) \X {Whole} THEN Started(t) ELSE rowVersion[t]]
      \* the unique key of target and date takes a second row of one date for the first
      /\ occurrence' = [t \in Targets |->
           IF t \in call.first THEN [occurrence[t] EXCEPT !.open = @ \cup {call.on}] ELSE occurrence[t]]
      /\ answering' = [answering EXCEPT ![u] = NoAnswer]
      /\ Unlock(u)
      /\ UNCHANGED <<duty, day>>

\* A call fails, its process dies, or the database breaks a deadlock: rolled back.
RollBack(u) ==
  /\ answering[u] # NoAnswer
  /\ answering' = [answering EXCEPT ![u] = NoAnswer]
  /\ Unlock(u)
  /\ UNCHANGED <<rowVersion, duty, occurrence, day>>

-----------------------------------------------------------------------------
NextDue(d) == {e \in d..LastDue : e = d + 1}

\* complete_occurrence, under the occurrence's row lock; done once more it writes nothing
CompleteOccurrence(t, d) ==
  /\ d \in occurrence[t].open
  /\ LET next == IF duty[t[1]] = "active" THEN NextDue(d) ELSE {}
         done == occurrence[t].done \cup {d}
     IN  occurrence' = [occurrence EXCEPT ![t] =
           [open |-> (occurrence[t].open \cup next) \ done, done |-> done]]
  /\ UNCHANGED <<rowVersion, duty, day, entryLock, answering>>

\* Library proposals add a duty, and retire it for good.
AddDuty(o) ==
  /\ o \in Recurring /\ duty[o] = "none"
  /\ duty' = [duty EXCEPT ![o] = "active"]
  /\ UNCHANGED <<rowVersion, occurrence, day, entryLock, answering>>
RetireDuty(o) ==
  /\ duty[o] = "active"
  /\ duty' = [duty EXCEPT ![o] = "retired"]
  /\ UNCHANGED <<rowVersion, occurrence, day, entryLock, answering>>

NextDay ==
  /\ day < LastDay
  /\ day' = day + 1
  /\ UNCHANGED <<rowVersion, duty, occurrence, entryLock, answering>>

RegNext ==
  \/ \E u \in Officers :
       \/ \E T \in Asked, v \in {"applies", "not_applicable"},
             n \in AnyVersion..MaxAnswers : BeginAnswer(u, T, v, n)
       \/ \E o \in Obligations : LockEntry(u, o)
       \/ CheckVersion(u) \/ InsertEntry(u) \/ ReadBack(u)
       \/ ScheduleFirst(u) \/ Commit(u) \/ RollBack(u)
  \/ \E t \in Targets, d \in 1..LastDue : CompleteOccurrence(t, d)
  \/ \E o \in Obligations : AddDuty(o) \/ RetireDuty(o)
  \/ NextDay

RegSpec == RegInit /\ [][RegNext]_regVars
-----------------------------------------------------------------------------
\* "Completing one generates only the next": however answers, completions and days
\* overlap, a target has one open occurrence at most, and a series once started has one
\* until its duty is retired or its rule ends.
OneOpenOccurrence ==
  \A t \in Targets :
    /\ Cardinality(occurrence[t].open) <= 1
    /\ occurrence[t].open = {} /\ ~NeverScheduled(t) =>
         duty[t[1]] = "retired" \/ LastDue \in occurrence[t].done

\* "If-Match against the row the answer lands on, read under its lock; 0 for a row nobody
\* has written yet" (_check_version): an answer that names a version is written over that
\* version.
AnswerLandsOnItsVersion ==
  [][\A u \in Officers, t \in Targets :
       answering[u].at = "committing" /\ rowVersion' # rowVersion /\ answering'[u] = NoAnswer
         /\ answering[u].named # AnyVersion /\ t \in answering[u].targets =>
           rowVersion[t] = answering[u].named]_regVars
=============================================================================
