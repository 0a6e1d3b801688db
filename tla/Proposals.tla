----------------------------- MODULE Proposals -----------------------------
(***************************************************************************)
(* The only door to the shared library (apps/proposals): a person or an    *)
(* agent's key files a proposal, somebody independent decides it, and an   *)
(* approval writes the library in the transaction that closes the          *)
(* proposal.  Two kinds are modelled: a new version of an obligation,      *)
(* which may replace the obligation's scope, and a re-tag batch, which     *)
(* holds one row per obligation and is decided row by row.                 *)
(*                                                                         *)
(* A decision is a transaction under READ COMMITTED that takes two locks   *)
(* in turn, the proposal's and then the obligations', and reads after each *)
(* of them; other decisions commit in between.  Hence three steps: the     *)
(* proposal is locked and judged, the obligations are locked and read, and *)
(* everything is written at once.  A call that fails or dies rolls back.   *)
(***************************************************************************)
EXTENDS Integers, FiniteSets

CONSTANTS Users, Keys,       \* people, and API keys
          AgentOf,           \* the agent definition a key is bound to, or None
          Obligations, Terms,
          Singles, Batches,  \* proposals of the one kind and of the other
          TargetOf,          \* the obligation a single proposal names
          Flagged,           \* the proposals whose texts the injection screen flags
          VersionScopes,     \* the scopes a version proposal, or a correction of it, may carry
          MaxInFlight,       \* bound: decisions in flight at once
          None

Principals == Users \cup Keys
Proposals == Singles \cup Batches
Scopes == SUBSET Terms

ASSUME PrincipalsApart == Users \cap Keys = {} /\ None \notin Principals
ASSUME AgentOfType ==
  \A k \in Keys : AgentOf[k] = None \/ AgentOf[k] \notin Principals
ASSUME ProposalsApart ==
  /\ Singles \cap Batches = {} /\ None \notin Proposals
  /\ TargetOf \in [Singles -> Obligations]
ASSUME NoneIsNoScope == \A s \in Scopes : s # None
ASSUME FlaggedType == Flagged \subseteq Proposals
ASSUME VersionScopesType == \A p \in Singles : VersionScopes[p] \subseteq (Scopes \cup {None})
ASSUME MaxInFlightType == MaxInFlight \in Nat

VARIABLES
  status,    \* of each proposal: "none" until it is filed
  proposer,  \* who filed it
  asker,     \* of a batch: the person whose request opened the run that filed it
  before,    \* a batch row's preview: the obligation's scope when it was filed
  after,     \* the scope asked for; None: the scope is left alone, or no row
  row,       \* what became of each row of a batch
  reviewer,  \* who decided the proposal, or closed the batch
  decider,   \* who decided each row
  scope,     \* library: the obligation's scope terms
  versions,  \* library: the obligation's versions and the proposals they apply
  at,        \* where a caller's decision stands
  on,        \* the proposal it locked
  choice,    \* the outcome it gives each row, or "none"
  value,     \* the scope a single approval will write
  seen       \* the highest version number it read

proposal == <<status, proposer, asker, before, after>>
decided  == <<row, reviewer, decider>>
library  == <<scope, versions>>
call     == <<at, on, choice, value, seen>>
vars     == <<proposal, decided, library, call>>

-----------------------------------------------------------------------------
(* Filing.                                                                 *)

Agent(x) == IF x \in Keys THEN AgentOf[x] ELSE None

\* Only a run somebody requested has an asker, and only a key files in a run.
MayHaveAsked(x) == IF x \in Keys THEN Users \cup {None} ELSE {None}

FileSingle(x, p, s) ==
  /\ status[p] = "none"
  /\ status' = [status EXCEPT ![p] = "open"]
  /\ proposer' = [proposer EXCEPT ![p] = x]
  /\ after' = [after EXCEPT ![p][TargetOf[p]] = s]
  /\ UNCHANGED <<asker, before, decided, library, call>>

\* A row's preview holds the scope as it is when the batch is filed; a row
\* that would change nothing refuses the whole batch.
FileBatch(x, b, rows) ==
  /\ status[b] = "none" /\ rows # {}
  /\ \E want \in [rows -> Scopes] :
       /\ \A o \in rows : want[o] # scope[o]
       /\ after' = [after EXCEPT ![b] =
                      [o \in Obligations |-> IF o \in rows THEN want[o] ELSE None]]
  /\ before' = [before EXCEPT ![b] =
                  [o \in Obligations |-> IF o \in rows THEN scope[o] ELSE None]]
  /\ row' = [row EXCEPT ![b] =
               [o \in Obligations |-> IF o \in rows THEN "pending" ELSE "none"]]
  /\ status' = [status EXCEPT ![b] = "open"]
  /\ proposer' = [proposer EXCEPT ![b] = x]
  /\ \E u \in MayHaveAsked(x) : asker' = [asker EXCEPT ![b] = u]
  /\ UNCHANGED <<reviewer, decider, library, call>>

-----------------------------------------------------------------------------
(* Locking and judging the proposal.                                       *)

ProposalFree(x, p) == \A y \in Principals \ {x} : on[y] # p

SameAgent(x, y) == Agent(x) # None /\ Agent(x) = Agent(y)

Decidable(x, p) ==
  /\ ProposalFree(x, p)
  /\ status[p] = "open"
  /\ x \in Keys => Agent(x) # None
  /\ x # proposer[p]
  /\ ~ SameAgent(x, proposer[p])

Hold(x, p, rows) ==
  /\ Cardinality({y \in Principals : at[y] # "idle"}) < MaxInFlight
  /\ at' = [at EXCEPT ![x] = "holding"]
  /\ on' = [on EXCEPT ![x] = p]
  /\ choice' = [choice EXCEPT ![x] = rows]

NoRows == [o \in Obligations |-> "none"]

\* The reviewer may correct the payload; an agent is held off what is flagged.
Approve(x, p, s) ==
  /\ at[x] = "idle" /\ p \in Singles
  /\ Decidable(x, p)
  /\ x \in Keys => p \notin Flagged
  /\ Hold(x, p, NoRows)
  /\ value' = [value EXCEPT ![x] = s]
  /\ UNCHANGED <<proposal, decided, library, seen>>

Reject(x, p) ==
  /\ at[x] = "idle" /\ p \in Singles
  /\ Decidable(x, p)
  /\ status' = [status EXCEPT ![p] = "rejected"]
  /\ reviewer' = [reviewer EXCEPT ![p] = x]
  /\ UNCHANGED <<proposer, asker, before, after, row, decider, library, call>>

Pending(b) == {o \in Obligations : row[b][o] = "pending"}
Stale(b) == {o \in Pending(b) : scope[o] # before[b][o]}

\* The rows the call settles: the ones it names, and the rest if it gives the
\* rest an outcome.  Approving a row that moved fails the call when the row is
\* named and leaves it pending under the rest.
Chosen(b, named, rest) ==
  [o \in Obligations |->
     CASE o \in DOMAIN named -> named[o]
       [] o \in Pending(b) \ DOMAIN named /\ ~ (rest = "approved" /\ o \in Stale(b)) -> rest
       [] OTHER -> "none"]

\* mutant: the person behind the run may decide
MayDecideAsked(u, b) ==
  /\ ProposalFree(u, b)
  /\ status[b] = "open"
  /\ u # proposer[b]

\* A person decides; not the proposer, nor the one who asked for the re-tag.
MayDecideBatch(u, b) ==
  /\ ProposalFree(u, b)
  /\ status[b] = "open"
  /\ u # proposer[b] /\ u # asker[b]

NamesPending(b, named) == DOMAIN named \subseteq Pending(b)

DecideBatch(u, b, named, rest) ==
  /\ at[u] = "idle"
  /\ MayDecideBatch(u, b)
  /\ NamesPending(b, named)
  /\ \A o \in DOMAIN named : named[o] = "approved" => o \notin Stale(b)
  /\ Chosen(b, named, rest) # NoRows
  /\ Hold(u, b, Chosen(b, named, rest))
  /\ UNCHANGED <<proposal, decided, library, value, seen>>

-----------------------------------------------------------------------------
(* Locking the obligations and reading them.                               *)

\* The obligations a call writes.
Writes(x) ==
  IF on[x] \in Singles THEN {TargetOf[on[x]]}
  ELSE {o \in Obligations : choice[x][o] = "approved"}

\* mutant: the obligation's row is not locked
ObligationsShared(x) == TRUE

ObligationsFree(x) ==
  \A y \in Principals \ {x} : at[y] = "writing" => Writes(x) \cap Writes(y) = {}

Highest(o) == CHOOSE n \in {v[1] : v \in versions[o]} : \A v \in versions[o] : v[1] <= n

LockObligation(x) ==
  /\ at[x] = "holding" /\ on[x] \in Singles
  /\ ObligationsFree(x)
  /\ seen' = [seen EXCEPT ![x] = Highest(TargetOf[on[x]])]
  /\ at' = [at EXCEPT ![x] = "writing"]
  /\ UNCHANGED <<proposal, decided, library, on, choice, value>>

\* mutant: only the comparison before the locks
NotRechecked(x) == TRUE

\* The scope is compared with the preview again, now that it cannot move.
StillAsPreviewed(x) == \A o \in Writes(x) : scope[o] = before[on[x]][o]

LockRows(x) ==
  /\ at[x] = "holding" /\ on[x] \in Batches
  /\ ObligationsFree(x)
  /\ StillAsPreviewed(x)
  /\ at' = [at EXCEPT ![x] = "writing"]
  /\ UNCHANGED <<proposal, decided, library, on, choice, value, seen>>

-----------------------------------------------------------------------------
(* Writing the library and closing the proposal, or not.                   *)

Release(x) ==
  /\ at' = [at EXCEPT ![x] = "idle"]
  /\ on' = [on EXCEPT ![x] = None]
  /\ choice' = [choice EXCEPT ![x] = NoRows]
  /\ value' = [value EXCEPT ![x] = None]
  /\ seen' = [seen EXCEPT ![x] = 0]

ApplyVersion(x) ==
  LET p == on[x]  o == TargetOf[p] IN
  /\ at[x] = "writing" /\ p \in Singles
  /\ versions' = [versions EXCEPT ![o] = @ \cup {<<seen[x] + 1, p>>}]
  /\ scope' = IF value[x] = None THEN scope ELSE [scope EXCEPT ![o] = value[x]]
  /\ status' = [status EXCEPT ![p] = "approved"]
  /\ reviewer' = [reviewer EXCEPT ![p] = x]
  /\ Release(x)
  /\ UNCHANGED <<proposer, asker, before, after, row, decider>>

\* Only the links that change are written.
Retagged(b, o) ==
  (scope[o] \ (before[b][o] \ after[b][o])) \cup (after[b][o] \ before[b][o])

SomeRow(b, outcome) == \E o \in Obligations : row'[b][o] = outcome

\* mutant: the status follows this call's rows only
CloseByThisCall(x, b) ==
  IF SomeRow(b, "pending") THEN UNCHANGED <<status, reviewer>>
  ELSE /\ reviewer' = [reviewer EXCEPT ![b] = x]
       /\ status' = [status EXCEPT ![b] = IF Writes(x) # {} THEN "approved" ELSE "rejected"]

\* The batch closes once no row is pending.
Close(x, b) ==
  IF SomeRow(b, "pending") THEN UNCHANGED <<status, reviewer>>
  ELSE /\ reviewer' = [reviewer EXCEPT ![b] = x]
       /\ status' = [status EXCEPT ![b] =
                       IF SomeRow(b, "approved") THEN "approved" ELSE "rejected"]

ApplyRows(x) ==
  LET b == on[x] IN
  /\ b \in Batches
  /\ \/ at[x] = "writing"
     \/ at[x] = "holding" /\ Writes(x) = {}   \* nothing to apply
  /\ scope' = [o \in Obligations |-> IF o \in Writes(x) THEN Retagged(b, o) ELSE scope[o]]
  /\ row' = [row EXCEPT ![b] =
               [o \in Obligations |-> IF choice[x][o] = "none" THEN @[o] ELSE choice[x][o]]]
  /\ decider' = [decider EXCEPT ![b] =
                   [o \in Obligations |-> IF choice[x][o] = "none" THEN @[o] ELSE x]]
  /\ Close(x, b)
  /\ Release(x)
  /\ UNCHANGED <<proposer, asker, before, after, versions>>

\* A refusal while holding, an index that cannot be written, a lost worker:
\* the transaction rolls back and its locks go with it.
RollBack(x) ==
  /\ at[x] # "idle"
  /\ Release(x)
  /\ UNCHANGED <<proposal, decided, library>>

-----------------------------------------------------------------------------
Init ==
  /\ status = [p \in Proposals |-> "none"]
  /\ proposer = [p \in Proposals |-> None]
  /\ asker = [p \in Proposals |-> None]
  /\ before = [p \in Proposals |-> [o \in Obligations |-> None]]
  /\ after = [p \in Proposals |-> [o \in Obligations |-> None]]
  /\ row = [p \in Proposals |-> NoRows]
  /\ reviewer = [p \in Proposals |-> None]
  /\ decider = [p \in Proposals |-> [o \in Obligations |-> None]]
  /\ scope = [o \in Obligations |-> {}]
  /\ versions = [o \in Obligations |-> {<<1, None>>}]
  /\ at = [x \in Principals |-> "idle"]
  /\ on = [x \in Principals |-> None]
  /\ choice = [x \in Principals |-> NoRows]
  /\ value = [x \in Principals |-> None]
  /\ seen = [x \in Principals |-> 0]

Outcomes == {"approved", "rejected"}

File(x) ==
  \/ \E p \in Singles : \E s \in VersionScopes[p] : FileSingle(x, p, s)
  \/ \E b \in Batches, rows \in SUBSET Obligations : FileBatch(x, b, rows)

Decide(x) ==
  \/ \E p \in Singles : Reject(x, p)
  \/ \E p \in Singles : \E s \in {after[p][TargetOf[p]]} \cup (VersionScopes[p] \ {None}) :
       Approve(x, p, s)
  \/ /\ x \in Users
     /\ \E b \in Batches, ids \in SUBSET Obligations :
          \E named \in [ids -> Outcomes], rest \in Outcomes \cup {"none"} :
            DecideBatch(x, b, named, rest)

Next ==
  \E x \in Principals :
    \/ File(x)
    \/ Decide(x)
    \/ LockObligation(x) \/ LockRows(x)
    \/ ApplyVersion(x) \/ ApplyRows(x)
    \/ RollBack(x)

Spec == Init /\ [][Next]_vars
-----------------------------------------------------------------------------
(* Properties.                                                             *)

TypeOK ==
  /\ status \in [Proposals -> {"none", "open", "approved", "rejected"}]
  /\ proposer \in [Proposals -> Principals \cup {None}]
  /\ asker \in [Proposals -> Users \cup {None}]
  /\ before \in [Proposals -> [Obligations -> Scopes \cup {None}]]
  /\ after \in [Proposals -> [Obligations -> Scopes \cup {None}]]
  /\ row \in [Proposals -> [Obligations -> {"none", "pending", "approved", "rejected"}]]
  /\ reviewer \in [Proposals -> Principals \cup {None}]
  /\ decider \in [Proposals -> [Obligations -> Users \cup {None}]]
  /\ scope \in [Obligations -> Scopes]
  /\ versions \in [Obligations -> SUBSET (Nat \X (Singles \cup {None}))]
  /\ at \in [Principals -> {"idle", "holding", "writing"}]
  /\ on \in [Principals -> Proposals \cup {None}]
  /\ choice \in [Principals -> [Obligations -> Outcomes \cup {"none"}]]
  /\ value \in [Principals -> Scopes \cup {None}]
  /\ seen \in [Principals -> Nat]

\* The library and the queue agree, however many approvals meet on one
\* obligation: an approved proposal is one of its versions and no other is
\* (approve and apply in one transaction), numbered 1, 2, 3 ... in the order
\* they were approved (apply._obligation_version).
VersionsFollowApprovals ==
  /\ \A p \in Singles :
       Cardinality({v \in versions[TargetOf[p]] : v[2] = p}) = IF status[p] = "approved" THEN 1 ELSE 0
  /\ \A o \in Obligations : {v[1] : v \in versions[o]} = 1 .. Cardinality(versions[o])

\* Whoever decides shares no account, key, agent definition or request with
\* whoever proposed (logic._decidable, batch.decide) ...
IndependentDecision ==
  /\ \A p \in Proposals :
       reviewer[p] # None =>
         /\ reviewer[p] # proposer[p]
         /\ Agent(reviewer[p]) # None => Agent(reviewer[p]) # Agent(proposer[p])
  /\ \A b \in Batches, o \in Obligations :
       decider[b][o] # None => decider[b][o] \notin {proposer[b], asker[b]}

\* ... and what was decided stays decided, by whom it was: a proposal, and each
\* row of a batch that stays open for its other rows.
DecidedOnceByAnother ==
  [][/\ IndependentDecision'
     /\ \A p \in Proposals :
          /\ reviewer[p] # None => status'[p] = status[p] /\ reviewer'[p] = reviewer[p]
          /\ \A o \in Obligations :
               decider[p][o] # None => row'[p][o] = row[p][o] /\ decider'[p][o] = decider[p][o]]_vars

\* A batch is open exactly while a row is pending, and closes as approved
\* exactly when some row was, by whichever of its calls (batch._close).
BatchClosesWithItsRows ==
  \A b \in Batches :
    status[b] # "none" =>
      /\ status[b] = "open" <=> \E o \in Obligations : row[b][o] = "pending"
      /\ status[b] = "approved" => \E o \in Obligations : row[b][o] = "approved"
      /\ status[b] = "rejected" => \A o \in Obligations : row[b][o] # "approved"

\* A row is applied over the scope its reviewer was shown, and leaves the
\* scope they were shown (batch.decide and apply._obligation_scope).
AppliedAsPreviewed ==
  [][\A b \in Batches, o \in Obligations :
       row[b][o] # "approved" /\ row'[b][o] = "approved" =>
         scope[o] = before[b][o] /\ scope'[o] = after[b][o]]_vars
=============================================================================
