-------------------------- MODULE Proposals_proofs --------------------------
(***************************************************************************)
(* The door to the shared library, proved: who decides a proposal, what a  *)
(* decided row writes, when a batch closes and how an obligation's         *)
(* versions are numbered, for every set of people, keys, proposals,        *)
(* obligations and terms and every number of decisions in flight.          *)
(*                                                                         *)
(* Everything rests on the two locks.  Whoever holds a proposal found it   *)
(* open and theirs to decide, and it stays so, since nobody else can hold  *)
(* it; whoever is about to write has read the obligations under locks      *)
(* nobody else writes through, and they are still as they were read.       *)
(***************************************************************************)
EXTENDS Proposals, FiniteSetTheorems, TLAPS

Choices == [Obligations -> Outcomes \cup {"none"}]

\* An obligation's versions are numbered from one without a gap.
Numbered ==
  \A o \in Obligations :
    /\ IsFiniteSet(versions[o]) /\ Cardinality(versions[o]) >= 1
    /\ {v[1] : v \in versions[o]} = 1 .. Cardinality(versions[o])

\* An approved proposal has its version, and nothing else has one.
OneVersionEach ==
  \A p \in Singles :
    /\ status[p] = "approved" => \E v \in versions[TargetOf[p]] : v[2] = p
    /\ \A v \in versions[TargetOf[p]] : v[2] = p => status[p] = "approved"
    /\ \A v, w \in versions[TargetOf[p]] : v[2] = p /\ w[2] = p => v = w

RowsHaveScopes ==
  \A b \in Batches, o \in Obligations :
    row[b][o] # "none" => before[b][o] \in Scopes /\ after[b][o] \in Scopes

\* x may decide p: it is open, x is independent of it, and the rows x settles
\* wait to be.
MayDecide(x, p) ==
  /\ p \in Proposals /\ status[p] = "open"
  /\ x # proposer[p] /\ ~SameAgent(x, proposer[p])
  /\ p \in Batches => /\ x \in Users /\ x # asker[p]
                      /\ \A o \in Obligations : choice[x][o] # "none" => row[p][o] = "pending"

\* The proposal's lock.
Holds(x) == IF at[x] = "idle" THEN on[x] = None ELSE MayDecide(x, on[x])
Held ==
  /\ \A x \in Principals : Holds(x)
  /\ \A x, y \in Principals : on[x] = on[y] /\ on[x] # None => x = y

\* The obligations' locks.
ReadIsCurrent(x) ==
  /\ on[x] \in Singles => seen[x] = Cardinality(versions[TargetOf[on[x]]])
  /\ on[x] \in Batches => StillAsPreviewed(x)
Locked ==
  /\ \A x \in Principals : at[x] = "writing" => ReadIsCurrent(x)
  /\ \A x, y \in Principals :
       at[x] = "writing" /\ at[y] = "writing" /\ x # y => Writes(x) \cap Writes(y) = {}

\* What is decided says so on the proposal and on the row.
DecisionsStand ==
  \A p \in Proposals :
    /\ reviewer[p] # None => status[p] \in Outcomes
    /\ \A o \in Obligations : decider[p][o] # None => row[p][o] \in Outcomes
    /\ status[p] = "none" => \A o \in Obligations : row[p][o] = "none"

PropInv == /\ TypeOK /\ Numbered /\ OneVersionEach /\ RowsHaveScopes /\ Held /\ Locked
           /\ DecisionsStand /\ IndependentDecision /\ BatchClosesWithItsRows

-----------------------------------------------------------------------------
(* The model's operators. *)

LEMMA NoneIsNobody == None \notin Principals /\ None \notin Proposals
  BY PrincipalsApart, ProposalsApart

\* A decision under way changes what its caller holds and nobody else's.
LEMMA HoldIsOnesOwn ==
  ASSUME TypeOK, NEW x \in Principals, NEW p \in Proposals, NEW asked \in Choices, Hold(x, p, asked)
  PROVE  /\ at' \in [Principals -> {"idle", "holding", "writing"}]
         /\ on' \in [Principals -> Proposals \cup {None}]
         /\ choice' \in [Principals -> Choices]
         /\ at'[x] = "holding" /\ on'[x] = p /\ choice'[x] = asked
         /\ \A y \in Principals \ {x} : at'[y] = at[y] /\ on'[y] = on[y] /\ choice'[y] = choice[y]
  BY DEF TypeOK, Hold, Choices

LEMMA ReleaseIsOnesOwn ==
  ASSUME TypeOK, NEW x \in Principals, Release(x)
  PROVE  /\ at' \in [Principals -> {"idle", "holding", "writing"}]
         /\ on' \in [Principals -> Proposals \cup {None}]
         /\ choice' \in [Principals -> Choices]
         /\ value' \in [Principals -> Scopes \cup {None}]
         /\ seen' \in [Principals -> Nat]
         /\ at'[x] = "idle" /\ on'[x] = None
         /\ \A y \in Principals \ {x} :
              at'[y] = at[y] /\ on'[y] = on[y] /\ choice'[y] = choice[y] /\ seen'[y] = seen[y]
<1>1. NoRows \in Choices
  BY DEF NoRows, Choices
<1> QED
  BY <1>1 DEF TypeOK, Release, Choices

\* The highest version number there is, is how many there are.
LEMMA HighestIsTheirNumber ==
  ASSUME Numbered, NEW o \in Obligations
  PROVE  Highest(o) = Cardinality(versions[o]) /\ Highest(o) \in Nat
<1> DEFINE n == Cardinality(versions[o])
           numbers == {v[1] : v \in versions[o]}
<1>1. n \in Nat /\ n >= 1 /\ numbers = 1 .. n
  BY FS_CardinalityType DEF Numbered
<1>2. \A m \in numbers : (\A v \in versions[o] : v[1] <= m) => m = n
  <2> SUFFICES ASSUME NEW m \in numbers, \A v \in versions[o] : v[1] <= m PROVE m = n
    OBVIOUS
  <2>1. n \in numbers
    BY <1>1
  <2>2. PICK v \in versions[o] : v[1] = n
    BY <2>1
  <2> QED
    BY <1>1, <2>2
<1>3. n \in numbers /\ \A v \in versions[o] : v[1] <= n
  BY <1>1
<1>4. Highest(o) \in numbers /\ \A v \in versions[o] : v[1] <= Highest(o)
  BY <1>3 DEF Highest
<1> QED
  BY <1>1, <1>2, <1>4

\* The rows a call settles: pending ones, so those of its batch.
LEMMA ChosenArePending ==
  ASSUME TypeOK, NEW b \in Batches, NEW ids \in SUBSET Obligations, NEW named \in [ids -> Outcomes],
         NEW rest \in Outcomes \cup {"none"}, NamesPending(b, named)
  PROVE  /\ Chosen(b, named, rest) \in Choices
         /\ \A o \in Obligations : Chosen(b, named, rest)[o] # "none" => row[b][o] = "pending"
<1> DEFINE chosen == Chosen(b, named, rest)
<1>1. ASSUME NEW o \in Obligations
      PROVE  chosen[o] \in Outcomes \cup {"none"} /\ (chosen[o] # "none" => o \in Pending(b))
  <2>1. DOMAIN named = ids /\ ids \subseteq Pending(b)
    BY DEF NamesPending
  <2>2. chosen[o] = CASE o \in ids -> named[o]
                      [] o \in Pending(b) \ ids /\ ~ (rest = "approved" /\ o \in Stale(b)) -> rest
                      [] OTHER -> "none"
    BY <2>1 DEF Chosen
  <2>3. CASE o \in ids
    BY <2>1, <2>2, <2>3
  <2>4. CASE o \notin ids
    BY <2>2, <2>4
  <2> QED
    BY <2>3, <2>4
<1>2. chosen = [o \in Obligations |-> chosen[o]]
  BY DEF Chosen
<1>3. \A o \in Pending(b) : row[b][o] = "pending"
  BY DEF Pending
<1> HIDE DEF chosen
<1>4. chosen \in Choices
  BY <1>1, <1>2 DEF Choices
<1> QED
  BY <1>1, <1>3, <1>4 DEF chosen

\* What the last step of a batch's call writes: its rows, in its batch.
LEMMA RowsAreTheBatchs ==
  ASSUME TypeOK, NEW x \in Principals, ApplyRows(x), x \in Users
  PROVE  /\ row' \in [Proposals -> [Obligations -> {"none", "pending", "approved", "rejected"}]]
         /\ decider' \in [Proposals -> [Obligations -> Users \cup {None}]]
         /\ \A p \in Proposals : p # on[x] => row'[p] = row[p] /\ decider'[p] = decider[p]
         /\ \A o \in Obligations :
              /\ choice[x][o] = "none" => /\ row'[on[x]][o] = row[on[x]][o]
                                          /\ decider'[on[x]][o] = decider[on[x]][o]
              /\ choice[x][o] # "none" => row'[on[x]][o] = choice[x][o] /\ decider'[on[x]][o] = x
<1> DEFINE b == on[x]
           rowNow == [o \in Obligations |-> IF choice[x][o] = "none" THEN row[b][o] ELSE choice[x][o]]
           deciderNow == [o \in Obligations |-> IF choice[x][o] = "none" THEN decider[b][o] ELSE x]
<1>1. b \in Proposals /\ row' = [row EXCEPT ![b] = rowNow] /\ decider' = [decider EXCEPT ![b] = deciderNow]
  BY DEF ApplyRows, Proposals
<1>2. rowNow \in [Obligations -> {"none", "pending", "approved", "rejected"}]
  BY <1>1 DEF TypeOK, Outcomes
<1>3. deciderNow \in [Obligations -> Users \cup {None}]
  BY <1>1 DEF TypeOK
<1>4. \A o \in Obligations :
        /\ choice[x][o] = "none" => rowNow[o] = row[b][o] /\ deciderNow[o] = decider[b][o]
        /\ choice[x][o] # "none" => rowNow[o] = choice[x][o] /\ deciderNow[o] = x
  OBVIOUS
<1> HIDE DEF rowNow, deciderNow
<1>5. row'[b] = rowNow /\ decider'[b] = deciderNow
  BY <1>1 DEF TypeOK
<1>6. \A p \in Proposals : p # b => row'[p] = row[p] /\ decider'[p] = decider[p]
  BY <1>1 DEF TypeOK
<1>7. row' \in [Proposals -> [Obligations -> {"none", "pending", "approved", "rejected"}]]
  BY <1>1, <1>2 DEF TypeOK
<1>8. decider' \in [Proposals -> [Obligations -> Users \cup {None}]]
  BY <1>1, <1>3 DEF TypeOK
<1> QED
  BY <1>4, <1>5, <1>6, <1>7, <1>8

-----------------------------------------------------------------------------
(* One lemma for each part of the invariant, one step for each action. *)

\* A caller that is not idle may decide what it holds.
LEMMA HolderMayDecide ==
  ASSUME Held, NEW x \in Principals, at[x] # "idle"
  PROVE  MayDecide(x, on[x])
  BY DEF Held, Holds

LEMMA ACallIsOfAPerson ==
  ASSUME PropInv, NEW x \in Principals, ApplyRows(x)
  PROVE  x \in Users /\ on[x] \in Batches /\ at[x] # "idle"
<1>1. on[x] \in Batches /\ at[x] # "idle"
  BY DEF ApplyRows
<1> QED
  BY <1>1 DEF PropInv, Held, Holds, MayDecide

LEMMA TypesKept == ASSUME PropInv, [Next]_vars PROVE TypeOK'
<1>0. TypeOK /\ Numbered /\ RowsHaveScopes
  BY DEF PropInv
<1> USE DEF proposal, decided, library, call
<1>1. ASSUME NEW x \in Principals, NEW p \in Singles, NEW s \in VersionScopes[p], FileSingle(x, p, s)
      PROVE  TypeOK'
  <2>1. p \in Proposals /\ TargetOf[p] \in Obligations /\ s \in Scopes \cup {None}
    BY ProposalsApart, VersionScopesType DEF Proposals
  <2> DEFINE texts == [after[p] EXCEPT ![TargetOf[p]] = s]
  <2>2. after' = [after EXCEPT ![p] = texts]
    BY <1>1, <2>1, <1>0 DEF FileSingle, TypeOK
  <2>3. texts \in [Obligations -> Scopes \cup {None}]
    BY <1>0, <2>1 DEF TypeOK
  <2> HIDE DEF texts
  <2>4. after' \in [Proposals -> [Obligations -> Scopes \cup {None}]]
    BY <1>0, <2>2, <2>3 DEF TypeOK
  <2> QED
    BY <1>0, <1>1, <2>1, <2>4 DEF TypeOK, FileSingle
<1>2. ASSUME NEW x \in Principals, NEW b \in Batches, NEW rows \in SUBSET Obligations,
             FileBatch(x, b, rows)
      PROVE  TypeOK'
  <2>1. b \in Proposals
    BY DEF Proposals
  <2>2. PICK want \in [rows -> Scopes] :
          after' = [after EXCEPT ![b] = [o \in Obligations |-> IF o \in rows THEN want[o] ELSE None]]
    BY <1>2 DEF FileBatch
  <2>3. after' \in [Proposals -> [Obligations -> Scopes \cup {None}]]
    BY <1>0, <2>1, <2>2 DEF TypeOK
  <2>4. before' \in [Proposals -> [Obligations -> Scopes \cup {None}]]
    <3> DEFINE shown == [o \in Obligations |-> IF o \in rows THEN scope[o] ELSE None]
    <3>1. before' = [before EXCEPT ![b] = shown]
      BY <1>2 DEF FileBatch
    <3>2. shown \in [Obligations -> Scopes \cup {None}]
      BY <1>0 DEF TypeOK
    <3> HIDE DEF shown
    <3> QED
      BY <1>0, <2>1, <3>1, <3>2 DEF TypeOK
  <2>5. row' \in [Proposals -> [Obligations -> {"none", "pending", "approved", "rejected"}]]
    <3> DEFINE rowNow == [o \in Obligations |-> IF o \in rows THEN "pending" ELSE "none"]
    <3>1. row' = [row EXCEPT ![b] = rowNow]
      BY <1>2 DEF FileBatch
    <3>2. rowNow \in [Obligations -> {"none", "pending", "approved", "rejected"}]
      OBVIOUS
    <3> HIDE DEF rowNow
    <3> QED
      BY <1>0, <2>1, <3>1, <3>2 DEF TypeOK
  <2>6. asker' \in [Proposals -> Users \cup {None}]
    BY <1>0, <1>2, <2>1 DEF FileBatch, MayHaveAsked, TypeOK
  <2>7. /\ status' = [status EXCEPT ![b] = "open"] /\ proposer' = [proposer EXCEPT ![b] = x]
        /\ UNCHANGED <<reviewer, decider, library, call>>
    BY <1>2 DEF FileBatch
  <2> QED
    BY <1>0, <2>1, <2>3, <2>4, <2>5, <2>6, <2>7 DEF TypeOK
<1>3. ASSUME NEW x \in Principals, NEW p \in Singles, Reject(x, p) PROVE TypeOK'
  BY <1>0, <1>3 DEF Reject, TypeOK, Proposals
<1>4. ASSUME NEW x \in Principals, NEW p \in Singles,
             NEW s \in {after[p][TargetOf[p]]} \cup (VersionScopes[p] \ {None}), Approve(x, p, s)
      PROVE  TypeOK'
  <2>1. p \in Proposals /\ NoRows \in Choices
    BY DEF Proposals, NoRows, Choices
  <2>2. s \in Scopes \cup {None}
    BY <1>0, <2>1, ProposalsApart, VersionScopesType DEF TypeOK
  <2>3. Hold(x, p, NoRows) /\ value' = [value EXCEPT ![x] = s]
        /\ UNCHANGED <<proposal, decided, library, seen>>
    BY <1>4 DEF Approve
  <2> QED
    BY <1>0, <2>1, <2>2, <2>3, HoldIsOnesOwn DEF TypeOK, Choices
<1>5. ASSUME NEW u \in Users, NEW b \in Batches, NEW ids \in SUBSET Obligations,
             NEW named \in [ids -> Outcomes], NEW rest \in Outcomes \cup {"none"},
             DecideBatch(u, b, named, rest)
      PROVE  TypeOK'
  <2>1. b \in Proposals /\ u \in Principals
    BY DEF Proposals, Principals
  <2>2. Hold(u, b, Chosen(b, named, rest)) /\ UNCHANGED <<proposal, decided, library, value, seen>>
    BY <1>5 DEF DecideBatch
  <2>3. Chosen(b, named, rest) \in Choices
    BY <1>0, <1>5, ChosenArePending DEF DecideBatch
  <2> QED
    BY <1>0, <2>1, <2>2, <2>3, HoldIsOnesOwn DEF TypeOK, Choices
<1>6. ASSUME NEW x \in Principals, LockObligation(x) PROVE TypeOK'
  <2>1. TargetOf[on[x]] \in Obligations
    BY <1>6, ProposalsApart DEF LockObligation
  <2>2. Highest(TargetOf[on[x]]) \in Nat
    BY <1>0, <2>1, HighestIsTheirNumber
  <2> QED
    BY <1>0, <1>6, <2>2 DEF LockObligation, TypeOK
<1>7. ASSUME NEW x \in Principals, LockRows(x) PROVE TypeOK'
  BY <1>0, <1>7 DEF LockRows, TypeOK
<1>8. ASSUME NEW x \in Principals, ApplyVersion(x) PROVE TypeOK'
  <2>1. PICK p \in Singles : p = on[x]
    BY <1>8 DEF ApplyVersion
  <2>2. PICK o \in Obligations : o = TargetOf[p]
    BY ProposalsApart
  <2>3. p \in Proposals /\ Release(x)
    BY <1>8 DEF ApplyVersion, Proposals
  <2>4. versions' = [versions EXCEPT ![o] = @ \cup {<<seen[x] + 1, p>>}]
    BY <1>8, <2>1, <2>2 DEF ApplyVersion
  <2>5. <<seen[x] + 1, p>> \in Nat \X (Singles \cup {None})
    BY <1>0 DEF TypeOK
  <2>6. versions' \in [Obligations -> SUBSET (Nat \X (Singles \cup {None}))]
    BY <1>0, <2>4, <2>5 DEF TypeOK
  <2>7. scope' \in [Obligations -> Scopes]
    BY <1>0, <1>8 DEF ApplyVersion, TypeOK
  <2>8. /\ status' = [status EXCEPT ![p] = "approved"] /\ reviewer' = [reviewer EXCEPT ![p] = x]
        /\ UNCHANGED <<proposer, asker, before, after, row, decider>>
    BY <1>8, <2>1 DEF ApplyVersion
  <2> QED
    BY <1>0, <2>3, <2>6, <2>7, <2>8, ReleaseIsOnesOwn DEF TypeOK, Choices
<1>9. ASSUME NEW x \in Principals, ApplyRows(x) PROVE TypeOK'
  <2>1. x \in Users /\ on[x] \in Batches /\ on[x] \in Proposals
    BY <1>9, ACallIsOfAPerson DEF Proposals
  <2>2. PICK b \in Batches : b = on[x]
    BY <2>1
  <2>3. Release(x) /\ Close(x, b) /\ UNCHANGED <<proposer, asker, before, after, versions>>
    BY <1>9, <2>2 DEF ApplyRows
  <2>4. status' \in [Proposals -> {"none", "open", "approved", "rejected"}]
        /\ reviewer' \in [Proposals -> Principals \cup {None}]
    BY <1>0, <2>3 DEF Close, TypeOK
  <2>5. ASSUME NEW o \in Obligations, o \in Writes(x) PROVE Retagged(b, o) \in Scopes
    <3>1. choice[x][o] # "none"
      BY <2>1, <2>5, ProposalsApart DEF Writes
    <3>2. row[b][o] = "pending"
      BY <1>9, <2>1, <2>2, <3>1, ACallIsOfAPerson DEF PropInv, Held, Holds, MayDecide
    <3>3. after[b][o] \in Scopes /\ scope[o] \in Scopes
      BY <1>0, <3>2 DEF RowsHaveScopes, TypeOK
    <3> QED
      BY <3>3 DEF Retagged, Scopes
  <2>6. scope' = [o \in Obligations |-> IF o \in Writes(x) THEN Retagged(b, o) ELSE scope[o]]
    BY <1>9, <2>2 DEF ApplyRows
  <2>7. scope' \in [Obligations -> Scopes]
    BY <1>0, <2>5, <2>6 DEF TypeOK
  <2> QED
    BY <1>0, <1>9, <2>1, <2>3, <2>4, <2>7, ReleaseIsOnesOwn, RowsAreTheBatchs DEF TypeOK, Choices
<1>10. ASSUME NEW x \in Principals, RollBack(x) PROVE TypeOK'
  BY <1>0, <1>10, ReleaseIsOnesOwn DEF RollBack, TypeOK, Choices
<1>11. CASE UNCHANGED vars
  BY <1>0, <1>11 DEF vars, TypeOK
<1> QED
  BY <1>1, <1>2, <1>3, <1>4, <1>5, <1>6, <1>7, <1>8, <1>9, <1>10, <1>11 DEF Next, File, Decide

\* Versions and approvals that both stay as they are agree as they did.
LEMMA VersionsStay ==
  ASSUME Numbered, OneVersionEach, UNCHANGED versions,
         \A p \in Singles : status'[p] = "approved" <=> status[p] = "approved"
  PROVE  Numbered' /\ OneVersionEach'
  BY DEF Numbered, OneVersionEach

\* An approval writes the next number: its caller has read the highest, and
\* nobody has written another since.
LEMMA ApprovalNumbersNext ==
  ASSUME PropInv, NEW x \in Principals, ApplyVersion(x)
  PROVE  Numbered' /\ OneVersionEach'
<1>0. TypeOK /\ Numbered /\ OneVersionEach /\ Held /\ Locked
  BY DEF PropInv
<1>1. PICK p \in Singles : p = on[x]
  BY DEF ApplyVersion
<1>2. PICK o \in Obligations : o = TargetOf[p]
  BY ProposalsApart
<1>3. PICK n \in Nat : n = Cardinality(versions[o])
  BY <1>0, FS_CardinalityType DEF Numbered
<1>4. seen[x] = n /\ status[p] = "open"
  BY <1>0, <1>1, <1>2, <1>3 DEF ApplyVersion, Locked, ReadIsCurrent, Held, Holds, MayDecide
<1> DEFINE new == <<n + 1, p>>
<1>5. versions' = [versions EXCEPT ![o] = @ \cup {new}] /\ status' = [status EXCEPT ![p] = "approved"]
  BY <1>1, <1>2, <1>4 DEF ApplyVersion
<1>6. new[1] = n + 1 /\ new[2] = p
  OBVIOUS
<1>7. {v[1] : v \in versions[o]} = 1 .. n
  BY <1>0, <1>3 DEF Numbered
<1>8. new \notin versions[o]
  <2>1. \A v \in versions[o] : v[1] \in 1 .. n
    BY <1>7
  <2> QED
    BY <1>6, <2>1
<1> HIDE DEF new
<1>9. versions'[o] = versions[o] \cup {new} /\ \A q \in Obligations : q # o => versions'[q] = versions[q]
  BY <1>0, <1>5 DEF TypeOK
<1>10. status'[p] = "approved" /\ \A q \in Singles : q # p => status'[q] = status[q]
  BY <1>0, <1>5 DEF TypeOK, Proposals
<1>11. IsFiniteSet(versions'[o]) /\ Cardinality(versions'[o]) = n + 1
  BY <1>0, <1>3, <1>8, <1>9, FS_AddElement DEF Numbered
<1>12. {v[1] : v \in versions'[o]} = 1 .. (n + 1)
  <2>1. \A m \in 1 .. (n + 1) : m \in 1 .. n \/ m = n + 1
    OBVIOUS
  <2>2. ASSUME NEW m \in 1 .. (n + 1) PROVE \E v \in versions'[o] : v[1] = m
    <3>1. CASE m \in 1 .. n
      <4>1. PICK v \in versions[o] : v[1] = m
        BY <1>7, <3>1
      <4> QED
        BY <1>9, <4>1
    <3>2. CASE m = n + 1
      BY <1>6, <1>9, <3>2
    <3> QED
      BY <2>1, <3>1, <3>2
  <2>3. ASSUME NEW v \in versions'[o] PROVE v[1] \in 1 .. (n + 1)
    <3>1. CASE v \in versions[o]
      <4>1. v[1] \in 1 .. n
        BY <1>7, <3>1
      <4> QED
        BY <4>1
    <3>2. CASE v = new
      BY <1>6, <3>2
    <3> QED
      BY <1>9, <2>3, <3>1, <3>2
  <2> QED
    BY <2>2, <2>3
<1>13. Numbered'
  <2>1. ASSUME NEW q \in Obligations
        PROVE  /\ IsFiniteSet(versions'[q]) /\ Cardinality(versions'[q]) >= 1
               /\ {v[1] : v \in versions'[q]} = 1 .. Cardinality(versions'[q])
    <3>1. CASE q = o
      <4>1. Cardinality(versions'[o]) >= 1
        BY <1>11
      <4> QED
        BY <1>11, <1>12, <3>1, <4>1
    <3>2. CASE q # o
      <4>1. versions'[q] = versions[q]
        BY <1>9, <3>2
      <4> QED
        BY <1>0, <4>1 DEF Numbered
    <3> QED
      BY <3>1, <3>2
  <2> QED
    BY <2>1 DEF Numbered
<1>14. ASSUME NEW q \in Singles, q # p
       PROVE  \A v \in versions'[TargetOf[q]] : v[2] = q => v \in versions[TargetOf[q]]
  BY <1>6, <1>9, <1>14, ProposalsApart
<1>15. \A q \in Singles : versions[TargetOf[q]] \subseteq versions'[TargetOf[q]]
  BY <1>9, ProposalsApart
<1>16. \A v \in versions'[o] : v[2] = p => v = new
  BY <1>0, <1>2, <1>4, <1>9 DEF OneVersionEach
<1>17. OneVersionEach'
  <2>1. ASSUME NEW q \in Singles, q # p
        PROVE  /\ status'[q] = "approved" => \E v \in versions'[TargetOf[q]] : v[2] = q
               /\ \A v \in versions'[TargetOf[q]] : v[2] = q => status'[q] = "approved"
               /\ \A v, w \in versions'[TargetOf[q]] : v[2] = q /\ w[2] = q => v = w
    BY <1>0, <1>10, <1>14, <1>15, <2>1 DEF OneVersionEach
  <2>2. /\ \E v \in versions'[TargetOf[p]] : v[2] = p
        /\ \A v, w \in versions'[TargetOf[p]] : v[2] = p /\ w[2] = p => v = w
    BY <1>2, <1>6, <1>9, <1>16
  <2> QED
    BY <1>10, <2>1, <2>2 DEF OneVersionEach
<1> QED
  BY <1>13, <1>17

LEMMA VersionsKept == ASSUME PropInv, [Next]_vars PROVE Numbered' /\ OneVersionEach'
<1>0. TypeOK /\ Numbered /\ OneVersionEach
  BY DEF PropInv
<1> USE DEF proposal, decided, library, call
<1>1. ASSUME NEW x \in Principals, NEW p \in Singles, NEW s, FileSingle(x, p, s)
      PROVE  Numbered' /\ OneVersionEach'
  BY <1>0, <1>1, VersionsStay DEF FileSingle, TypeOK, Proposals
<1>2. ASSUME NEW x \in Principals, NEW b \in Batches, NEW rows, FileBatch(x, b, rows)
      PROVE  Numbered' /\ OneVersionEach'
  <2>1. UNCHANGED versions /\ status' = [status EXCEPT ![b] = "open"]
    BY <1>2 DEF FileBatch
  <2> QED
    BY <1>0, <2>1, ProposalsApart, VersionsStay DEF TypeOK, Proposals
<1>3. ASSUME NEW x \in Principals, NEW p \in Singles, Reject(x, p) PROVE Numbered' /\ OneVersionEach'
  BY <1>0, <1>3, VersionsStay DEF Reject, Decidable, TypeOK, Proposals
<1>4. ASSUME NEW x \in Principals, ApplyRows(x) PROVE Numbered' /\ OneVersionEach'
  <2>1. PICK b \in Batches : b = on[x]
    BY <1>4 DEF ApplyRows
  <2>2. UNCHANGED versions /\ Close(x, b)
    BY <1>4, <2>1 DEF ApplyRows
  <2>3. \A p \in Singles : status'[p] = status[p]
    BY <1>0, <2>2, ProposalsApart DEF Close, TypeOK, Proposals
  <2> QED
    BY <1>0, <2>2, <2>3, VersionsStay
<1>5. ASSUME UNCHANGED <<versions, status>> PROVE Numbered' /\ OneVersionEach'
  BY <1>0, <1>5, VersionsStay
<1>6. ASSUME NEW x \in Principals,
             \/ \E p, s : Approve(x, p, s)
             \/ \E b, named, rest : DecideBatch(x, b, named, rest)
             \/ LockObligation(x) \/ LockRows(x) \/ RollBack(x)
      PROVE  Numbered' /\ OneVersionEach'
  <2>1. UNCHANGED <<versions, status>>
    BY <1>6 DEF Approve, DecideBatch, LockObligation, LockRows, RollBack
  <2> QED
    BY <1>5, <2>1
<1>7. CASE UNCHANGED vars
  BY <1>5, <1>7 DEF vars
<1> QED
  BY <1>1, <1>2, <1>3, <1>4, <1>6, <1>7, ApprovalNumbersNext DEF Next, File, Decide

LEMMA RowsKept == ASSUME PropInv, [Next]_vars PROVE RowsHaveScopes'
<1>0. TypeOK /\ RowsHaveScopes /\ DecisionsStand
  BY DEF PropInv
<1> USE DEF proposal, decided, library, call
<1>1. ASSUME NEW x \in Principals, NEW p \in Singles, NEW s, FileSingle(x, p, s) PROVE RowsHaveScopes'
  <2>1. UNCHANGED <<row, before>> /\ \A b \in Batches : after'[b] = after[b]
    BY <1>0, <1>1, ProposalsApart DEF FileSingle, TypeOK, Proposals
  <2> QED
    BY <1>0, <2>1 DEF RowsHaveScopes
<1>2. ASSUME NEW x \in Principals, NEW b \in Batches, NEW rows \in SUBSET Obligations,
             FileBatch(x, b, rows)
      PROVE  RowsHaveScopes'
  <2> DEFINE shown == [o \in Obligations |-> IF o \in rows THEN scope[o] ELSE None]
             rowNow == [o \in Obligations |-> IF o \in rows THEN "pending" ELSE "none"]
  <2>1. PICK want \in [rows -> Scopes] :
          after' = [after EXCEPT ![b] = [o \in Obligations |-> IF o \in rows THEN want[o] ELSE None]]
    BY <1>2 DEF FileBatch
  <2> DEFINE asked == [o \in Obligations |-> IF o \in rows THEN want[o] ELSE None]
  <2>2. before' = [before EXCEPT ![b] = shown] /\ row' = [row EXCEPT ![b] = rowNow]
        /\ after' = [after EXCEPT ![b] = asked]
    BY <1>2, <2>1 DEF FileBatch
  <2>3. \A o \in Obligations : rowNow[o] # "none" => shown[o] \in Scopes /\ asked[o] \in Scopes
    BY <1>0 DEF TypeOK
  <2> HIDE DEF shown, rowNow, asked
  <2>4. /\ before'[b] = shown /\ row'[b] = rowNow /\ after'[b] = asked
        /\ \A c \in Batches : c # b => before'[c] = before[c] /\ row'[c] = row[c] /\ after'[c] = after[c]
    BY <1>0, <2>2 DEF TypeOK, Proposals
  <2> QED
    BY <1>0, <2>3, <2>4 DEF RowsHaveScopes
<1>3. ASSUME NEW x \in Principals, ApplyRows(x) PROVE RowsHaveScopes'
  <2>1. x \in Users /\ on[x] \in Batches /\ UNCHANGED <<before, after>>
    BY <1>3, ACallIsOfAPerson DEF ApplyRows
  <2>2. \A o \in Obligations : choice[x][o] # "none" => row[on[x]][o] # "none"
    BY <1>3, ACallIsOfAPerson DEF PropInv, Held, Holds, MayDecide
  <2>3. \A b \in Batches, o \in Obligations : row'[b][o] # "none" => row[b][o] # "none"
    BY <1>0, <1>3, <2>1, <2>2, RowsAreTheBatchs DEF Proposals
  <2> QED
    BY <1>0, <2>1, <2>3 DEF RowsHaveScopes
<1>4. ASSUME UNCHANGED <<row, before, after>> PROVE RowsHaveScopes'
  BY <1>0, <1>4 DEF RowsHaveScopes
<1>5. ASSUME NEW x \in Principals,
             \/ \E p : Reject(x, p)
             \/ \E p, s : Approve(x, p, s)
             \/ \E b, named, rest : DecideBatch(x, b, named, rest)
             \/ LockObligation(x) \/ LockRows(x) \/ ApplyVersion(x) \/ RollBack(x)
      PROVE  RowsHaveScopes'
  <2>1. UNCHANGED <<row, before, after>>
    BY <1>5 DEF Reject, Approve, DecideBatch, LockObligation, LockRows, ApplyVersion, RollBack
  <2> QED
    BY <1>4, <2>1
<1>6. CASE UNCHANGED vars
  BY <1>4, <1>6 DEF vars
<1> QED
  BY <1>1, <1>2, <1>3, <1>5, <1>6 DEF Next, File, Decide

\* What a step does to the proposals: nothing a holder of one rests on, unless it
\* is the holder's own last step.
Rests(p) == <<status[p], proposer[p], asker[p], row[p]>>
LEMMA HeldProposalsRest ==
  ASSUME PropInv, [Next]_vars, NEW y \in Principals, at[y] # "idle", at'[y] # "idle"
  PROVE  \A p \in Proposals : p = on[y] => Rests(p)' = Rests(p)
<1>0. TypeOK /\ Held
  BY DEF PropInv
<1> USE DEF proposal, decided, library, call
<1>still. ~ApplyVersion(y) /\ ~ApplyRows(y)
  BY <1>0, ReleaseIsOnesOwn DEF ApplyVersion, ApplyRows
<1>1. PICK p \in Proposals : p = on[y]
  BY <1>0 DEF Held, Holds, MayDecide
<1>2. status[p] = "open"
  BY <1>0, <1>1 DEF Held, Holds, MayDecide
<1>3. ASSUME NEW x \in Principals, NEW q \in Singles, NEW s, FileSingle(x, q, s) PROVE Rests(p)' = Rests(p)
  BY <1>0, <1>2, <1>3 DEF FileSingle, TypeOK, Rests
<1>4. ASSUME NEW x \in Principals, NEW b \in Batches, NEW rows, FileBatch(x, b, rows) PROVE Rests(p)' = Rests(p)
  BY <1>0, <1>2, <1>4 DEF FileBatch, TypeOK, Rests
<1>5. ASSUME NEW x \in Principals, NEW q \in Singles, Reject(x, q) PROVE Rests(p)' = Rests(p)
  <2>1. x # y /\ p # q
    BY <1>0, <1>1, <1>5, NoneIsNobody DEF Reject, Decidable, ProposalFree, Held, Holds
  <2> QED
    BY <1>0, <1>5, <2>1 DEF Reject, TypeOK, Rests
<1>6. ASSUME NEW x \in Principals, ApplyVersion(x) PROVE Rests(p)' = Rests(p)
  <2>1. x # y /\ on[x] \in Proposals
    BY <1>6, <1>still DEF ApplyVersion, Proposals
  <2>2. p # on[x]
    BY <1>0, <1>1, <2>1, NoneIsNobody DEF Held
  <2> QED
    BY <1>0, <1>6, <2>1, <2>2 DEF ApplyVersion, TypeOK, Rests
<1>7. ASSUME NEW x \in Principals, ApplyRows(x) PROVE Rests(p)' = Rests(p)
  <2>1. x # y /\ on[x] \in Proposals /\ x \in Users
    BY <1>7, <1>still, ACallIsOfAPerson DEF Proposals
  <2>2. p # on[x]
    BY <1>0, <1>1, <2>1, NoneIsNobody DEF Held
  <2>3. row'[p] = row[p]
    BY <1>0, <1>7, <2>1, <2>2, RowsAreTheBatchs
  <2>4. PICK b \in Proposals : b = on[x]
    BY <2>1
  <2>5. Close(x, b) /\ UNCHANGED <<proposer, asker>>
    BY <1>7, <2>4 DEF ApplyRows
  <2>6. status'[p] = status[p]
    BY <1>0, <2>2, <2>4, <2>5 DEF Close, TypeOK
  <2> QED
    BY <2>3, <2>5, <2>6 DEF Rests
<1>8. ASSUME UNCHANGED <<status, proposer, asker, row>> PROVE Rests(p)' = Rests(p)
  BY <1>8 DEF Rests
<1>9. ASSUME NEW x \in Principals,
             \/ \E q, s : Approve(x, q, s)
             \/ \E b, named, rest : DecideBatch(x, b, named, rest)
             \/ LockObligation(x) \/ LockRows(x) \/ RollBack(x)
      PROVE  Rests(p)' = Rests(p)
  <2>1. UNCHANGED <<status, proposer, asker, row>>
    BY <1>9 DEF Approve, DecideBatch, LockObligation, LockRows, RollBack
  <2> QED
    BY <1>8, <2>1
<1>10. ASSUME UNCHANGED vars PROVE Rests(p)' = Rests(p)
  BY <1>8, <1>10 DEF vars
<1>11. Rests(p)' = Rests(p)
  BY <1>3, <1>4, <1>5, <1>6, <1>7, <1>9, <1>10 DEF Next, File, Decide
<1> QED
  BY <1>1, <1>11

\* Whoever keeps holding, or keeps holding nothing, holds as before.
LEMMA OneKeepsHolding ==
  ASSUME PropInv, [Next]_vars, NEW y \in Principals,
         on'[y] = on[y], choice'[y] = choice[y], at'[y] = "idle" <=> at[y] = "idle"
  PROVE  Holds(y)'
<1>0. Held
  BY DEF PropInv
<1>1. CASE at[y] = "idle"
  BY <1>0, <1>1 DEF Held, Holds
<1>2. CASE at[y] # "idle"
  <2>1. MayDecide(y, on[y])
    BY <1>0, <1>2, HolderMayDecide
  <2>2. PICK p \in Proposals : p = on[y]
    BY <2>1 DEF MayDecide
  <2>3. Rests(p)' = Rests(p)
    BY <1>2, <2>2, HeldProposalsRest
  <2>4. /\ status'[p] = status[p] /\ proposer'[p] = proposer[p] /\ asker'[p] = asker[p]
        /\ row'[p] = row[p]
    BY <2>3 DEF Rests
  <2>5. on'[y] = p
    BY <2>2
  <2>6. MayDecide(y, on[y])'
    BY <2>1, <2>2, <2>4, <2>5 DEF MayDecide
  <2> QED
    BY <1>2, <2>6 DEF Holds
<1> QED
  BY <1>1, <1>2

\* A call that begins on a proposal nobody holds, and that its caller may decide.
LEMMA OneBegins ==
  ASSUME PropInv, [Next]_vars, NEW x \in Principals, NEW p \in Proposals, NEW asked \in Choices,
         at[x] = "idle", Hold(x, p, asked), ProposalFree(x, p),
         UNCHANGED <<status, proposer, asker, row>>,
         status[p] = "open", x # proposer[p], ~SameAgent(x, proposer[p]),
         p \in Batches => /\ x \in Users /\ x # asker[p]
                          /\ \A o \in Obligations : asked[o] # "none" => row[p][o] = "pending"
  PROVE  Held'
<1>0. TypeOK /\ Held
  BY DEF PropInv
<1>1. /\ at'[x] = "holding" /\ on'[x] = p /\ choice'[x] = asked
      /\ \A y \in Principals \ {x} : at'[y] = at[y] /\ on'[y] = on[y] /\ choice'[y] = choice[y]
  BY <1>0, HoldIsOnesOwn
<1>2. Holds(x)'
  BY <1>1 DEF Holds, MayDecide
<1>3. ASSUME NEW y \in Principals \ {x} PROVE Holds(y)'
  <2>1. Holds(y) /\ at'[y] = at[y] /\ on'[y] = on[y] /\ choice'[y] = choice[y]
    BY <1>0, <1>1 DEF Held
  <2> QED
    BY <2>1 DEF Holds, MayDecide
<1>4. \A y, z \in Principals : on'[y] = on'[z] /\ on'[y] # None => y = z
  BY <1>0, <1>1 DEF Held, ProposalFree
<1> QED
  BY <1>2, <1>3, <1>4 DEF Held

\* A call that ends: its caller holds nothing, and nobody else's lock moves.
LEMMA OneEnds ==
  ASSUME PropInv, [Next]_vars, NEW x \in Principals, Release(x)
  PROVE  Held'
<1>0. TypeOK /\ Held
  BY DEF PropInv
<1>1. /\ at'[x] = "idle" /\ on'[x] = None
      /\ \A y \in Principals \ {x} : at'[y] = at[y] /\ on'[y] = on[y] /\ choice'[y] = choice[y]
  BY <1>0, ReleaseIsOnesOwn
<1>2. Holds(x)'
  BY <1>1 DEF Holds
<1>3. ASSUME NEW y \in Principals \ {x} PROVE Holds(y)'
  BY <1>1, OneKeepsHolding
<1>4. \A y, z \in Principals : on'[y] = on'[z] /\ on'[y] # None => y = z
  BY <1>0, <1>1 DEF Held
<1> QED
  BY <1>2, <1>3, <1>4 DEF Held

LEMMA HeldKept == ASSUME PropInv, [Next]_vars PROVE Held'
<1>0. TypeOK /\ Held
  BY DEF PropInv
<1> USE DEF proposal, decided, library, call
<1>1. ASSUME NEW x \in Principals, NEW p \in Singles, NEW s, Approve(x, p, s) PROVE Held'
  <2>1. p \in Proposals /\ p \notin Batches /\ NoRows \in Choices
    BY ProposalsApart DEF Proposals, NoRows, Choices
  <2>2. /\ at[x] = "idle" /\ Decidable(x, p) /\ Hold(x, p, NoRows)
        /\ UNCHANGED <<status, proposer, asker, row>>
    BY <1>1 DEF Approve
  <2> QED
    BY <2>1, <2>2, OneBegins DEF Decidable
<1>2. ASSUME NEW u \in Users, NEW b \in Batches, NEW ids \in SUBSET Obligations,
             NEW named \in [ids -> Outcomes], NEW rest \in Outcomes \cup {"none"},
             DecideBatch(u, b, named, rest)
      PROVE  Held'
  <2> DEFINE asked == Chosen(b, named, rest)
  <2>1. b \in Proposals /\ u \in Principals /\ u \notin Keys
    BY PrincipalsApart DEF Proposals, Principals
  <2>2. /\ at[u] = "idle" /\ MayDecideBatch(u, b) /\ Hold(u, b, asked)
        /\ UNCHANGED <<status, proposer, asker, row>>
    BY <1>2 DEF DecideBatch
  <2>3. asked \in Choices /\ \A o \in Obligations : asked[o] # "none" => row[b][o] = "pending"
    BY <1>0, <1>2, ChosenArePending DEF DecideBatch
  <2> HIDE DEF asked
  <2>4. ~SameAgent(u, proposer[b])
    BY <2>1 DEF SameAgent, Agent
  <2> QED
    BY <2>1, <2>2, <2>3, <2>4, OneBegins DEF MayDecideBatch
<1>3. ASSUME NEW x \in Principals, ApplyVersion(x) \/ ApplyRows(x) \/ RollBack(x) PROVE Held'
  BY <1>3, OneEnds DEF ApplyVersion, ApplyRows, RollBack
<1>4. ASSUME UNCHANGED <<on, choice>>, \A y \in Principals : at'[y] = "idle" <=> at[y] = "idle"
      PROVE  Held'
  BY <1>0, <1>4, OneKeepsHolding DEF Held
<1>5. ASSUME NEW x \in Principals, LockObligation(x) \/ LockRows(x) PROVE Held'
  <2>1. UNCHANGED <<on, choice>> /\ at[x] = "holding" /\ at' = [at EXCEPT ![x] = "writing"]
    BY <1>5 DEF LockObligation, LockRows
  <2> QED
    BY <1>0, <1>4, <2>1 DEF TypeOK
<1>6. ASSUME UNCHANGED call PROVE Held'
  BY <1>4, <1>6
<1>7. ASSUME NEW x \in Principals, File(x) \/ \E p \in Singles : Reject(x, p) PROVE Held'
  BY <1>6, <1>7 DEF File, FileSingle, FileBatch, Reject
<1>8. CASE UNCHANGED vars
  BY <1>6, <1>8 DEF vars
<1> QED
  BY <1>1, <1>2, <1>3, <1>5, <1>7, <1>8 DEF Next, Decide

\* What a caller has locked, no other caller writes.
LEMMA LockedRowsRest ==
  ASSUME PropInv, [Next]_vars, NEW y \in Principals, at[y] = "writing", at'[y] = "writing",
         NEW o \in Obligations, o \in Writes(y)
  PROVE  versions'[o] = versions[o] /\ scope'[o] = scope[o]
<1>0. TypeOK /\ Held /\ Locked
  BY DEF PropInv
<1> USE DEF proposal, decided, library, call
<1>1. ASSUME NEW x \in Principals, ApplyVersion(x) PROVE versions'[o] = versions[o] /\ scope'[o] = scope[o]
  <2>1. x # y /\ at[x] = "writing"
    BY <1>0, <1>1, ReleaseIsOnesOwn DEF ApplyVersion
  <2>2. PICK t \in Obligations : t = TargetOf[on[x]]
    BY <1>1, ProposalsApart DEF ApplyVersion
  <2>3. Writes(x) = {t}
    BY <1>1, <2>2 DEF Writes, ApplyVersion
  <2>4. o # t
    BY <1>0, <2>1, <2>3 DEF Locked
  <2> QED
    BY <1>0, <1>1, <2>2, <2>4 DEF ApplyVersion, TypeOK
<1>2. ASSUME NEW x \in Principals, ApplyRows(x) PROVE versions'[o] = versions[o] /\ scope'[o] = scope[o]
  <2>1. x # y
    BY <1>0, <1>2, ReleaseIsOnesOwn DEF ApplyRows
  <2>2. o \notin Writes(x)
    BY <1>0, <1>2, <2>1 DEF ApplyRows, Locked
  <2> QED
    BY <1>2, <2>2 DEF ApplyRows
<1>3. ASSUME UNCHANGED library PROVE versions'[o] = versions[o] /\ scope'[o] = scope[o]
  BY <1>3
<1>4. ASSUME NEW x \in Principals,
             \/ File(x) \/ Decide(x) \/ LockObligation(x) \/ LockRows(x) \/ RollBack(x)
      PROVE  versions'[o] = versions[o] /\ scope'[o] = scope[o]
  <2>1. UNCHANGED library
    BY <1>4 DEF File, FileSingle, FileBatch, Decide, Reject, Approve, DecideBatch,
                LockObligation, LockRows, RollBack
  <2> QED
    BY <1>3, <2>1
<1>5. CASE UNCHANGED vars
  BY <1>3, <1>5 DEF vars
<1> QED
  BY <1>1, <1>2, <1>4, <1>5 DEF Next

\* A preview is written once, when its batch is filed.
LEMMA PreviewsStand ==
  ASSUME PropInv, [Next]_vars, NEW p \in Proposals, status[p] # "none"
  PROVE  before'[p] = before[p] /\ (p \in Batches => after'[p] = after[p])
<1>0. TypeOK
  BY DEF PropInv
<1> USE DEF proposal, decided, library, call
<1>1. ASSUME NEW x \in Principals, NEW q \in Singles, NEW s, FileSingle(x, q, s)
      PROVE  before'[p] = before[p] /\ (p \in Batches => after'[p] = after[p])
  BY <1>0, <1>1 DEF FileSingle, TypeOK
<1>2. ASSUME NEW x \in Principals, NEW b \in Batches, NEW rows, FileBatch(x, b, rows)
      PROVE  before'[p] = before[p] /\ (p \in Batches => after'[p] = after[p])
  <2>1. p # b
    BY <1>2 DEF FileBatch
  <2>2. before'[p] = before[p]
    BY <1>0, <1>2, <2>1 DEF FileBatch, TypeOK
  <2>3. PICK asked : after' = [after EXCEPT ![b] = asked]
    BY <1>2 DEF FileBatch
  <2>4. after'[p] = after[p]
    BY <1>0, <2>1, <2>3 DEF TypeOK
  <2> QED
    BY <2>2, <2>4
<1>3. ASSUME UNCHANGED <<before, after>> PROVE before'[p] = before[p] /\ (p \in Batches => after'[p] = after[p])
  BY <1>3
<1>4. ASSUME NEW x \in Principals,
             \/ Decide(x) \/ LockObligation(x) \/ LockRows(x)
             \/ ApplyVersion(x) \/ ApplyRows(x) \/ RollBack(x)
      PROVE  before'[p] = before[p] /\ (p \in Batches => after'[p] = after[p])
  <2>1. UNCHANGED <<before, after>>
    BY <1>4 DEF Decide, Reject, Approve, DecideBatch,
                LockObligation, LockRows, ApplyVersion, ApplyRows, RollBack
  <2> QED
    BY <1>3, <2>1
<1>5. CASE UNCHANGED vars
  BY <1>3, <1>5 DEF vars
<1> QED
  BY <1>1, <1>2, <1>4, <1>5 DEF Next, File

\* Whoever goes on writing has read what is still so.
LEMMA WriterReadsOn ==
  ASSUME PropInv, [Next]_vars, NEW y \in Principals, at[y] = "writing", at'[y] = "writing",
         on'[y] = on[y], choice'[y] = choice[y], seen'[y] = seen[y]
  PROVE  ReadIsCurrent(y)'
<1>0. TypeOK /\ Held /\ Locked
  BY DEF PropInv
<1>1. PICK p \in Proposals : p = on[y] /\ status[p] = "open"
  BY <1>0 DEF Held, Holds, MayDecide
<1>2. ReadIsCurrent(y) /\ on'[y] = p
  BY <1>0, <1>1 DEF Locked
<1>3. ASSUME p \in Singles PROVE seen'[y] = Cardinality(versions'[TargetOf[p]])
  <2>1. TargetOf[p] \in Obligations /\ TargetOf[p] \in Writes(y)
    BY <1>1, <1>3, ProposalsApart DEF Writes
  <2>2. versions'[TargetOf[p]] = versions[TargetOf[p]]
    BY <2>1, LockedRowsRest
  <2> QED
    BY <1>1, <1>2, <1>3, <2>2 DEF ReadIsCurrent
<1>4. ASSUME p \in Batches PROVE StillAsPreviewed(y)'
  <2>1. Writes(y)' = Writes(y)
    BY DEF Writes
  <2>2. ASSUME NEW o \in Writes(y) PROVE scope'[o] = before'[p][o]
    <3>1. o \in Obligations
      BY <1>1, <1>4, ProposalsApart DEF Writes
    <3>2. scope[o] = before[p][o]
      BY <1>1, <1>2, <1>4 DEF ReadIsCurrent, StillAsPreviewed
    <3> QED
      BY <1>1, <3>1, <3>2, LockedRowsRest, PreviewsStand
  <2> QED
    BY <1>2, <2>1, <2>2 DEF StillAsPreviewed
<1> QED
  BY <1>2, <1>3, <1>4 DEF ReadIsCurrent

LEMMA WritersGoOn ==
  ASSUME PropInv, [Next]_vars,
         \A y \in Principals : at'[y] = "writing" =>
           at[y] = "writing" /\ on'[y] = on[y] /\ choice'[y] = choice[y] /\ seen'[y] = seen[y]
  PROVE  Locked'
<1>1. \A y \in Principals : at'[y] = "writing" => ReadIsCurrent(y)'
  BY WriterReadsOn
<1>2. ASSUME NEW y \in Principals, NEW z \in Principals, at'[y] = "writing", at'[z] = "writing", y # z
      PROVE  Writes(y)' \cap Writes(z)' = {}
  <2>1. Writes(y)' = Writes(y) /\ Writes(z)' = Writes(z)
    BY <1>2 DEF Writes
  <2>2. Writes(y) \cap Writes(z) = {}
    BY <1>2 DEF PropInv, Locked
  <2> QED
    BY <2>1, <2>2
<1> QED
  BY <1>1, <1>2 DEF Locked

\* A caller that locks what nobody is writing reads it as it is.
LEMMA OneLocks ==
  ASSUME PropInv, [Next]_vars, NEW x \in Principals, ObligationsFree(x), UNCHANGED <<on, choice>>,
         at' = [at EXCEPT ![x] = "writing"],
         \A y \in Principals \ {x} : seen'[y] = seen[y],
         ReadIsCurrent(x)'
  PROVE  Locked'
<1>0. TypeOK /\ Locked
  BY DEF PropInv
<1>1. \A y \in Principals \ {x} : at'[y] = at[y]
  BY <1>0 DEF TypeOK
<1>2. \A y \in Principals \ {x} : at'[y] = "writing" => ReadIsCurrent(y)'
  BY <1>1, WriterReadsOn
<1>3. \A y \in Principals : Writes(y)' = Writes(y)
  BY DEF Writes
<1>4. ASSUME NEW y \in Principals, NEW z \in Principals, at'[y] = "writing", at'[z] = "writing", y # z
      PROVE  Writes(y) \cap Writes(z) = {}
  <2>1. y # x => at[y] = "writing"
    BY <1>1, <1>4
  <2>2. z # x => at[z] = "writing"
    BY <1>1, <1>4
  <2> QED
    BY <1>0, <1>4, <2>1, <2>2 DEF ObligationsFree, Locked
<1>5. \A y, z \in Principals :
        at'[y] = "writing" /\ at'[z] = "writing" /\ y # z => Writes(y)' \cap Writes(z)' = {}
  BY <1>3, <1>4
<1> QED
  BY <1>2, <1>5 DEF Locked

LEMMA LockedKept == ASSUME PropInv, [Next]_vars PROVE Locked'
<1>0. TypeOK /\ Numbered /\ Held /\ Locked
  BY DEF PropInv
<1> USE DEF proposal, decided, library, call
<1>1. ASSUME NEW x \in Principals, LockObligation(x) PROVE Locked'
  <2>1. TargetOf[on[x]] \in Obligations
    BY <1>1, ProposalsApart DEF LockObligation
  <2>2. /\ on[x] \in Singles /\ ObligationsFree(x) /\ at' = [at EXCEPT ![x] = "writing"]
        /\ seen' = [seen EXCEPT ![x] = Highest(TargetOf[on[x]])]
        /\ UNCHANGED <<on, choice, versions>>
    BY <1>1 DEF LockObligation
  <2>3. seen'[x] = Cardinality(versions[TargetOf[on[x]]])
        /\ \A y \in Principals \ {x} : seen'[y] = seen[y]
    BY <1>0, <2>1, <2>2, HighestIsTheirNumber DEF TypeOK
  <2>4. ReadIsCurrent(x)'
    BY <2>2, <2>3, ProposalsApart DEF ReadIsCurrent
  <2> QED
    BY <2>2, <2>3, <2>4, OneLocks
<1>2. ASSUME NEW x \in Principals, LockRows(x) PROVE Locked'
  <2>1. /\ on[x] \in Batches /\ ObligationsFree(x) /\ at' = [at EXCEPT ![x] = "writing"]
        /\ StillAsPreviewed(x) /\ UNCHANGED <<on, choice, seen, scope, before>>
    BY <1>2 DEF LockRows
  <2>2. Writes(x)' = Writes(x)
    BY <2>1 DEF Writes
  <2>3. StillAsPreviewed(x)'
    BY <2>1, <2>2 DEF StillAsPreviewed
  <2>4. ReadIsCurrent(x)'
    BY <2>1, <2>3, ProposalsApart DEF ReadIsCurrent
  <2> QED
    BY <2>1, <2>4, OneLocks
<1>3. ASSUME NEW x \in Principals, NEW p \in Proposals, NEW asked \in Choices, Hold(x, p, asked),
             UNCHANGED seen
      PROVE  Locked'
  <2>1. /\ at'[x] = "holding"
        /\ \A y \in Principals \ {x} : at'[y] = at[y] /\ on'[y] = on[y] /\ choice'[y] = choice[y]
    BY <1>0, <1>3, HoldIsOnesOwn
  <2> QED
    BY <1>3, <2>1, WritersGoOn
<1>4. ASSUME NEW x \in Principals, NEW p \in Singles, NEW s, Approve(x, p, s) PROVE Locked'
  <2>1. p \in Proposals /\ NoRows \in Choices
    BY DEF Proposals, NoRows, Choices
  <2> QED
    BY <1>3, <1>4, <2>1 DEF Approve
<1>5. ASSUME NEW u \in Users, NEW b \in Batches, NEW ids \in SUBSET Obligations,
             NEW named \in [ids -> Outcomes], NEW rest \in Outcomes \cup {"none"},
             DecideBatch(u, b, named, rest)
      PROVE  Locked'
  <2>1. b \in Proposals /\ u \in Principals
    BY DEF Proposals, Principals
  <2>2. Chosen(b, named, rest) \in Choices
    BY <1>0, <1>5, ChosenArePending DEF DecideBatch
  <2> QED
    BY <1>3, <1>5, <2>1, <2>2 DEF DecideBatch
<1>6. ASSUME NEW x \in Principals, ApplyVersion(x) \/ ApplyRows(x) \/ RollBack(x) PROVE Locked'
  <2>1. Release(x)
    BY <1>6 DEF ApplyVersion, ApplyRows, RollBack
  <2> QED
    BY <1>0, <2>1, ReleaseIsOnesOwn, WritersGoOn
<1>7. ASSUME UNCHANGED call PROVE Locked'
  BY <1>7, WritersGoOn
<1>8. ASSUME NEW x \in Principals, File(x) \/ \E p \in Singles : Reject(x, p) PROVE Locked'
  BY <1>7, <1>8 DEF File, FileSingle, FileBatch, Reject
<1>9. CASE UNCHANGED vars
  BY <1>7, <1>9 DEF vars
<1> QED
  BY <1>1, <1>2, <1>4, <1>5, <1>6, <1>8, <1>9 DEF Next, Decide

\* What a batch's call writes besides its rows.
LEMMA ClosingIsTheBatchs ==
  ASSUME PropInv, NEW x \in Principals, ApplyRows(x)
  PROVE  /\ \A p \in Proposals : p # on[x] => status'[p] = status[p] /\ reviewer'[p] = reviewer[p]
         /\ status[on[x]] = "open"
         /\ (\E o \in Obligations : row'[on[x]][o] = "pending") =>
              status'[on[x]] = "open" /\ reviewer'[on[x]] = reviewer[on[x]]
         /\ ~(\E o \in Obligations : row'[on[x]][o] = "pending") =>
              /\ reviewer'[on[x]] = x
              /\ status'[on[x]] =
                   IF \E o \in Obligations : row'[on[x]][o] = "approved" THEN "approved" ELSE "rejected"
         /\ UNCHANGED <<proposer, asker, before, after, versions>>
<1>0. TypeOK /\ Held
  BY DEF PropInv
<1>1. PICK b \in Batches : b = on[x]
  BY DEF ApplyRows
<1>2. b \in Proposals /\ Close(x, b) /\ UNCHANGED <<proposer, asker, before, after, versions>>
  BY <1>1 DEF ApplyRows, Proposals
<1>3. status[b] = "open"
  BY <1>1, ACallIsOfAPerson, <1>0 DEF Held, Holds, MayDecide
<1>4. CASE SomeRow(b, "pending")
  BY <1>1, <1>2, <1>3, <1>4 DEF Close, SomeRow
<1>5. CASE ~SomeRow(b, "pending")
  <2>1. /\ reviewer' = [reviewer EXCEPT ![b] = x]
        /\ status' = [status EXCEPT ![b] = IF SomeRow(b, "approved") THEN "approved" ELSE "rejected"]
    BY <1>2, <1>5 DEF Close
  <2>2. \A p \in Proposals : p # b => status'[p] = status[p] /\ reviewer'[p] = reviewer[p]
    BY <1>0, <2>1 DEF TypeOK
  <2>3. reviewer'[b] = x /\ status'[b] = IF SomeRow(b, "approved") THEN "approved" ELSE "rejected"
    BY <1>0, <1>2, <2>1 DEF TypeOK
  <2> QED
    BY <1>1, <1>2, <1>3, <1>5, <2>2, <2>3 DEF SomeRow
<1> QED
  BY <1>4, <1>5

LEMMA DecisionsKept ==
  ASSUME PropInv, [Next]_vars
  PROVE  DecisionsStand' /\ IndependentDecision' /\ BatchClosesWithItsRows'
<1>0. TypeOK /\ Held /\ DecisionsStand /\ IndependentDecision /\ BatchClosesWithItsRows
  BY DEF PropInv
<1> DEFINE Goal == DecisionsStand' /\ IndependentDecision' /\ BatchClosesWithItsRows'
<1> USE DEF proposal, decided, library, call
<1>1. ASSUME NEW x \in Principals, NEW p \in Singles, NEW s, FileSingle(x, p, s) PROVE Goal
  <2>1. /\ p \in Proposals /\ p \notin Batches /\ status[p] = "none"
        /\ status'[p] = "open" /\ UNCHANGED <<row, reviewer, decider, asker>>
        /\ \A q \in Proposals : q # p => status'[q] = status[q] /\ proposer'[q] = proposer[q]
    BY <1>0, <1>1, ProposalsApart DEF FileSingle, TypeOK, Proposals
  <2>2. reviewer[p] = None
    BY <1>0, <2>1 DEF DecisionsStand, Outcomes
  <2>3. DecisionsStand'
    BY <1>0, <2>1, <2>2 DEF DecisionsStand
  <2>4. IndependentDecision'
    BY <1>0, <2>1, <2>2 DEF IndependentDecision, Proposals
  <2>5. BatchClosesWithItsRows'
    BY <1>0, <2>1 DEF BatchClosesWithItsRows, Proposals
  <2> QED
    BY <2>3, <2>4, <2>5
<1>2. ASSUME NEW x \in Principals, NEW b \in Batches, NEW rows \in SUBSET Obligations,
             FileBatch(x, b, rows)
      PROVE  Goal
  <2> DEFINE rowNow == [o \in Obligations |-> IF o \in rows THEN "pending" ELSE "none"]
  <2>1. b \in Proposals /\ row' = [row EXCEPT ![b] = rowNow]
    BY <1>2 DEF FileBatch, Proposals
  <2>2. PICK o \in Obligations : rowNow[o] = "pending"
    BY <1>2 DEF FileBatch
  <2> HIDE DEF rowNow
  <2>3. /\ status[b] = "none" /\ status'[b] = "open" /\ UNCHANGED <<reviewer, decider>>
        /\ \A q \in Proposals : q # b =>
             /\ status'[q] = status[q] /\ proposer'[q] = proposer[q] /\ asker'[q] = asker[q]
             /\ row'[q] = row[q]
    BY <1>0, <1>2, <2>1 DEF FileBatch, TypeOK
  <2>4. row'[b][o] = "pending"
    BY <1>0, <2>1, <2>2 DEF TypeOK
  <2>5. reviewer[b] = None /\ \A q \in Obligations : decider[b][q] = None
    BY <1>0, <2>1, <2>3 DEF DecisionsStand, Outcomes
  <2>6. DecisionsStand'
    BY <1>0, <2>3, <2>5 DEF DecisionsStand
  <2>7. IndependentDecision'
    BY <1>0, <2>3, <2>5 DEF IndependentDecision, Proposals
  <2>8. BatchClosesWithItsRows'
    BY <1>0, <2>3, <2>4 DEF BatchClosesWithItsRows, Proposals
  <2> QED
    BY <2>6, <2>7, <2>8
<1>3. ASSUME NEW x \in Principals, NEW p \in Singles, UNCHANGED <<proposer, asker, row, decider>>,
             status' = [status EXCEPT ![p] = "rejected"] \/ status' = [status EXCEPT ![p] = "approved"],
             reviewer' = [reviewer EXCEPT ![p] = x], x # proposer[p], ~SameAgent(x, proposer[p])
      PROVE  Goal
  <2>1. /\ p \in Proposals /\ p \notin Batches /\ status'[p] \in Outcomes /\ reviewer'[p] = x
        /\ \A q \in Proposals : q # p => status'[q] = status[q] /\ reviewer'[q] = reviewer[q]
    BY <1>0, <1>3, ProposalsApart DEF TypeOK, Proposals, Outcomes
  <2>2. DecisionsStand'
    BY <1>0, <1>3, <2>1 DEF DecisionsStand, Outcomes
  <2>3. IndependentDecision'
    BY <1>0, <1>3, <2>1 DEF IndependentDecision, SameAgent
  <2>4. BatchClosesWithItsRows'
    BY <1>0, <1>3, <2>1 DEF BatchClosesWithItsRows, Proposals
  <2> QED
    BY <2>2, <2>3, <2>4
<1>4. ASSUME NEW x \in Principals, NEW p \in Singles, Reject(x, p) PROVE Goal
  BY <1>3, <1>4 DEF Reject, Decidable
<1>5. ASSUME NEW x \in Principals, ApplyVersion(x) PROVE Goal
  <2>1. PICK p \in Singles : p = on[x]
    BY <1>5 DEF ApplyVersion
  <2>2. x # proposer[p] /\ ~SameAgent(x, proposer[p])
    BY <1>0, <1>5, <2>1 DEF ApplyVersion, Held, Holds, MayDecide
  <2>3. /\ status' = [status EXCEPT ![p] = "approved"] /\ reviewer' = [reviewer EXCEPT ![p] = x]
        /\ UNCHANGED <<proposer, asker, row, decider>>
    BY <1>5, <2>1 DEF ApplyVersion
  <2> QED
    BY <1>3, <2>2, <2>3
<1>6. ASSUME NEW x \in Principals, ApplyRows(x) PROVE Goal
  <2>1. x \in Users /\ on[x] \in Batches /\ on[x] \in Proposals
    BY <1>6, ACallIsOfAPerson DEF Proposals
  <2>2. PICK b \in Batches : b = on[x] /\ b \in Proposals
    BY <2>1
  <2>3. x # proposer[b] /\ x # asker[b] /\ ~SameAgent(x, proposer[b])
    BY <1>0, <1>6, <2>2, ACallIsOfAPerson DEF Held, Holds, MayDecide
  <2>4. /\ \A p \in Proposals : p # b => row'[p] = row[p] /\ decider'[p] = decider[p]
        /\ \A o \in Obligations :
             /\ choice[x][o] = "none" => row'[b][o] = row[b][o] /\ decider'[b][o] = decider[b][o]
             /\ choice[x][o] # "none" => row'[b][o] = choice[x][o] /\ decider'[b][o] = x
    BY <1>0, <1>6, <2>1, <2>2, RowsAreTheBatchs
  <2>5. \A o \in Obligations : choice[x][o] # "none" => choice[x][o] \in Outcomes
    BY <1>0 DEF TypeOK
  <2>6. /\ \A p \in Proposals : p # b => status'[p] = status[p] /\ reviewer'[p] = reviewer[p]
        /\ status[b] = "open" /\ UNCHANGED <<proposer, asker>>
    BY <1>6, <2>2, ClosingIsTheBatchs
  <2>7. /\ (\E o \in Obligations : row'[b][o] = "pending") =>
             status'[b] = "open" /\ reviewer'[b] = reviewer[b]
        /\ ~(\E o \in Obligations : row'[b][o] = "pending") =>
             /\ reviewer'[b] = x
             /\ status'[b] = IF \E o \in Obligations : row'[b][o] = "approved"
                             THEN "approved" ELSE "rejected"
    BY <1>6, <2>2, ClosingIsTheBatchs
  <2>8. /\ status'[b] = "open" <=> \E o \in Obligations : row'[b][o] = "pending"
        /\ status'[b] = "approved" => \E o \in Obligations : row'[b][o] = "approved"
        /\ status'[b] = "rejected" => \A o \in Obligations : row'[b][o] # "approved"
        /\ status'[b] \in {"open", "approved", "rejected"}
        /\ reviewer'[b] \in {reviewer[b], x}
        /\ reviewer'[b] # reviewer[b] => status'[b] \in Outcomes
    BY <2>7 DEF Outcomes
  <2>9. reviewer[b] = None
    BY <1>0, <2>2, <2>6 DEF DecisionsStand, Outcomes
  <2>10. \A o \in Obligations : decider'[b][o] # None => row'[b][o] \in Outcomes
    BY <1>0, <2>2, <2>4, <2>5 DEF DecisionsStand
  <2>11. DecisionsStand'
    BY <1>0, <2>4, <2>6, <2>8, <2>9, <2>10 DEF DecisionsStand
  <2>12. \A o \in Obligations : decider'[b][o] # None => decider'[b][o] \notin {proposer[b], asker[b]}
    BY <1>0, <2>3, <2>4 DEF IndependentDecision
  <2>13. IndependentDecision'
    <3>1. ASSUME NEW p \in Proposals, reviewer'[p] # None
          PROVE  /\ reviewer'[p] # proposer'[p]
                 /\ Agent(reviewer'[p]) # None => Agent(reviewer'[p]) # Agent(proposer'[p])
      <4>1. CASE p = b
        BY <2>3, <2>6, <2>8, <2>9, <3>1, <4>1 DEF SameAgent
      <4>2. CASE p # b
        BY <1>0, <2>6, <3>1, <4>2 DEF IndependentDecision
      <4> QED
        BY <4>1, <4>2
    <3>2. ASSUME NEW c \in Batches, NEW o \in Obligations, decider'[c][o] # None
          PROVE  decider'[c][o] \notin {proposer'[c], asker'[c]}
      <4>1. CASE c = b
        BY <2>6, <2>12, <3>2, <4>1
      <4>2. CASE c # b
        BY <1>0, <2>4, <2>6, <3>2, <4>2 DEF IndependentDecision, Proposals
      <4> QED
        BY <4>1, <4>2
    <3> QED
      BY <3>1, <3>2 DEF IndependentDecision, Agent
  <2>14. BatchClosesWithItsRows'
    BY <1>0, <2>4, <2>6, <2>8 DEF BatchClosesWithItsRows, Proposals
  <2> QED
    BY <2>11, <2>13, <2>14
<1>7. ASSUME UNCHANGED <<status, proposer, asker, row, reviewer, decider>> PROVE Goal
  BY <1>0, <1>7 DEF DecisionsStand, IndependentDecision, BatchClosesWithItsRows
<1>8. ASSUME NEW x \in Principals,
             \/ \E p, s : Approve(x, p, s)
             \/ \E b, named, rest : DecideBatch(x, b, named, rest)
             \/ LockObligation(x) \/ LockRows(x) \/ RollBack(x)
      PROVE  Goal
  <2>1. UNCHANGED <<status, proposer, asker, row, reviewer, decider>>
    BY <1>8 DEF Approve, DecideBatch, LockObligation, LockRows, RollBack
  <2> QED
    BY <1>7, <2>1
<1>9. ASSUME UNCHANGED vars PROVE Goal
  BY <1>7, <1>9 DEF vars
<1> HIDE DEF Goal
<1>10. Goal
  BY <1>1, <1>2, <1>4, <1>5, <1>6, <1>8, <1>9 DEF Next, File, Decide
<1> QED
  BY <1>10 DEF Goal

-----------------------------------------------------------------------------
(* The theorems. *)

LEMMA NothingIsFiledAtFirst == Init => PropInv
<1> SUFFICES ASSUME Init PROVE PropInv
  OBVIOUS
<1> USE DEF Init
<1>1. TypeOK
  <2>1. NoRows \in Choices /\ NoRows \in [Obligations -> {"none", "pending", "approved", "rejected"}]
    BY DEF NoRows, Choices
  <2>2. {} \in Scopes /\ <<1, None>> \in Nat \X (Singles \cup {None})
    BY DEF Scopes
  <2> QED
    BY <2>1, <2>2 DEF TypeOK, Choices
<1>2. Numbered
  <2>1. IsFiniteSet({<<1, None>>}) /\ Cardinality({<<1, None>>}) = 1
    BY FS_Singleton
  <2>2. {v[1] : v \in {<<1, None>>}} = 1 .. 1
    OBVIOUS
  <2>3. \A o \in Obligations : versions[o] = {<<1, None>>}
    OBVIOUS
  <2>4. ASSUME NEW o \in Obligations
        PROVE  /\ IsFiniteSet(versions[o]) /\ Cardinality(versions[o]) >= 1
               /\ {v[1] : v \in versions[o]} = 1 .. Cardinality(versions[o])
    <3>1. versions[o] = {<<1, None>>}
      BY <2>3
    <3>2. Cardinality(versions[o]) = 1 /\ IsFiniteSet(versions[o])
      BY <2>1, <3>1
    <3>3. {v[1] : v \in versions[o]} = 1 .. 1
      BY <2>2, <3>1
    <3>4. Cardinality(versions[o]) >= 1
      BY <3>2
    <3> HIDE DEF Init
    <3> QED
      BY <3>2, <3>3, <3>4, Zenon
  <2> HIDE DEF Init
  <2> QED
    BY <2>4, Zenon DEF Numbered
<1>3. OneVersionEach
  <2>1. ASSUME NEW p \in Singles
        PROVE  status[p] # "approved" /\ \A v \in versions[TargetOf[p]] : v[2] # p
    <3>1. p \in Proposals /\ status[p] = "none" /\ versions[TargetOf[p]] = {<<1, None>>}
      BY ProposalsApart DEF Proposals
    <3>2. <<1, None>>[2] # p
      BY <3>1, NoneIsNobody
    <3> QED
      BY <3>1, <3>2
  <2> QED
    BY <2>1 DEF OneVersionEach
<1>4. \A p \in Proposals, o \in Obligations : row[p][o] = "none" /\ decider[p][o] = None
  BY DEF NoRows
<1>5. RowsHaveScopes
  BY <1>4 DEF RowsHaveScopes, Proposals
<1>6. Held
  BY NoneIsNobody DEF Held, Holds
<1>7. Locked
  BY DEF Locked
<1>8. DecisionsStand
  BY <1>4 DEF DecisionsStand
<1>9. IndependentDecision
  BY <1>4 DEF IndependentDecision, Proposals
<1>10. BatchClosesWithItsRows
  BY <1>4 DEF BatchClosesWithItsRows, Proposals
<1> QED
  BY <1>1, <1>2, <1>3, <1>5, <1>6, <1>7, <1>8, <1>9, <1>10 DEF PropInv

\* Every decision, at every point between its two locks, stands on what it
\* has read (logic._decidable, batch.decide, apply.apply).
THEOREM ProposalsInvariant == Spec => []PropInv
<1>1. PropInv /\ [Next]_vars => PropInv'
  BY TypesKept, VersionsKept, RowsKept, HeldKept, LockedKept, DecisionsKept DEF PropInv
<1> QED
  BY <1>1, NothingIsFiledAtFirst, PTL DEF Spec

\* However many approvals meet on one obligation, the versions it has are the
\* proposals that were approved, one each, numbered in the order of their
\* approval without a gap (apply._obligation_version).
THEOREM LibraryIsWhatWasApproved == Spec => []VersionsFollowApprovals
<1>1. PropInv => VersionsFollowApprovals
  <2> SUFFICES ASSUME PropInv PROVE VersionsFollowApprovals
    OBVIOUS
  <2>0. Numbered /\ OneVersionEach
    BY DEF PropInv
  <2>1. ASSUME NEW p \in Singles
        PROVE  Cardinality({v \in versions[TargetOf[p]] : v[2] = p}) =
                 IF status[p] = "approved" THEN 1 ELSE 0
    <3> DEFINE its == {v \in versions[TargetOf[p]] : v[2] = p}
    <3>1. CASE status[p] = "approved"
      <4>1. PICK v \in versions[TargetOf[p]] : v[2] = p
        BY <2>0, <3>1 DEF OneVersionEach
      <4>2. its = {v}
        BY <2>0, <4>1 DEF OneVersionEach
      <4>3. Cardinality({v}) = 1
        BY FS_Singleton
      <4> QED
        BY <3>1, <4>2, <4>3
    <3>2. CASE status[p] # "approved"
      <4>1. its = {}
        BY <2>0, <3>2 DEF OneVersionEach
      <4>2. Cardinality({}) = 0
        BY FS_EmptySet
      <4> QED
        BY <3>2, <4>1, <4>2
    <3> QED
      BY <3>1, <3>2
  <2> QED
    BY <2>0, <2>1 DEF VersionsFollowApprovals, Numbered
<1> QED
  BY <1>1, ProposalsInvariant, PTL

\* A batch is open exactly while a row of it waits, and closes as approved
\* exactly when one of its rows was, whichever call settled it (batch._close).
THEOREM BatchesClose == Spec => []BatchClosesWithItsRows
<1>1. PropInv => BatchClosesWithItsRows
  BY DEF PropInv
<1> QED
  BY <1>1, ProposalsInvariant, PTL

\* Nobody decides what they, their agent or their request proposed, and what
\* was decided is never decided again (logic._decidable, batch.decide).
THEOREM DecisionsAreIndependentAndFinal == Spec => DecidedOnceByAnother
<1> DEFINE Once == /\ IndependentDecision'
                   /\ \A p \in Proposals :
                        /\ reviewer[p] # None => status'[p] = status[p] /\ reviewer'[p] = reviewer[p]
                        /\ \A o \in Obligations :
                             decider[p][o] # None => row'[p][o] = row[p][o] /\ decider'[p][o] = decider[p][o]
           Final == \A p \in Proposals :
                      /\ reviewer[p] # None => status'[p] = status[p] /\ reviewer'[p] = reviewer[p]
                      /\ \A o \in Obligations :
                           decider[p][o] # None => row'[p][o] = row[p][o] /\ decider'[p][o] = decider[p][o]
<1>1. ASSUME PropInv, [Next]_vars PROVE Once
  <2>0. TypeOK /\ Held /\ DecisionsStand
    BY <1>1 DEF PropInv
  <2> USE DEF proposal, decided, library, call
  <2>1. IndependentDecision'
    BY <1>1, DecisionsKept
  <2>open. \A p \in Proposals :
             status[p] \notin Outcomes => reviewer[p] = None
    BY <2>0 DEF DecisionsStand
  <2>2. ASSUME NEW p \in Proposals, status[p] = "open" \/ status[p] = "none",
               \A q \in Proposals : q # p => status'[q] = status[q] /\ reviewer'[q] = reviewer[q],
               UNCHANGED <<row, decider>>
        PROVE  Final
    BY <2>2, <2>open DEF Outcomes
  <2>3. ASSUME NEW x \in Principals, NEW p \in Singles, NEW s, FileSingle(x, p, s) PROVE Final
    BY <2>0, <2>2, <2>3 DEF FileSingle, TypeOK, Proposals
  <2>4. ASSUME NEW x \in Principals, NEW p \in Singles, Reject(x, p) PROVE Final
    BY <2>0, <2>2, <2>4 DEF Reject, Decidable, TypeOK, Proposals
  <2>5. ASSUME NEW x \in Principals, ApplyVersion(x) PROVE Final
    <3>1. PICK p \in Singles : p = on[x]
      BY <2>5 DEF ApplyVersion
    <3>2. p \in Proposals /\ status[p] = "open"
      BY <2>0, <2>5, <3>1, HolderMayDecide DEF ApplyVersion, MayDecide
    <3>3. /\ status' = [status EXCEPT ![p] = "approved"] /\ reviewer' = [reviewer EXCEPT ![p] = x]
          /\ UNCHANGED <<row, decider>>
      BY <2>5, <3>1 DEF ApplyVersion
    <3> QED
      BY <2>0, <2>2, <3>2, <3>3 DEF TypeOK
  <2>6. ASSUME NEW x \in Principals, NEW b \in Batches, NEW rows \in SUBSET Obligations,
               FileBatch(x, b, rows)
        PROVE  Final
    <3>1. /\ b \in Proposals /\ status[b] = "none" /\ UNCHANGED <<reviewer, decider>>
          /\ \A q \in Proposals : q # b => status'[q] = status[q] /\ row'[q] = row[q]
      BY <2>0, <2>6 DEF FileBatch, TypeOK, Proposals
    <3>2. reviewer[b] = None /\ \A o \in Obligations : decider[b][o] = None
      BY <2>0, <3>1 DEF DecisionsStand, Outcomes
    <3> QED
      BY <3>1, <3>2
  <2>7. ASSUME NEW x \in Principals, ApplyRows(x) PROVE Final
    <3>1. x \in Users /\ on[x] \in Batches /\ at[x] # "idle"
      BY <1>1, <2>7, ACallIsOfAPerson
    <3>2. PICK b \in Proposals : b = on[x]
      BY <3>1 DEF Proposals
    <3>3. /\ status[b] = "open"
          /\ \A p \in Proposals : p # b => status'[p] = status[p] /\ reviewer'[p] = reviewer[p]
      BY <1>1, <2>7, <3>2, ClosingIsTheBatchs
    <3>4. \A o \in Obligations : choice[x][o] # "none" => row[b][o] = "pending"
      BY <2>0, <3>1, <3>2, HolderMayDecide DEF MayDecide
    <3>5. \A o \in Obligations : decider[b][o] # None => choice[x][o] = "none"
      BY <2>0, <3>4 DEF DecisionsStand, Outcomes
    <3>6. /\ \A p \in Proposals : p # b => row'[p] = row[p] /\ decider'[p] = decider[p]
          /\ \A o \in Obligations :
               choice[x][o] = "none" => row'[b][o] = row[b][o] /\ decider'[b][o] = decider[b][o]
      BY <2>0, <2>7, <3>1, <3>2, RowsAreTheBatchs
    <3>7. reviewer[b] = None
      BY <2>open, <3>3 DEF Outcomes
    <3> QED
      BY <3>3, <3>5, <3>6, <3>7
  <2>8. ASSUME UNCHANGED <<status, row, reviewer, decider>> PROVE Final
    BY <2>8
  <2>9. ASSUME NEW x \in Principals,
               \/ \E p, s : Approve(x, p, s)
               \/ \E b, named, rest : DecideBatch(x, b, named, rest)
               \/ LockObligation(x) \/ LockRows(x) \/ RollBack(x)
        PROVE  Final
    <3>1. UNCHANGED <<status, row, reviewer, decider>>
      BY <2>9 DEF Approve, DecideBatch, LockObligation, LockRows, RollBack
    <3> QED
      BY <2>8, <3>1
  <2>10. ASSUME UNCHANGED vars PROVE Final
    BY <2>8, <2>10 DEF vars
  <2> HIDE DEF Final
  <2>11. Final
    BY <1>1, <2>3, <2>4, <2>5, <2>6, <2>7, <2>9, <2>10 DEF Next, File, Decide
  <2> QED
    BY <2>1, <2>11 DEF Final
<1> QED
  BY <1>1, ProposalsInvariant, PTL DEF Spec, DecidedOnceByAnother

\* A row is applied over the scope its reviewer was shown and leaves the scope
\* they were shown, though others approve in between (batch.decide and
\* apply._obligation_scope).
THEOREM RowsAreAppliedAsPreviewed == Spec => AppliedAsPreviewed
<1> DEFINE AsShown(b, o) ==
      row[b][o] # "approved" /\ row'[b][o] = "approved" =>
        scope[o] = before[b][o] /\ scope'[o] = after[b][o]
<1>1. ASSUME PropInv, [Next]_vars, NEW b \in Batches, NEW o \in Obligations PROVE AsShown(b, o)
  <2> SUFFICES ASSUME row[b][o] # "approved", row'[b][o] = "approved"
               PROVE  scope[o] = before[b][o] /\ scope'[o] = after[b][o]
    OBVIOUS
  <2>0. TypeOK /\ Held /\ Locked /\ RowsHaveScopes /\ b \in Proposals
    BY <1>1 DEF PropInv, Proposals
  <2> USE DEF proposal, decided, library, call
  <2>1. ASSUME NEW x \in Principals, NEW c \in Batches, NEW rows \in SUBSET Obligations,
               FileBatch(x, c, rows)
        PROVE  row'[b][o] # "approved" \/ row'[b] = row[b]
    <3> DEFINE rowNow == [q \in Obligations |-> IF q \in rows THEN "pending" ELSE "none"]
    <3>1. row' = [row EXCEPT ![c] = rowNow] /\ rowNow[o] # "approved"
      BY <2>1 DEF FileBatch
    <3> HIDE DEF rowNow
    <3> QED
      BY <2>0, <3>1 DEF TypeOK
  <2>2. UNCHANGED row \/ (\E x \in Principals : ApplyRows(x))
    <3>1. ASSUME NEW x \in Principals, File(x) PROVE UNCHANGED row
      BY <2>1, <3>1 DEF File, FileSingle
    <3>2. ASSUME NEW x \in Principals, Decide(x) PROVE UNCHANGED row
      BY <3>2 DEF Decide, Reject, Approve, DecideBatch
    <3>3. ASSUME NEW x \in Principals,
                 LockObligation(x) \/ LockRows(x) \/ ApplyVersion(x) \/ RollBack(x)
          PROVE  UNCHANGED row
      BY <3>3 DEF LockObligation, LockRows, ApplyVersion, RollBack
    <3> QED
      BY <1>1, <3>1, <3>2, <3>3 DEF Next, vars
  <2>3. PICK x \in Principals : ApplyRows(x)
    BY <2>2
  <2>4. x \in Users /\ on[x] \in Batches /\ at[x] # "idle"
    BY <1>1, <2>3, ACallIsOfAPerson
  <2>5. /\ \A p \in Proposals : p # on[x] => row'[p] = row[p]
        /\ \A q \in Obligations :
             /\ choice[x][q] = "none" => row'[on[x]][q] = row[on[x]][q]
             /\ choice[x][q] # "none" => row'[on[x]][q] = choice[x][q]
    BY <2>0, <2>3, <2>4, RowsAreTheBatchs
  <2>6. b = on[x] /\ choice[x][o] = "approved"
    BY <2>0, <2>5
  <2>7. o \in Writes(x)
    BY <2>6, ProposalsApart DEF Writes
  <2>8. at[x] = "writing" /\ StillAsPreviewed(x)
    BY <2>0, <2>3, <2>6, <2>7 DEF ApplyRows, Locked, ReadIsCurrent
  <2>9. scope[o] = before[b][o]
    BY <2>6, <2>7, <2>8 DEF StillAsPreviewed
  <2>10. before[b][o] \in Scopes /\ after[b][o] \in Scopes
    <3>1. row[b][o] = "pending"
      BY <2>0, <2>4, <2>6, HolderMayDecide DEF MayDecide
    <3> QED
      BY <2>0, <3>1 DEF RowsHaveScopes
  <2>11. scope'[o] = Retagged(b, o)
    BY <2>3, <2>6, <2>7 DEF ApplyRows
  <2>12. Retagged(b, o) = after[b][o]
    BY <2>9, <2>10 DEF Retagged, Scopes
  <2> QED
    BY <2>9, <2>11, <2>12
<1>2. PropInv /\ [Next]_vars => \A b \in Batches, o \in Obligations : AsShown(b, o)
  BY <1>1
<1> QED
  BY <1>2, ProposalsInvariant, PTL DEF Spec, AppliedAsPreviewed
=============================================================================
