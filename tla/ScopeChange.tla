---------------------------- MODULE ScopeChange ----------------------------
(***************************************************************************)
(* One bank's regulatory scope and the requests that change it             *)
(* (apps/taxonomy/footprint_logic.py): terms, scope items and company      *)
(* lines enter and leave by one request at a time, asked for by one person *)
(* and decided by another, under the request's row lock.                   *)
(*                                                                         *)
(* Asking is two steps, because the route validates what was named before  *)
(* create_request inserts the row; deciding is three: the row is locked    *)
(* and read, then the decision is checked and its preview counted, then    *)
(* everything is written and committed.  No lock holds the library or the  *)
(* bank's cases, so what the preview counts changes between any two steps. *)
(*                                                                         *)
(* A request adds at most one scope item, which is named by the request.   *)
(* The request's version is left out: it is 1 while the request waits and  *)
(* 2 after, so If-Match refuses nothing that the status does not decide.   *)
(***************************************************************************)
EXTENDS FootprintRule, Naturals, Sequences, SequencesExt

CONSTANTS People, Requests, Lines,   \* a line is a term of one company's own scope
          Dims,            \* the taxonomy's dimension rows
          Records,         \* what a preview counts, as its term set: obligations or cases
          StartRecords,    \* those there are at first; bound: each of the others comes once,
          MayMove,         \* and each of those that may leave leaves once
          Changes,         \* what the people of this instance ask for
          StartFootprint, MayRetire, None

ASSUME ScopeChangeAssumption ==
  /\ Dims \in [Dimensions -> DimensionRows]
  /\ Records \subseteq SUBSET Terms /\ StartRecords \subseteq Records
  /\ MayMove \subseteq Records /\ StartFootprint \subseteq Terms
  /\ Requests \subseteq Nat /\ None \notin People \cup Requests
  /\ Terms \cap Lines = {} /\ Terms \cap Requests = {} /\ Lines \cap Requests = {}
  /\ \A c \in Changes :
       /\ c.adds \cup c.removes \cup c.itemTerms \subseteq Terms /\ c.excludes \subseteq Lines
       /\ c.adds \cap c.removes = {}   \* _validate_change: or validation_error

VARIABLES request,   \* the request rows
          footprint, \* the bank's terms
          outside,   \* the lines taken out of their company's scope
          item,      \* the status of the item each request adds
          ledger,    \* footprint_history: what happened to each thing, in order
          retired,   \* terms and companies no longer active
          draft,     \* what a person's request has read and not yet inserted
          deciding,  \* the request whose row a person's decision has locked, and how it decides
          listed,    \* the records there are
          counted,   \* the preview a decision has counted and not yet written
          basis,     \* history: the scope each decision was taken on
          stood      \* history: what was listed between a decision's lock and its count
          \* (a change is [adds, removes, itemTerms, itemRemoves, excludes, includes];
          \* itemTerms are what the item it adds rests on, none when it adds no item)

scope == <<footprint, outside, item, ledger>>
counting == <<listed, counted, stood>>
vars == <<request, scope, retired, draft, deciding, counting, basis>>

Things == Terms \cup Lines \cup Requests
NoPreview == [hidden |-> {}, revealed |-> {}]
Uncounted == [hidden |-> None, revealed |-> None]
NoRequest == [status |-> "none", by |-> None, decidedBy |-> None, change |-> None, preview |-> NoPreview]
Idle == [of |-> None, verb |-> "none"]

Undecided(p) == draft[p] = None /\ deciding[p] = Idle
ItemsIn == {r \in Requests : item[r] = "in_scope"}
Scope == <<footprint, outside, ItemsIn>>
AddsItem(c) == c.itemTerms # {}
Active(things) == things \cap retired = {}

Init ==
  /\ request = [r \in Requests |-> NoRequest]
  /\ footprint = StartFootprint /\ outside = {}
  /\ item = [r \in Requests |-> "none"]
  /\ ledger = [x \in Things |-> IF x \in StartFootprint THEN <<"added">> ELSE <<>>]
  /\ retired = {}
  /\ draft = [p \in People |-> None]
  /\ deciding = [p \in People |-> Idle]
  /\ listed = StartRecords
  /\ counted = [p \in People |-> Uncounted]
  /\ basis = [r \in Requests |-> Scope]
  /\ stood = [p \in People |-> {}]

\* A term is retired or a company deactivated by its own module, whatever waits.
Retire(x) ==
  /\ retired' = retired \cup {x}
  /\ UNCHANGED <<request, scope, draft, deciding, counting, basis>>

\* An obligation is published or withdrawn, a case opened or closed, whatever waits.
Move(record) ==
  /\ record \in listed <=> record \in StartRecords
  /\ listed' = IF record \in listed THEN listed \ {record} ELSE listed \cup {record}
  /\ stood' = [p \in People |-> IF deciding[p] # Idle /\ counted[p] = Uncounted
                                THEN stood[p] \cup {listed'} ELSE stood[p]]
  /\ UNCHANGED <<request, scope, retired, draft, deciding, counted, basis>>

(* What a change hides and reveals of the records there are, by the Python half of the rule. *)
After(c) == (footprint \cup c.adds) \ c.removes
Seen(records, f) == {record \in records : InFootprint(record, f, Dims)}
Difference(records, now, after) ==
  [hidden   |-> Seen(records, now) \ Seen(records, after),
   revealed |-> Seen(records, after) \ Seen(records, now)]
PreviewOf(c) == Difference(listed, footprint, After(c))

(* Asking. *)
Validate(p, c) ==
  /\ Undecided(p)
  /\ Active(c.adds \cup c.removes \cup c.itemTerms \cup c.excludes \cup c.includes)
  /\ c.itemRemoves \subseteq ItemsIn
  /\ c.excludes \cap outside = {} /\ c.includes \subseteq outside
  /\ draft' = [draft EXCEPT ![p] = c]
  /\ UNCHANGED <<request, scope, retired, deciding, counting, basis>>

\* mutant: without the partial unique constraint
AnyPending == FALSE
Waiting == \E r \in Requests : request[r].status = "pending"

\* The constraint footprint_change_request_one_pending decides: request_pending.
CreateRequest(p, r) ==
  /\ draft[p] # None
  /\ request[r] = NoRequest /\ \A q \in Requests : q < r => request[q] # NoRequest
  /\ draft' = [draft EXCEPT ![p] = None]
  /\ IF Waiting
     THEN UNCHANGED <<request, item>>
     ELSE /\ request' = [request EXCEPT ![r] =
               [status |-> "pending", by |-> p, decidedBy |-> None, change |-> draft[p],
                preview |-> PreviewOf(draft[p])]]
          /\ item' = IF AddsItem(draft[p]) THEN [item EXCEPT ![r] = "requested"] ELSE item
  /\ UNCHANGED <<footprint, outside, ledger, retired, deciding, counting, basis>>

(* Deciding. *)
\* mutant: the row is read without its lock
RowRead(r) == TRUE
RowFree(r) == \A p \in People : deciding[p].of # r

\* _decidable: the row is locked, then its status is read.  The route lets only the
\* person who asked withdraw.
Decidable(p, r, verb) ==
  /\ Undecided(p) /\ RowFree(r)
  /\ request[r].status = "pending"
  /\ verb = "withdrawn" => request[r].by = p
  /\ deciding' = [deciding EXCEPT ![p] = [of |-> r, verb |-> verb]]
  /\ stood' = [stood EXCEPT ![p] = {listed}]
  /\ UNCHANGED <<request, scope, retired, draft, listed, counted, basis>>

\* mutant: the counts of the day it was sent
AsSent(r) == request[r].preview
\* preview_of, counted again for the decision
Recounted(r) == PreviewOf(request[r].change)

\* The second person, nothing retired that would be switched on, and then the count.
Count(p) ==
  LET r == deciding[p].of
      c == request[r].change
  IN  /\ deciding[p] # Idle /\ counted[p] = Uncounted
      /\ deciding[p].verb # "withdrawn" => request[r].by # p
      /\ deciding[p].verb = "approved" => Active(c.adds \cup c.itemTerms \cup c.excludes \cup c.includes)
      /\ counted' = [counted EXCEPT ![p] = Recounted(r)]
      /\ UNCHANGED <<request, scope, retired, draft, deciding, listed, basis, stood>>

Done(p) ==
  /\ deciding' = [deciding EXCEPT ![p] = Idle]
  /\ counted' = [counted EXCEPT ![p] = Uncounted]
  /\ stood' = [stood EXCEPT ![p] = {}]

\* _decide: the status, who decided, and the counts it was taken against
Decide(p, r, status) ==
  /\ counted[p] # Uncounted
  /\ request' = [request EXCEPT ![r].status = status,
                                ![r].decidedBy = IF status = "withdrawn" THEN None ELSE p,
                                ![r].preview = counted[p]]
  /\ basis' = [basis EXCEPT ![r] = Scope]
  /\ Done(p)

\* mutant: a history row for every term named, whether or not it moved
Named(c) == [on |-> c.adds \cup (c.includes \cap outside), off |-> (c.removes \cap footprint) \cup (c.excludes \ outside)]
\* The terms and lines a change really moves: get_or_create and delete skip the rest.
Moved(c) ==
  [on  |-> (c.adds \ footprint) \cup (c.includes \cap outside),
   off |-> (c.removes \cap footprint) \cup (c.excludes \ outside)]

\* Scope items are moved whatever their status: an item that another request took out
\* between the route's check and the insert is taken out again.
Switched(r) ==
  LET c   == request[r].change
      on  == Moved(c).on \cup (IF AddsItem(c) THEN {r} ELSE {})
      off == Moved(c).off \cup c.itemRemoves
  IN  [x \in Things |-> IF x \in on THEN Append(ledger[x], "added")
                        ELSE IF x \in off THEN Append(ledger[x], "removed") ELSE ledger[x]]

Approve(p) ==
  LET r == deciding[p].of
      c == request[r].change
  IN  /\ deciding[p].verb = "approved"
      /\ Decide(p, r, "approved")
      /\ footprint' = After(c)
      /\ outside' = (outside \cup c.excludes) \ c.includes
      /\ item' = [x \in Requests |-> IF x \in c.itemRemoves THEN "removed"
                                     ELSE IF x = r /\ AddsItem(c) THEN "in_scope" ELSE item[x]]
      /\ ledger' = Switched(r)
      /\ UNCHANGED <<retired, draft, listed>>

\* Reject and withdraw: the scope stays as it is, and the item never enters it.
TurnDown(p) ==
  LET r == deciding[p].of
  IN  /\ deciding[p].verb \in {"rejected", "withdrawn"}
      /\ Decide(p, r, deciding[p].verb)
      /\ item' = IF item[r] = "requested" THEN [item EXCEPT ![r] = "declined"] ELSE item
      /\ UNCHANGED <<footprint, outside, ledger, retired, draft, listed>>

\* four_eyes_violation, stale_write or a lost connection: nothing is written.
GiveUp(p) ==
  /\ deciding[p] # Idle /\ Done(p)
  /\ UNCHANGED <<request, scope, retired, draft, listed, basis>>

Next ==
  \/ \E x \in MayRetire \ retired : Retire(x)
  \/ \E record \in MayMove : Move(record)
  \/ \E p \in People :
       \/ \E c \in Changes : Validate(p, c)
       \/ \E r \in Requests : CreateRequest(p, r)
       \/ \E r \in Requests, verb \in {"approved", "rejected", "withdrawn"} : Decidable(p, r, verb)
       \/ Count(p) \/ Approve(p) \/ TurnDown(p) \/ GiveUp(p)

Spec == Init /\ [][Next]_vars
-----------------------------------------------------------------------------
TypeOK ==
  /\ footprint \subseteq Terms /\ outside \subseteq Lines
  /\ \A r \in Requests :
       /\ request[r] = NoRequest \/
            /\ request[r].by \in People /\ request[r].change \in Changes
            /\ request[r].status \in {"pending", "approved", "rejected", "withdrawn"}
            /\ request[r].decidedBy \in People \cup {None}
       /\ item[r] \in {"none", "requested", "in_scope", "removed", "declined"}
  /\ ledger \in [Things -> Seq({"added", "removed"})]
  /\ retired \subseteq MayRetire
  /\ draft \in [People -> Changes \cup {None}]
  /\ \A p \in People : deciding[p] = Idle \/ deciding[p].of \in Requests
  /\ listed \subseteq Records
  /\ \A p \in People : counted[p] = Uncounted \/ counted[p].hidden \cup counted[p].revealed \subseteq Records
  /\ stood \in [People -> SUBSET SUBSET Records]

\* What the four-eyes control of a scope change promises: each request is FourEyes,
\* where the material is the scope itself.  "Two people editing the same footprint from
\* two previews would each approve a change the other's preview never counted"
\* (create_request): while a request waits nothing moves the scope under it, one other
\* person decides it, and no second decision lands on it.
Eyes(r) ==
  INSTANCE FourEyes WITH
    Materials <- (SUBSET Terms) \X (SUBSET Lines) \X (SUBSET Requests),
    asker     <- IF request[r].status = "withdrawn" THEN None ELSE request[r].by,
    decider   <- request[r].decidedBy,
    material  <- IF request[r].decidedBy = None THEN Scope ELSE basis[r]
EachIsFourEyes ==
  /\ \A r \in Requests : Eyes(r)!Init
  /\ [][\A r \in Requests : UNCHANGED Eyes(r)!eyes \/ Eyes(r)!Next]_vars

LastIs(x, what) == ledger[x] # <<>> /\ ledger[x][Len(ledger[x])] = what

\* FootprintHistory answers "what was our footprint on that date": replayed, it gives the
\* scope as it stands, and a row of a term or a line is there because that term or line
\* moved, however requests, retirements and retries were mixed.
HistoryRebuildsScope ==
  /\ \A t \in Terms : t \in footprint <=> LastIs(t, "added")
  /\ \A l \in Lines : l \in outside <=> LastIs(l, "removed")
  /\ \A r \in Requests : r \in ItemsIn <=> LastIs(r, "added")
  /\ \A x \in Terms \cup Lines : \A i \in 2..Len(ledger[x]) : ledger[x][i] # ledger[x][i - 1]

\* "A decided request never shows the counts from when it was sent" (_decide): it keeps what
\* the decision itself hides and reveals, of records that were there at one moment while
\* the decider held the row, though the library, the cases and other people's requests
\* moved while it waited and while it was decided.
DecidedOnTodaysCounts ==
  [][\A r \in Requests :
       request[r].status = "pending" /\ request'[r].status # "pending" =>
         \E p \in People : \E records \in stood[p] :
           /\ deciding[p].of = r
           /\ request'[r].preview =
                Difference(records, footprint,
                  IF request'[r].status = "approved" THEN footprint' ELSE After(request[r].change))]_vars
=============================================================================
