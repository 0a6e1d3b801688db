------------------------ MODULE FootprintRule_proofs ------------------------
(***************************************************************************)
(* The two halves of the scope rule agree, the rule is monotone, and the   *)
(* verdicts cached on the cases follow it: for every set of dimensions,    *)
(* terms and banks, and every number of events and dying batches.          *)
(***************************************************************************)
EXTENDS CaseFootprint, TLAPS

\* A guarded term is one of a restricting dimension that either is opt-in or
\* has a term in the footprint.
LEMMA GuardedTerm ==
  ASSUME NEW dims \in [Dimensions -> DimensionRows], NEW named \in SUBSET Terms,
         NEW t \in Terms
  PROVE  t \in GuardTerms(named, dims) <=>
           /\ DimensionOf[t] \in Restricting(dims)
           /\ DimensionOf[t] \in OptIn(dims) \/ TermsIn(named, DimensionOf[t]) # {}
  BY TermsAssumption DEF GuardTerms, Restricting, OptIn, DimensionRows

\* scope_admits says: of every guarded dimension the record carries a term in,
\* the footprint names one of the record's terms.
LEMMA AdmitsPerDimension ==
  ASSUME NEW dims \in [Dimensions -> DimensionRows], NEW named \in SUBSET Terms,
         NEW record \in SUBSET Terms
  PROVE  SqlInFootprint(record, named, dims) <=>
           \A t \in record \cap GuardTerms(named, dims) :
             \E s \in record \cap GuardTerms(named, dims) \cap named :
               DimensionOf[s] = DimensionOf[t]
<1> DEFINE guarded == record \cap GuardTerms(named, dims)
<1>1. SqlInFootprint(record, named, dims) <=>
        {DimensionOf[t] : t \in guarded} \subseteq {DimensionOf[t] : t \in guarded \cap named}
  BY DEF SqlInFootprint, ScopeAdmits
<1>2. @ <=> \A t \in guarded : \E s \in guarded \cap named : DimensionOf[s] = DimensionOf[t]
  OBVIOUS
<1> QED
  BY <1>1, <1>2

\* matching.in_footprint and taxonomy migration 0008 decide alike: "the two are
\* tested against each other", here for every taxonomy and every setting of it.
THEOREM Mirror ==
  ASSUME NEW dims \in [Dimensions -> DimensionRows], NEW named \in SUBSET Terms,
         NEW record \in SUBSET Terms
  PROVE  InFootprint(record, named, dims) <=> SqlInFootprint(record, named, dims)
<1>1. ASSUME InFootprint(record, named, dims),
             NEW t \in record \cap GuardTerms(named, dims)
      PROVE  \E s \in record \cap GuardTerms(named, dims) \cap named :
               DimensionOf[s] = DimensionOf[t]
  <2> DEFINE d == DimensionOf[t]
  <2>1. d \in Restricting(dims) /\ (d \in OptIn(dims) \/ TermsIn(named, d) # {})
    BY <1>1, GuardedTerm
  <2>2. TermsIn(record, d) # {}
    BY <1>1 DEF TermsIn
  <2>3. TermsIn(record, d) \cap named # {}
    BY <1>1, <2>1, <2>2 DEF InFootprint
  <2>4. PICK s \in TermsIn(record, d) : s \in named
    BY <2>3
  <2>5. s \in GuardTerms(named, dims)
    BY <2>1, <2>4, GuardedTerm DEF TermsIn
  <2> QED
    BY <2>4, <2>5 DEF TermsIn
<1>2. ASSUME \A t \in record \cap GuardTerms(named, dims) :
               \E s \in record \cap GuardTerms(named, dims) \cap named :
                 DimensionOf[s] = DimensionOf[t]
      PROVE  InFootprint(record, named, dims)
  <2> SUFFICES ASSUME NEW d \in Restricting(dims), TermsIn(record, d) # {},
                      d \in OptIn(dims) \/ TermsIn(named, d) # {}
               PROVE  TermsIn(record, d) \cap named # {} /\ TermsIn(named, d) # {}
    BY DEF InFootprint
  <2>1. PICK t \in record : DimensionOf[t] = d
    BY DEF TermsIn
  <2>2. t \in GuardTerms(named, dims)
    BY <2>1, GuardedTerm
  <2>3. PICK s \in record \cap GuardTerms(named, dims) \cap named : DimensionOf[s] = d
    BY <1>2, <2>1, <2>2
  <2> QED
    BY <2>3 DEF TermsIn
<1> QED
  BY <1>1, <1>2, AdmitsPerDimension

\* A bank that names more terms in dimensions it already restricts loses sight
\* of no record in_footprint showed it.
THEOREM WideningIsMonotone ==
  ASSUME NEW dims \in [Dimensions -> DimensionRows], NEW record \in SUBSET Terms,
         NEW named \in SUBSET Terms, NEW wider \in SUBSET Terms, named \subseteq wider,
         \A d \in Dimensions : TermsIn(named, d) = {} => TermsIn(wider, d) = {},
         InFootprint(record, named, dims)
  PROVE  InFootprint(record, wider, dims)
  BY DEF InFootprint, TermsIn, Restricting

-----------------------------------------------------------------------------
(***************************************************************************)
(* The verdicts.  A move of the scope or of a footprint writes its event   *)
(* in the same transaction, so a bank whose verdict is behind has an event *)
(* the cursor has still to visit it for; a batch's visit is undone with    *)
(* its draft, and only the registration's visit finds no case.             *)
(***************************************************************************)
DraftTyped == draft \in [Tenants -> Decided \cup {NoDraft}]
BatchIsUndelivered ==
  /\ batch \cup handled \subseteq Ids \ delivered /\ batch \cap handled = {}
  /\ left # {} => current \in handled /\ left \subseteq events[current].banks
OneRegistration ==
  /\ registered <=> \E i \in Ids : events[i].kind = "registered"
  /\ \A i, j \in Ids : events[i].kind = "registered" /\ events[j].kind = "registered" => i = j
  /\ \A i \in Ids : events[i].kind # "footprint_approved" => events[i].banks = Tenants

\* The cursor, or the batch it runs, will still visit bank t for event i.
ToVisit(i, t) ==
  /\ i \in Ids \ delivered /\ t \in events[i].banks
  /\ i \notin handled \/ (i = current /\ t \in left)

TouchedInTheBatch ==
  \A t \in Tenants : ~Untouched(t) => \E i \in handled : t \in events[i].banks
CasesFollowRegistration ==
  \A t \in Tenants :
    /\ cases[t] = NoCase <=> \A i \in Ids : events[i].kind = "registered" => i \notin delivered
    /\ Seen(t) = NoCase <=> \A i \in Ids : events[i].kind = "registered" => ToVisit(i, t)
FactsAreFresh ==
  left # {} => \/ facts = scope
               \/ \E i \in Ids \ (delivered \cup handled) : events[i].banks = Tenants
VerdictsFollow ==
  \A t \in Tenants :
    \/ \E i \in Ids : ToVisit(i, t)
    \/ Seen(t).state # "open" \/ Seen(t).restored \/ Seen(t).verdict = Current(t)

CaseFootprintInv ==
  /\ TypeOK /\ DraftTyped /\ BatchIsUndelivered /\ OneRegistration /\ TouchedInTheBatch
  /\ CasesFollowRegistration /\ FactsAreFresh /\ VerdictsFollow
Kinds == {"registered", "facts_updated", "footprint_approved"}
EventRecords == [kind : Kinds, banks : SUBSET Tenants]

\* What the transaction of one write of the world adds to the outbox.
LEMMA OneEvent ==
  ASSUME TypeOK, NEW kind \in Kinds, NEW banks \in SUBSET Tenants, Emit(kind, banks)
  PROVE  /\ events' \in Seq(EventRecords) /\ Ids' = Ids \cup {Len(events) + 1}
         /\ Len(events) + 1 \notin Ids /\ Len(events) + 1 # 0
         /\ events'[Len(events) + 1] = [kind |-> kind, banks |-> banks]
         /\ \A i \in Ids : events'[i] = events[i]
<1> DEFINE e == [kind |-> kind, banks |-> banks]
<1>1. events \in Seq(EventRecords) /\ Len(events) \in Nat
  BY DEF TypeOK, EventRecords, Kinds
<1>2. e \in EventRecords /\ events' = Append(events, e)
  BY DEF Emit, EventRecords
<1> HIDE DEF e
<1>3. /\ events' \in Seq(EventRecords) /\ Len(events') = Len(events) + 1
      /\ events'[Len(events) + 1] = e /\ \A i \in 1..Len(events) : events'[i] = events[i]
  BY <1>1, <1>2
<1> QED
  BY <1>1, <1>3 DEF Ids, e

\* The world moves: the scope or a footprint, and the event that tells the banks of it.
LEMMA WorldMoves ==
  ASSUME CaseFootprintInv, NEW kind \in Kinds, NEW banks \in SUBSET Tenants, Emit(kind, banks),
         UNCHANGED <<cases, delivered, running, rollbacks>>,
         scope' \in SUBSET Terms, footprint' \in [Tenants -> SUBSET Terms],
         registered' \in BOOLEAN, registered' <=> registered \/ kind = "registered",
         kind = "registered" => ~registered,
         kind # "footprint_approved" => banks = Tenants,
         scope' # scope => banks = Tenants,
         \A t \in Tenants \ banks : footprint'[t] = footprint[t]
  PROVE  CaseFootprintInv'
<1> PICK n : n = Len(events) + 1
  OBVIOUS
<1>1. /\ events' \in Seq(EventRecords) /\ Ids' = Ids \cup {n} /\ n \notin Ids /\ n # 0
      /\ events'[n].kind = kind /\ events'[n].banks = banks
      /\ \A i \in Ids : events'[i] = events[i]
  <2>1. TypeOK
    BY DEF CaseFootprintInv
  <2>2. /\ events' \in Seq(EventRecords) /\ Ids' = Ids \cup {n} /\ n \notin Ids /\ n # 0
        /\ events'[n] = [kind |-> kind, banks |-> banks] /\ \A i \in Ids : events'[i] = events[i]
    BY <2>1, OneEvent
  <2> QED
    BY <2>2
<1> USE DEF CaseFootprintInv
<1>2. UNCHANGED <<cases, delivered, batch, handled, current, facts, left, draft, rollbacks>>
  BY DEF running
<1>3. /\ handled \subseteq Ids /\ delivered \subseteq Ids /\ batch \subseteq Ids
      /\ left # {} => current \in Ids
  BY DEF TypeOK, BatchIsUndelivered
<1>4. \A t \in Tenants : Seen(t)' = Seen(t)
  BY <1>2 DEF Seen, Untouched
<1>5. \A t \in Tenants, i \in Ids : ToVisit(i, t)' <=> ToVisit(i, t)
  BY <1>1, <1>2 DEF ToVisit
<1>6. \A t \in banks : ToVisit(n, t)'
  BY <1>1, <1>2, <1>3 DEF ToVisit
<1>7. TypeOK' /\ DraftTyped'
  <2>1. \A t \in Tenants : (Untouched(t) \/ (draft[t] \in Decided /\ draft[t].state = "open"))'
    BY <1>2 DEF TypeOK, Untouched
  <2> QED
    BY <1>1, <1>2, <2>1 DEF TypeOK, DraftTyped, EventRecords, Kinds
<1>8. BatchIsUndelivered'
  BY <1>1, <1>2, <1>3 DEF BatchIsUndelivered
<1>9. OneRegistration'
  BY <1>1 DEF OneRegistration
<1>10. TouchedInTheBatch'
  BY <1>1, <1>2, <1>3 DEF TouchedInTheBatch, Untouched
<1>11. CasesFollowRegistration'
  <2> SUFFICES ASSUME NEW t \in Tenants
               PROVE  /\ cases[t] = NoCase <=>
                           \A i \in Ids' : events'[i].kind = "registered" => i \notin delivered
                      /\ Seen(t) = NoCase <=>
                           \A i \in Ids' : events'[i].kind = "registered" => ToVisit(i, t)'
    BY <1>2, <1>4 DEF CasesFollowRegistration
  <2>1. kind = "registered" => n \notin delivered /\ ToVisit(n, t)'
    BY <1>3, <1>1, <1>6
  <2> QED
    BY <1>1, <1>5, <2>1 DEF CasesFollowRegistration
<1>12. FactsAreFresh'
  <2>1. CASE scope' = scope
    BY <1>1, <1>2, <2>1 DEF FactsAreFresh
  <2>2. CASE scope' # scope
    BY <1>1, <1>2, <1>3, <2>2 DEF FactsAreFresh
  <2> QED
    BY <2>1, <2>2
<1>13. VerdictsFollow'
  <2> SUFFICES ASSUME NEW t \in Tenants, ~\E i \in Ids' : ToVisit(i, t)'
               PROVE  Seen(t).state # "open" \/ Seen(t).restored \/ Seen(t).verdict = Current(t)'
    BY <1>4 DEF VerdictsFollow
  <2>1. t \notin banks /\ scope' = scope
    BY <1>1, <1>6
  <2>2. Current(t)' = Current(t)
    BY <2>1 DEF Current
  <2> QED
    BY <1>1, <1>5, <2>2 DEF VerdictsFollow
<1> QED
  BY <1>7, <1>8, <1>9, <1>10, <1>11, <1>12, <1>13

\* A person sets a case aside or takes it up again: no case comes or goes.
LEMMA CaseIsWorked ==
  ASSUME CaseFootprintInv, NEW t \in Tenants, SetAside(t) \/ Restore(t)
  PROVE  CaseFootprintInv'
<1> USE DEF CaseFootprintInv
<1> DEFINE c == IF cases[t].state = "open" THEN [cases[t] EXCEPT !.state = "aside"]
                ELSE [state |-> "open", verdict |-> cases[t].verdict, restored |-> TRUE]
<1>1. /\ Untouched(t) /\ cases[t].state \in {"open", "aside"} /\ cases' = [cases EXCEPT ![t] = c]
      /\ UNCHANGED <<registered, scope, footprint, events, delivered, batch, handled, current, facts, left, draft, rollbacks>>
  BY DEF SetAside, Restore, world, running
<1>2. cases[t] \in Decided
  BY <1>1 DEF TypeOK, NoCase
<1>3. c \in Decided /\ (c.state # "open" \/ c.restored)
  <2>1. CASE cases[t].state = "open"
    <3>1. c = [state |-> "aside", verdict |-> cases[t].verdict, restored |-> cases[t].restored]
      BY <1>2, <2>1 DEF Decided
    <3> HIDE DEF c
    <3> QED
      BY <1>2, <3>1 DEF Decided
  <2>2. CASE cases[t].state # "open"
    BY <1>2, <2>2 DEF Decided
  <2> QED
    BY <2>1, <2>2
<1> HIDE DEF c
<1>4. /\ cases' \in [Tenants -> Decided \cup {NoCase}] /\ cases'[t] = c
      /\ \A u \in Tenants : u # t => cases'[u] = cases[u]
  BY <1>1, <1>3 DEF TypeOK
<1>5. Seen(t)' = c /\ Seen(t) = cases[t] /\ \A u \in Tenants : u # t => Seen(u)' = Seen(u)
  BY <1>1, <1>4 DEF Seen, Untouched
<1>6. c # NoCase /\ cases[t] # NoCase
  BY <1>2, <1>3 DEF Decided, NoCase
<1>7. TypeOK' /\ DraftTyped'
  <2>1. \A u \in Tenants : (Untouched(u) \/ (draft[u] \in Decided /\ draft[u].state = "open"))'
    BY <1>1 DEF TypeOK, Untouched
  <2> QED
    BY <1>1, <1>4, <2>1 DEF TypeOK, DraftTyped, Ids
<1>8. BatchIsUndelivered' /\ OneRegistration' /\ TouchedInTheBatch' /\ FactsAreFresh'
  BY <1>1 DEF BatchIsUndelivered, OneRegistration, TouchedInTheBatch, FactsAreFresh, Ids, Untouched
<1>9. \A u \in Tenants, i \in Ids : ToVisit(i, u)' <=> ToVisit(i, u)
  BY <1>1 DEF ToVisit, Ids
<1>10. CasesFollowRegistration'
  BY <1>1, <1>4, <1>5, <1>6, <1>9 DEF CasesFollowRegistration, Ids
<1>11. VerdictsFollow'
  <2>1. \A u \in Tenants : Current(u)' = Current(u)
    BY <1>1 DEF Current
  <2> QED
    BY <1>1, <1>3, <1>5, <1>9, <2>1 DEF VerdictsFollow, Ids
<1> QED
  BY <1>7, <1>8, <1>10, <1>11

\* A visit of the batch: it writes the draft of one bank, or leaves it.
LEMMA BankIsVisited ==
  ASSUME CaseFootprintInv, NEW t \in left, CreateCase(t) \/ Recompute(t)
  PROVE  CaseFootprintInv'
<1> USE DEF CaseFootprintInv
<1> DEFINE kind == events[current].kind
<1>1. /\ left' = left \ {t}
      /\ UNCHANGED <<registered, scope, footprint, events, cases, delivered, batch, handled, current, facts, rollbacks>>
  BY DEF CreateCase, Recompute, world
<1>2. /\ t \in Tenants /\ current \in handled /\ current \in Ids \ delivered /\ t \in events[current].banks
      /\ ToVisit(current, t) /\ handled \subseteq Ids /\ current # 0
  BY DEF BatchIsUndelivered, TypeOK, ToVisit, Ids
<1>3. cases[t] \in Decided \cup {NoCase} /\ draft[t] \in Decided \cup {NoDraft}
  BY <1>2 DEF TypeOK, DraftTyped
<1>4. Seen(t) \in Decided \cup {NoCase}
  BY <1>3 DEF Seen, Untouched
<1>5. \A u \in Tenants : Current(u)' = Current(u)
  BY <1>1 DEF Current
<1>6. /\ Current(t) \in BOOLEAN
      /\ \A f \in SUBSET Terms : InFootprint(f, footprint[t], Dims) \in BOOLEAN
  BY DEF Current, SqlInFootprint, ScopeAdmits, InFootprint
<1>7. \/ /\ draft' = draft
         /\ kind = "registered" => Seen(t) # NoCase
         /\ kind # "registered" => Seen(t).state # "open" \/ Seen(t).verdict = Current(t)
      \/ \E v \in Decided : /\ draft' = [draft EXCEPT ![t] = v] /\ v.state = "open"
                            /\ kind = "registered" => v.verdict = InFootprint(facts, footprint[t], Dims)
                            /\ kind # "registered" => v.verdict = Current(t) /\ Seen(t) # NoCase
  <2>1. CASE CreateCase(t)
    <3>1. kind = "registered"
      BY <2>1 DEF CreateCase
    <3>2. CASE Seen(t) = NoCase
      <4> DEFINE v == Case(InFootprint(facts, footprint[t], Dims))
      <4>1. draft' = [draft EXCEPT ![t] = v]
        BY <2>1, <3>2 DEF CreateCase
      <4>2. v \in Decided /\ v.state = "open" /\ v.verdict = InFootprint(facts, footprint[t], Dims)
        BY <1>6 DEF Case, Decided, TypeOK
      <4> QED
        BY <3>1, <4>1, <4>2
    <3>3. CASE Seen(t) # NoCase
      BY <2>1, <3>1, <3>3 DEF CreateCase
    <3> QED
      BY <3>2, <3>3
  <2>2. CASE Recompute(t)
    <3>1. kind # "registered"
      BY <2>2 DEF Recompute
    <3>2. CASE Seen(t).state = "open" /\ Seen(t).verdict # Current(t)
      <4> DEFINE v == [Seen(t) EXCEPT !.verdict = Current(t)]
      <4>1. draft' = [draft EXCEPT ![t] = v]
        BY <2>2, <3>2 DEF Recompute
      <4>2. Seen(t) \in Decided /\ Seen(t) # NoCase
        BY <1>4, <3>2 DEF NoCase
      <4>3. v \in Decided /\ v.state = "open" /\ v.verdict = Current(t)
        BY <1>6, <3>2, <4>2 DEF Decided
      <4> QED
        BY <3>1, <4>1, <4>2, <4>3
    <3>3. CASE ~(Seen(t).state = "open" /\ Seen(t).verdict # Current(t))
      BY <2>2, <3>1, <3>3 DEF Recompute
    <3> QED
      BY <3>2, <3>3
  <2> QED
    BY <2>1, <2>2
<1>8. \A u \in Tenants : u # t => draft'[u] = draft[u]
  BY <1>7 DEF DraftTyped
<1>9. \A u \in Tenants : u # t => Seen(u)' = Seen(u)
  BY <1>1, <1>8 DEF Seen, Untouched
<1>10. \A u \in Tenants, i \in Ids : ToVisit(i, u)' <=> ToVisit(i, u) /\ ~(i = current /\ u = t)
  BY <1>1, <1>2 DEF ToVisit, Ids
<1>11. \/ /\ Seen(t)' = Seen(t)
          /\ kind = "registered" => Seen(t) # NoCase
          /\ kind # "registered" => Seen(t).state # "open" \/ Seen(t).verdict = Current(t)
       \/ /\ Seen(t)' \in Decided
          /\ kind = "registered" => Seen(t)'.verdict = InFootprint(facts, footprint[t], Dims)
          /\ kind # "registered" => Seen(t)'.verdict = Current(t) /\ Seen(t) # NoCase
  <2>1. draft' = draft => Seen(t)' = Seen(t)
    BY <1>1 DEF Seen, Untouched
  <2>2. ASSUME NEW v \in Decided, draft' = [draft EXCEPT ![t] = v] PROVE Seen(t)' = v
    <3>1. draft'[t] = v
      BY <1>2, <2>2 DEF DraftTyped
    <3> QED
      BY <3>1 DEF Seen, Untouched, Decided, NoDraft
  <2> QED
    BY <1>7, <2>1, <2>2
<1>12. TypeOK' /\ DraftTyped'
  <2>1. draft' \in [Tenants -> Decided \cup {NoDraft}]
    BY <1>2, <1>7 DEF DraftTyped
  <2>2. \A u \in Tenants : (Untouched(u) \/ (draft[u] \in Decided /\ draft[u].state = "open"))'
    <3>1. draft'[t] = draft[t] \/ (draft'[t] \in Decided /\ draft'[t].state = "open")
      BY <1>2, <1>7 DEF DraftTyped
    <3> QED
      BY <1>2, <1>8, <3>1 DEF TypeOK, Untouched
  <2>3. left' \subseteq Tenants
    BY <1>1 DEF TypeOK
  <2> QED
    BY <1>1, <2>1, <2>2, <2>3 DEF TypeOK, DraftTyped, Ids
<1>13. BatchIsUndelivered' /\ OneRegistration'
  BY <1>1 DEF BatchIsUndelivered, OneRegistration, Ids
<1>14. TouchedInTheBatch'
  BY <1>1, <1>2, <1>8 DEF TouchedInTheBatch, Untouched
<1>15. FactsAreFresh'
  BY <1>1 DEF FactsAreFresh, Ids
<1>16. NoCase \notin Decided
  BY DEF NoCase, Decided
<1>17. kind = "registered" => Seen(t) = NoCase
  BY <1>2 DEF CasesFollowRegistration, OneRegistration
<1>18. CasesFollowRegistration'
  <2> SUFFICES ASSUME NEW u \in Tenants
               PROVE  Seen(u)' = NoCase <=> \A i \in Ids : events[i].kind = "registered" => ToVisit(i, u)'
    BY <1>1 DEF CasesFollowRegistration, Ids
  <2>1. CASE u # t
    BY <1>9, <1>10, <2>1 DEF CasesFollowRegistration
  <2>2. CASE u = t /\ kind = "registered"
    <3>1. PICK i \in Ids : i = current
      BY <1>2
    <3>2. ~ToVisit(i, t)' /\ events[i].kind = "registered"
      BY <1>10, <2>2, <3>1
    <3>3. Seen(t)' # NoCase
      BY <1>11, <1>16, <1>17, <2>2
    <3> QED
      BY <2>2, <3>1, <3>2, <3>3
  <2>3. CASE u = t /\ kind # "registered"
    <3>1. Seen(t)' = NoCase <=> Seen(t) = NoCase
      BY <1>11, <1>16, <2>3
    <3> QED
      BY <1>2, <1>10, <2>3, <3>1 DEF CasesFollowRegistration
  <2> QED
    BY <2>1, <2>2, <2>3
<1>19. VerdictsFollow'
  <2> SUFFICES ASSUME NEW u \in Tenants, ~\E i \in Ids : ToVisit(i, u)'
               PROVE  Seen(u)'.state # "open" \/ Seen(u)'.restored \/ Seen(u)'.verdict = Current(u)
    BY <1>1, <1>5 DEF VerdictsFollow, Ids
  <2>1. CASE u # t
    BY <1>9, <1>10, <2>1 DEF VerdictsFollow
  <2>2. CASE u = t /\ kind = "registered"
    <3>1. facts = scope
      <4> SUFFICES ASSUME NEW i \in Ids \ (delivered \cup handled), events[i].banks = Tenants PROVE FALSE
        BY DEF FactsAreFresh
      <4>1. ToVisit(i, t) /\ i # current
        BY <1>2 DEF ToVisit
      <4> QED
        BY <1>10, <2>2, <4>1
    <3>2. Seen(t)'.verdict = InFootprint(facts, footprint[t], Dims)
      BY <1>11, <1>17, <2>2
    <3>3. InFootprint(scope, footprint[t], Dims) = SqlInFootprint(scope, footprint[t], Dims)
      <4>1. scope \in SUBSET Terms /\ footprint[t] \in SUBSET Terms /\ Dims \in [Dimensions -> DimensionRows]
        BY <1>2, CaseFootprintAssumption DEF TypeOK
      <4>2. InFootprint(scope, footprint[t], Dims) <=> SqlInFootprint(scope, footprint[t], Dims)
        BY <4>1, Mirror
      <4> QED
        BY <4>2 DEF InFootprint, SqlInFootprint, ScopeAdmits
    <3> QED
      BY <2>2, <3>1, <3>2, <3>3 DEF Current
  <2>3. CASE u = t /\ kind # "registered"
    BY <1>11, <2>3
  <2> QED
    BY <2>1, <2>2, <2>3
<1> QED
  BY <1>12, <1>13, <1>14, <1>15, <1>18, <1>19

\* The cursor begins a batch, or takes up the next event of it.
LEMMA EventIsTaken ==
  ASSUME CaseFootprintInv, BeginBatch \/ \E i \in batch : TakeEvent(i)
  PROVE  CaseFootprintInv'
<1> USE DEF CaseFootprintInv
<1>1. UNCHANGED <<registered, scope, footprint, events, cases, delivered, draft, rollbacks>>
  BY DEF BeginBatch, TakeEvent, world
<1>2. \A t \in Tenants : Seen(t)' = Seen(t) /\ Current(t)' = Current(t) /\ (Untouched(t)' <=> Untouched(t))
  BY <1>1 DEF Seen, Untouched, Current
<1>3. OneRegistration'
  BY <1>1 DEF OneRegistration, Ids
<1>4. CASE BeginBatch
  <2>1. /\ batch = {} /\ handled = {} /\ batch' = Ids \ delivered /\ left = {}
        /\ UNCHANGED <<handled, current, facts, left>>
    BY <1>4 DEF BeginBatch, Idle, BatchIsUndelivered
  <2>2. \A i \in Ids, t \in Tenants : ToVisit(i, t)' <=> ToVisit(i, t)
    BY <1>1, <2>1 DEF ToVisit, Ids
  <2>3. TypeOK' /\ DraftTyped' /\ BatchIsUndelivered' /\ FactsAreFresh'
    BY <1>1, <1>2, <2>1 DEF TypeOK, DraftTyped, BatchIsUndelivered, FactsAreFresh, Ids
  <2>4. TouchedInTheBatch'
    BY <1>1, <1>2, <2>1 DEF TouchedInTheBatch
  <2>5. CasesFollowRegistration' /\ VerdictsFollow'
    BY <1>1, <1>2, <2>2 DEF CasesFollowRegistration, VerdictsFollow, Ids
  <2> QED
    BY <1>3, <2>3, <2>4, <2>5
<1>5. ASSUME NEW k \in batch, TakeEvent(k) PROVE CaseFootprintInv'
  <2>1. /\ left = {} /\ batch' = batch \ {k} /\ handled' = handled \cup {k} /\ current' = k
        /\ facts' = scope /\ left' = events[k].banks
    BY <1>5 DEF TakeEvent
  <2>2. k \in Ids \ delivered /\ k \notin handled
    BY DEF BatchIsUndelivered
  <2>3. events[k].banks \subseteq Tenants
    <3>1. events \in Seq(EventRecords) /\ k \in 1..Len(events)
      BY <2>2 DEF TypeOK, EventRecords, Kinds, Ids
    <3>2. events[k] \in EventRecords
      BY <3>1
    <3> QED
      BY <3>2 DEF EventRecords
  <2>4. \A i \in Ids, t \in Tenants : ToVisit(i, t)' <=> ToVisit(i, t)
    BY <1>1, <2>1, <2>2 DEF ToVisit, Ids
  <2>5. TypeOK' /\ DraftTyped'
    BY <1>1, <1>2, <2>1, <2>2, <2>3 DEF TypeOK, DraftTyped, Ids
  <2>6. BatchIsUndelivered' /\ FactsAreFresh'
    BY <1>1, <2>1, <2>2 DEF BatchIsUndelivered, FactsAreFresh, Ids
  <2>7. TouchedInTheBatch'
    BY <1>1, <1>2, <2>1 DEF TouchedInTheBatch
  <2>8. CasesFollowRegistration' /\ VerdictsFollow'
    BY <1>1, <1>2, <2>4 DEF CasesFollowRegistration, VerdictsFollow, Ids
  <2> QED
    BY <1>3, <2>5, <2>6, <2>7, <2>8
<1> QED
  BY <1>4, <1>5

\* The end of a batch leaves nothing of it running.
LEMMA NothingRuns ==
  ASSUME CaseFootprintInv, EndBatch, UNCHANGED world, UNCHANGED rollbacks \/ rollbacks' \in 0..MaxRollbacks,
         cases' \in [Tenants -> Decided \cup {NoCase}], delivered' \subseteq Ids
  PROVE  /\ TypeOK' /\ DraftTyped' /\ BatchIsUndelivered' /\ OneRegistration'
         /\ TouchedInTheBatch' /\ FactsAreFresh'
         /\ \A t \in Tenants : Seen(t)' = cases'[t] /\ Current(t)' = Current(t)
         /\ \A i \in Ids, t \in Tenants : ToVisit(i, t)' <=> i \notin delivered' /\ t \in events[i].banks
<1>1. /\ batch' = {} /\ handled' = {} /\ current' = 0 /\ facts' = {} /\ left' = {}
      /\ draft' = [t \in Tenants |-> NoDraft]
      /\ UNCHANGED <<registered, scope, footprint, events>>
  BY DEF EndBatch, world
<1>2. \A t \in Tenants : Untouched(t)'
  BY <1>1 DEF Untouched
<1>3. TypeOK' /\ DraftTyped'
  BY <1>1, <1>2 DEF CaseFootprintInv, TypeOK, DraftTyped, Ids
<1>4. BatchIsUndelivered' /\ OneRegistration' /\ TouchedInTheBatch' /\ FactsAreFresh'
  BY <1>1, <1>2 DEF CaseFootprintInv, BatchIsUndelivered, OneRegistration, TouchedInTheBatch, FactsAreFresh, Ids
<1>5. \A t \in Tenants : Seen(t)' = cases'[t] /\ Current(t)' = Current(t)
  BY <1>1, <1>2 DEF Seen, Current
<1>6. \A i \in Ids, t \in Tenants : ToVisit(i, t)' <=> i \notin delivered' /\ t \in events[i].banks
  BY <1>1 DEF ToVisit, Ids
<1> QED
  BY <1>3, <1>4, <1>5, <1>6

\* A commit publishes what the batch saw.
LEMMA BatchCommits == ASSUME CaseFootprintInv, CommitBatch PROVE CaseFootprintInv'
<1> USE DEF CaseFootprintInv
<1>1. /\ batch = {} /\ left = {} /\ cases' = [t \in Tenants |-> Seen(t)]
      /\ delivered' = delivered \cup handled /\ EndBatch /\ UNCHANGED <<world, rollbacks>>
      /\ events' = events
  BY DEF CommitBatch, world
<1>2. cases' \in [Tenants -> Decided \cup {NoCase}]
  BY <1>1 DEF TypeOK, Seen
<1>3. delivered' \subseteq Ids
  BY <1>1 DEF TypeOK
<1>4. /\ TypeOK' /\ DraftTyped' /\ BatchIsUndelivered' /\ OneRegistration'
      /\ TouchedInTheBatch' /\ FactsAreFresh'
      /\ \A t \in Tenants : Seen(t)' = cases'[t] /\ Current(t)' = Current(t)
      /\ \A i \in Ids, t \in Tenants : ToVisit(i, t)' <=> i \notin delivered' /\ t \in events[i].banks
  BY <1>1, <1>2, <1>3, NothingRuns
<1>5. \A i \in Ids, t \in Tenants : ToVisit(i, t)' <=> ToVisit(i, t)
  BY <1>1, <1>4 DEF ToVisit
<1>6. CasesFollowRegistration'
  <2> SUFFICES ASSUME NEW t \in Tenants
               PROVE  /\ Seen(t) = NoCase <=> \A i \in Ids : events[i].kind = "registered" => i \notin delivered'
                      /\ Seen(t) = NoCase <=> \A i \in Ids : events[i].kind = "registered" => ToVisit(i, t)
    BY <1>1, <1>4, <1>5 DEF CasesFollowRegistration, Ids
  <2>1. \A i \in Ids : events[i].kind = "registered" => (ToVisit(i, t) <=> i \notin delivered')
    BY <1>1 DEF ToVisit, OneRegistration
  <2> QED
    BY <2>1 DEF CasesFollowRegistration
<1>7. VerdictsFollow'
  BY <1>1, <1>4, <1>5 DEF VerdictsFollow, Ids
<1> QED
  BY <1>4, <1>6, <1>7

\* A batch that dies leaves the committed cases, and every event of it to come again.
LEMMA BatchDies == ASSUME CaseFootprintInv, RollbackBatch PROVE CaseFootprintInv'
<1> USE DEF CaseFootprintInv
<1>1. /\ EndBatch /\ UNCHANGED <<world, cases, delivered>> /\ rollbacks' \in 0..MaxRollbacks
      /\ events' = events
  BY CaseFootprintAssumption DEF RollbackBatch, world, TypeOK
<1>2. /\ TypeOK' /\ DraftTyped' /\ BatchIsUndelivered' /\ OneRegistration'
      /\ TouchedInTheBatch' /\ FactsAreFresh'
      /\ \A t \in Tenants : Seen(t)' = cases[t] /\ Current(t)' = Current(t)
      /\ \A i \in Ids, t \in Tenants : ToVisit(i, t)' <=> i \notin delivered /\ t \in events[i].banks
  BY <1>1, NothingRuns DEF TypeOK
<1>3. CasesFollowRegistration'
  BY <1>1, <1>2 DEF CasesFollowRegistration, OneRegistration, Ids
<1>4. VerdictsFollow'
  <2> SUFFICES ASSUME NEW t \in Tenants, ~\E i \in Ids : i \notin delivered /\ t \in events[i].banks
               PROVE  cases[t].state # "open" \/ cases[t].restored \/ cases[t].verdict = Current(t)
    BY <1>1, <1>2 DEF VerdictsFollow, Ids
  <2>1. Untouched(t)
    BY DEF TouchedInTheBatch, BatchIsUndelivered
  <2> QED
    BY <2>1 DEF VerdictsFollow, ToVisit, Seen
<1> QED
  BY <1>2, <1>3, <1>4

LEMMA CaseFootprintStep == CaseFootprintInv /\ [Next]_vars => CaseFootprintInv'
<1> SUFFICES ASSUME CaseFootprintInv, [Next]_vars PROVE CaseFootprintInv'
  OBVIOUS
<1>1. CASE Cursor
  BY <1>1, EventIsTaken, BankIsVisited, BatchCommits DEF Cursor
<1>2. CASE RollbackBatch
  BY <1>2, BatchDies
<1>3. ASSUME NEW s \in Scopes, RegisterChange(s) \/ UpdateChangeFacts(s) PROVE CaseFootprintInv'
  <2>1. s \in SUBSET Terms
    BY CaseFootprintAssumption
  <2>2. CASE RegisterChange(s)
    BY <2>1, <2>2, WorldMoves DEF RegisterChange, Kinds, CaseFootprintInv, TypeOK
  <2>3. CASE UpdateChangeFacts(s)
    BY <2>1, <2>3, WorldMoves DEF UpdateChangeFacts, Kinds, CaseFootprintInv, TypeOK
  <2> QED
    BY <1>3, <2>2, <2>3
<1>4. ASSUME NEW t \in Tenants, SetAside(t) \/ Restore(t) PROVE CaseFootprintInv'
  BY <1>4, CaseIsWorked
<1>5. ASSUME NEW t \in Tenants, NEW f \in Footprints, ApproveFootprint(t, f) PROVE CaseFootprintInv'
  <2>1. f \in SUBSET Terms
    BY CaseFootprintAssumption
  <2>2. footprint' \in [Tenants -> SUBSET Terms] /\ \A u \in Tenants \ {t} : footprint'[u] = footprint[u]
    BY <1>5, <2>1 DEF ApproveFootprint, CaseFootprintInv, TypeOK
  <2> QED
    BY <1>5, <2>2, WorldMoves DEF ApproveFootprint, Kinds, CaseFootprintInv, TypeOK
<1>6. CASE UNCHANGED vars
  BY <1>6 DEF vars, CaseFootprintInv, TypeOK, DraftTyped, BatchIsUndelivered, OneRegistration,
     TouchedInTheBatch, CasesFollowRegistration, FactsAreFresh, VerdictsFollow, ToVisit, Seen,
     Untouched, Current, Ids
<1> QED
  BY <1>1, <1>2, <1>3, <1>4, <1>5, <1>6 DEF Next

\* Every reachable state has an event to come for every bank whose verdict is behind.
THEOREM CaseFootprintInvariant == Spec => []CaseFootprintInv
<1>1. Init => CaseFootprintInv
  <2> SUFFICES ASSUME Init PROVE CaseFootprintInv
    OBVIOUS
  <2>1. Ids = {}
    BY DEF Init, Ids
  <2>2. \A t \in Tenants : Untouched(t) /\ Seen(t) = NoCase /\ cases[t] = NoCase
    BY DEF Init, Untouched, Seen
  <2>3. NoCase.state # "open"
    BY DEF NoCase
  <2>4. TypeOK /\ DraftTyped
    <3>1. footprint \in [Tenants -> SUBSET Terms] /\ rollbacks \in 0..MaxRollbacks
      BY CaseFootprintAssumption DEF Init
    <3>2. events \in Seq([kind : {"registered", "facts_updated", "footprint_approved"}, banks : SUBSET Tenants])
      BY DEF Init
    <3>3. cases \in [Tenants -> Decided \cup {NoCase}] /\ DraftTyped
      BY DEF Init, DraftTyped
    <3>4. /\ registered \in BOOLEAN /\ scope = {} /\ delivered = {} /\ batch = {} /\ handled = {}
          /\ current = 0 /\ facts = {} /\ left = {}
      BY DEF Init
    <3> QED
      BY <2>1, <2>2, <3>1, <3>2, <3>3, <3>4 DEF TypeOK
  <2>5. BatchIsUndelivered /\ OneRegistration /\ TouchedInTheBatch /\ FactsAreFresh
    BY <2>1, <2>2 DEF Init, BatchIsUndelivered, OneRegistration, TouchedInTheBatch, FactsAreFresh
  <2>6. CasesFollowRegistration /\ VerdictsFollow
    BY <2>1, <2>2, <2>3 DEF CasesFollowRegistration, VerdictsFollow
  <2> QED
    BY <2>4, <2>5, <2>6 DEF CaseFootprintInv
<1> QED
  BY <1>1, CaseFootprintStep, PTL DEF Spec

\* cases/creation.py and cases/matching.py: once the outbox is empty every bank has its case
\* and every open case the verdict of the rule, for any banks, batches and lost batches.
THEOREM VerdictsCatchUp == Spec => []VerdictsSettle
<1>1. CaseFootprintInv => VerdictsSettle
  <2> SUFFICES ASSUME CaseFootprintInv, Settled, NEW t \in Tenants
               PROVE  /\ registered => cases[t] # NoCase
                      /\ cases[t].restored \/ ~Stale(t)
    BY DEF VerdictsSettle
  <2>1. delivered = Ids /\ handled = {}
    BY DEF Settled, Idle
  <2>2. Untouched(t)
    BY <2>1 DEF CaseFootprintInv, TouchedInTheBatch
  <2>3. \A i \in Ids : ~ToVisit(i, t)
    BY <2>1 DEF ToVisit
  <2>4. registered => cases[t] # NoCase
    <3>1. ASSUME registered PROVE \E i \in Ids : events[i].kind = "registered" /\ i \in delivered
      BY <2>1, <3>1 DEF CaseFootprintInv, OneRegistration
    <3> QED
      BY <3>1 DEF CaseFootprintInv, CasesFollowRegistration
  <2>5. cases[t].restored \/ ~Stale(t)
    BY <2>2, <2>3 DEF CaseFootprintInv, VerdictsFollow, Seen, Stale
  <2> QED
    BY <2>4, <2>5
<1> QED
  BY <1>1, CaseFootprintInvariant, PTL

\* taxonomy/matching.py and migration 0008 agree on every scope and footprint a run reaches.
THEOREM HalvesAgree == Spec => []MirrorsAgree
<1>1. CaseFootprintInv => MirrorsAgree
  BY Mirror DEF CaseFootprintInv, TypeOK, MirrorsAgree
<1> QED
  BY <1>1, CaseFootprintInvariant, PTL

=============================================================================
