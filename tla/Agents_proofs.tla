---------------------------- MODULE Agents_proofs ----------------------------
(***************************************************************************)
(* What agents do in a bank's name, proved: the wording of "So what?", the *)
(* ledger of an agent run, the slots and the monthly cap of a bank's own   *)
(* agents and the beat of the platform's, for every number of people,      *)
(* callers, runs, reforms, agents and beats, every cap and every cost.     *)
(***************************************************************************)
EXTENDS SoWhat, AgentRuns, AgentSpend, AgentBeat, FiniteSetTheorems, TLAPS

(***************************************************************************)
(* "So what?".                                                             *)
(***************************************************************************)
\* What the cursor's transaction has read and locked: only the events there
\* were, and the case's row only while its words are nobody's.
BatchIsSound ==
  /\ batch \in [taken : Nat, left : Nat, wrote : BOOLEAN, text : Words]
  /\ batch.left <= batch.taken /\ batch.taken <= undelivered
  /\ batch.wrote => ~confirmed /\ batch.taken > 0

\* An unconfirmed copy that is not the newest draft has an event still to come
\* for it: one the batch has not read, or one it has read and not handled.
NewsIsOnItsWay ==
  ~confirmed => \/ SeenText = Draft(draftText)
                \/ undelivered > batch.taken
                \/ batch.left > 0

SoWhatInv ==
  /\ draftText \in 0..MaxDrafts /\ undelivered \in Nat /\ version \in Nat
  /\ BatchIsSound
  /\ NewsIsOnItsWay

\* The cursor's invariant: nothing a person does between two steps of a batch,
\* and no batch lost before its commit, leaves an unconfirmed copy behind.
THEOREM SoWhatInvariant == Spec => []SoWhatInv
<1> USE SoWhatAssumption DEF SoWhatInv, BatchIsSound, NewsIsOnItsWay, SeenText, case
<1>1. Init => SoWhatInv
  BY DEF Init, NoBatch, Words, Draft
<1>2. SoWhatInv /\ [Next]_vars => SoWhatInv'
  <2> SUFFICES ASSUME SoWhatInv, [Next]_vars PROVE SoWhatInv'
    OBVIOUS
  <2>1. CASE StoreDraft
    BY <2>1 DEF StoreDraft
  <2>2. ASSUME NEW u \in People, BeginSave(u) PROVE SoWhatInv'
    BY <2>2 DEF BeginSave
  <2>3. ASSUME NEW u \in People, BeginConfirm(u) PROVE SoWhatInv'
    BY <2>3 DEF BeginConfirm
  <2>4. ASSUME NEW u \in People, Write(u) PROVE SoWhatInv'
    BY <2>4 DEF Write
  <2>5. CASE BeginBatch
    <3>1. batch' = [taken |-> undelivered, left |-> undelivered, wrote |-> FALSE, text |-> Draft(0)]
      BY <2>5 DEF BeginBatch, NoBatch
    <3>2. undelivered > 0 /\ UNCHANGED <<draftText, undelivered, case, request>>
      BY <2>5 DEF BeginBatch
    <3> QED
      BY <3>1, <3>2 DEF Words, Draft
  <2>6. CASE ApplyDraft
    <3>1. Draft(draftText) \in Words
      BY DEF Words, Draft
    <3>2. CASE ~confirmed /\ SeenText # Draft(draftText)
      <4>1. batch' = [taken |-> batch.taken, left |-> batch.left - 1,
                      wrote |-> TRUE, text |-> Draft(draftText)]
        BY <2>6, <3>2 DEF ApplyDraft
      <4>2. batch.left > 0 /\ UNCHANGED <<draftText, undelivered, case, request>>
        BY <2>6 DEF ApplyDraft
      <4>3. batch'.text = Draft(draftText)' /\ batch'.wrote /\ batch'.left = batch.left - 1
            /\ batch'.taken = batch.taken /\ BatchIsSound'
        BY <4>1, <4>2, <3>1, <3>2
      <4> QED
        BY <4>2, <4>3
    <3>3. CASE ~(~confirmed /\ SeenText # Draft(draftText))
      BY <2>6, <3>3 DEF ApplyDraft
    <3> QED
      BY <3>2, <3>3
  <2>7. CASE CommitBatch
    BY <2>7 DEF CommitBatch, NoBatch, Words, Draft
  <2>8. CASE RollbackBatch
    BY <2>8 DEF RollbackBatch, NoBatch, Words, Draft
  <2>9. CASE UNCHANGED vars
    BY <2>9 DEF vars
  <2> QED
    BY <2>1, <2>2, <2>3, <2>4, <2>5, <2>6, <2>7, <2>8, <2>9 DEF Next
<1> QED
  BY <1>1, <1>2, PTL DEF Spec

\* apply_draft "brings every copy that is still the unedited draft up to the new
\* words": no event left, no unconfirmed copy behind the library.
THEOREM CopiesCatchUp == Spec => []UntouchedCopyIsCurrent
<1>1. SoWhatInv => UntouchedCopyIsCurrent
  BY DEF SoWhatInv, BatchIsSound, NewsIsOnItsWay, SeenText, UntouchedCopyIsCurrent
<1> QED
  BY <1>1, SoWhatInvariant, PTL

\* "An agent never overwrites them": words a person stands behind change only
\* when a person writes again.
THEOREM WordsAreTheBanks == Spec => AgentsLeaveTheBanksWords
<1>1. SoWhatInv /\ [Next]_vars
        => [confirmed /\ text' # text => version' > version /\ confirmed']_vars
  <2> SUFFICES ASSUME SoWhatInv, Next, confirmed, text' # text
               PROVE  version' > version /\ confirmed'
    BY DEF vars
  <2> USE DEF SoWhatInv, BatchIsSound, case
  <2>1. ASSUME NEW u \in People, Write(u) PROVE version' > version /\ confirmed'
    BY <2>1 DEF Write
  <2>2. ~CommitBatch
    BY DEF CommitBatch, SeenText
  <2> QED
    BY <2>1, <2>2 DEF Next, StoreDraft, BeginSave, BeginConfirm, BeginBatch, ApplyDraft, RollbackBatch
<1> QED
  BY <1>1, SoWhatInvariant, PTL DEF Spec, AgentsLeaveTheBanksWords

-----------------------------------------------------------------------------
(***************************************************************************)
(* The beat of the platform's agents.                                      *)
(***************************************************************************)
BeatTypes ==
  /\ clock \in Nat /\ since \in Nat /\ since <= clock
  /\ lastRun \in [PlatformAgents -> Nat]
  /\ inPeriod \in [PlatformAgents -> Nat]
  /\ claim \in [PlatformAgents -> PBeats \cup {Unclaimed}]
  /\ beat = [b \in PBeats |-> beat[b]]

\* A beat works in a period that has begun, not in one to come.
BeatsLag == \A b \in PBeats : beat[b].since \in Nat /\ beat[b].since <= since

\* A claim was made after the last run was looked at and is held until the beat
\* has opened the run: it is the next agent of its beat, and still due to it.
ClaimsAreDue ==
  \A a \in PlatformAgents, b \in PBeats :
    claim[a] = b => beat[b].on /\ Upcoming(b) = a /\ lastRun[a] < beat[b].since

\* The period's runs are seen by whoever claims next.
RunsAreSeen ==
  \A a \in PlatformAgents : inPeriod[a] <= 1 /\ (inPeriod[a] > 0 => since <= lastRun[a])

BeatInv == BeatTypes /\ BeatsLag /\ ClaimsAreDue /\ RunsAreSeen

LEMMA FreeIsNoBeat == Unclaimed \notin PBeats
  BY BeatAssumption DEF Unclaimed

\* Dropping an agent from the plan changes that beat alone, and the period the
\* beat began in only when the beat ends.
LEMMA DropLeavesTheRest ==
  ASSUME BeatTypes, BeatsLag, NEW b \in PBeats, Drop(b)
  PROVE  /\ beat' = [d \in PBeats |-> beat'[d]]
         /\ \A d \in PBeats \ {b} : beat'[d] = beat[d]
         /\ beat'[b].since \in Nat /\ beat'[b].since <= beat[b].since
<1> DEFINE dropped == IF Len(beat[b].left) = 1 THEN NoBeat
                      ELSE [on |-> TRUE, since |-> beat[b].since, left |-> Tail(beat[b].left)]
<1>1. beat' = [beat EXCEPT ![b] = dropped]
  BY DEF Drop
<1>2. dropped.since \in Nat /\ dropped.since <= beat[b].since
  BY DEF NoBeat, BeatsLag
<1> HIDE DEF dropped
<1> QED
  BY <1>1, <1>2 DEF BeatTypes

\* The beat's invariant: through overlapping beats and a period that ends while
\* one of them runs.
THEOREM BeatInvariant == BeatSpec => []BeatInv
<1> USE BeatAssumption, FreeIsNoBeat
<1>1. BeatInit => BeatInv
  BY DEF BeatInit, BeatInv, BeatTypes, BeatsLag, ClaimsAreDue, RunsAreSeen, NoBeat
<1>2. BeatInv /\ [BeatNext]_beatVars => BeatInv'
  <2> SUFFICES ASSUME BeatInv, [BeatNext]_beatVars PROVE BeatInv'
    OBVIOUS
  <2> USE DEF BeatInv
  <2>1. ASSUME NEW b \in PBeats, StartBeat(b) PROVE BeatInv'
    <3> DEFINE plan == [on |-> TRUE, since |-> since,
                        left |-> FirstOf(InOrder({a \in PlatformAgents : Due(a)}), PerBeat)]
    <3>1. /\ beat[b] = NoBeat /\ beat' = [beat EXCEPT ![b] = plan]
          /\ UNCHANGED <<clock, since, period, lastRun, claim, inPeriod>>
      BY <2>1 DEF StartBeat
    <3>2. plan.since = since
      OBVIOUS
    <3> HIDE DEF plan
    <3>3. /\ beat' = [d \in PBeats |-> beat'[d]] /\ beat'[b] = plan
          /\ \A d \in PBeats \ {b} : beat'[d] = beat[d]
      BY <3>1 DEF BeatTypes
    <3>4. BeatTypes' /\ RunsAreSeen'
      BY <3>1, <3>3 DEF BeatTypes, RunsAreSeen
    <3>5. BeatsLag'
      BY <3>1, <3>2, <3>3 DEF BeatsLag, BeatTypes
    <3>6. \A a \in PlatformAgents : claim[a] # b
      BY <3>1 DEF ClaimsAreDue, NoBeat
    <3>7. ClaimsAreDue'
      BY <3>1, <3>3, <3>6 DEF ClaimsAreDue, Upcoming
    <3> QED
      BY <3>4, <3>5, <3>7
  <2>2. ASSUME NEW b \in PBeats, ClaimNext(b) PROVE BeatInv'
    <3> DEFINE a == Upcoming(b)
    <3>1. UNCHANGED <<clock, since, period, lastRun, inPeriod>> /\ beat[b].on /\ claim[a] # b
      BY <2>2 DEF ClaimNext
    <3>2. CASE StillDue(b, a)
      <4>1. claim' = [claim EXCEPT ![a] = b] /\ UNCHANGED beat /\ lastRun[a] < beat[b].since
        BY <2>2, <3>2 DEF ClaimNext, StillDue
      <4>2. BeatTypes' /\ BeatsLag' /\ RunsAreSeen'
        BY <3>1, <4>1 DEF BeatTypes, BeatsLag, RunsAreSeen
      <4>3. ClaimsAreDue'
        BY <3>1, <4>1 DEF ClaimsAreDue, BeatTypes, Upcoming
      <4> QED
        BY <4>2, <4>3
    <3>3. CASE ~StillDue(b, a)
      <4>1. Drop(b) /\ UNCHANGED claim
        BY <2>2, <3>3 DEF ClaimNext
      <4>2. BeatTypes' /\ BeatsLag' /\ RunsAreSeen'
        BY <3>1, <4>1, DropLeavesTheRest DEF BeatTypes, BeatsLag, RunsAreSeen
      <4>3. \A c \in PlatformAgents : claim[c] # b
        BY <3>1 DEF ClaimsAreDue
      <4>4. ClaimsAreDue'
        BY <3>1, <4>1, <4>3, DropLeavesTheRest DEF ClaimsAreDue, Upcoming
      <4> QED
        BY <4>2, <4>4
    <3> QED
      BY <3>2, <3>3
  <2>3. ASSUME NEW b \in PBeats, OpenPlatformRun(b) PROVE BeatInv'
    <3> DEFINE a == Upcoming(b)
    <3>1. /\ beat[b].on /\ claim[a] = b /\ claim' = [claim EXCEPT ![a] = Unclaimed]
          /\ Drop(b) /\ UNCHANGED <<since, period>>
      BY <2>3 DEF OpenPlatformRun
    <3>2. /\ clock' = clock + 1 /\ lastRun' = [lastRun EXCEPT ![a] = clock]
          /\ inPeriod' = [inPeriod EXCEPT ![a] = @ + 1]
      BY <2>3 DEF OpenPlatformRun
    <3> HIDE DEF a
    <3>3. BeatTypes' /\ BeatsLag'
      <4>1. /\ clock' \in Nat /\ clock <= clock'
            /\ lastRun' \in [PlatformAgents -> Nat] /\ inPeriod' \in [PlatformAgents -> Nat]
        <5>1. clock' = clock + 1 /\ clock \in Nat
          BY <3>2 DEF BeatTypes
        <5>2. clock' \in Nat /\ clock <= clock'
          BY <5>1
        <5>3. lastRun' \in [PlatformAgents -> Nat]
          BY <3>2, <5>1 DEF BeatTypes
        <5>4. \A c \in PlatformAgents : inPeriod[c] + 1 \in Nat
          BY DEF BeatTypes
        <5>5. inPeriod' \in [PlatformAgents -> Nat]
          BY <3>2, <5>4 DEF BeatTypes
        <5> QED
          BY <5>2, <5>3, <5>5
      <4>2. claim' \in [PlatformAgents -> PBeats \cup {Unclaimed}]
        BY <3>1 DEF BeatTypes
      <4>3. BeatTypes'
        BY <3>1, <4>1, <4>2, DropLeavesTheRest DEF BeatTypes
      <4>4. BeatsLag'
        BY <3>1, DropLeavesTheRest DEF BeatTypes, BeatsLag
      <4> QED
        BY <4>3, <4>4
    <3>4. a \in PlatformAgents => lastRun[a] < since
      BY <3>1 DEF ClaimsAreDue, BeatsLag, BeatTypes
    <3>5. RunsAreSeen'
      BY <3>1, <3>2, <3>4 DEF RunsAreSeen, BeatTypes
    <3>6. \A c \in PlatformAgents \ {a} : claim[c] # b
      BY <3>1 DEF ClaimsAreDue, a
    <3>7. \A c \in PlatformAgents \ {a} : lastRun'[c] = lastRun[c] /\ claim'[c] = claim[c]
      BY <3>1, <3>2 DEF BeatTypes
    <3>8. a \in PlatformAgents => claim'[a] \notin PBeats
      BY <3>1 DEF BeatTypes
    <3>9. ClaimsAreDue'
      BY <3>1, <3>6, <3>7, <3>8, DropLeavesTheRest DEF ClaimsAreDue, Upcoming
    <3> QED
      BY <3>3, <3>5, <3>9
  <2>4. CASE NewPeriod
    BY <2>4 DEF NewPeriod, BeatTypes, BeatsLag, ClaimsAreDue, RunsAreSeen, Upcoming
  <2>5. CASE UNCHANGED beatVars
    BY <2>5 DEF beatVars, BeatTypes, BeatsLag, ClaimsAreDue, RunsAreSeen, Upcoming
  <2> QED
    BY <2>1, <2>2, <2>3, <2>4, <2>5 DEF BeatNext
<1> QED
  BY <1>1, <1>2, PTL DEF BeatSpec

\* _claim: "two beats that overlap start one run between them", for any number of
\* beats and whenever the period turns.
THEOREM OverlappingBeatsStartOne == BeatSpec => []OneRunPerPeriod
<1>1. BeatInv => OneRunPerPeriod
  BY DEF BeatInv, RunsAreSeen, OneRunPerPeriod
<1> QED
  BY <1>1, BeatInvariant, PTL

-----------------------------------------------------------------------------
(***************************************************************************)
(* Runs over the API.                                                      *)
(***************************************************************************)
RunRows == [status : Ends \cup {"none", "running"},
            key : RetryKeys \cup {"none"}, changes : Nat]

RunsTypes ==
  /\ apiRun \in [ApiRuns -> RunRows]
  /\ change \in [StableKeys -> ApiRuns \cup {NoRun}]
  /\ answers \in [RetryKeys -> SUBSET ApiRuns]
  /\ call = [c \in Callers |-> call[c]]

CallTypes ==
  \A c \in Callers :
    /\ call[c].op = "open" => call[c].key \in RetryKeys
    /\ call[c].op = "file" => call[c].run \in ApiRuns /\ call[c].key \in StableKeys
    /\ call[c].op = "close" => call[c].run \in ApiRuns /\ call[c].end \in Ends

\* A call that names a run holds its row from its read to its commit.
Holding(c) == call[c].op \in {"file", "close"}
RowsAreLocked ==
  \A c, d \in Callers : Holding(c) /\ Holding(d) /\ call[c].run = call[d].run => c = d

\* What such a call has read is therefore still so.
CallsAreFresh ==
  \A c \in Callers, r \in ApiRuns :
    /\ call[c].op = "file" /\ call[c].run = r => apiRun[r].status = "running"
    /\ call[c].op = "close" /\ call[c].run = r /\ call[c].running =>
         apiRun[r].status = "running" /\ call[c].counted = Registered(r)

\* The unique constraint: a retry key opened one run, and that is the run it is
\* answered with.
KeysAreTaken ==
  /\ \A i \in RetryKeys, r \in ApiRuns : r \in answers[i] => apiRun[r].key = i
  /\ \A r, q \in ApiRuns : apiRun[r].key = apiRun[q].key /\ apiRun[r].key # "none" => r = q

RunsInv == RunsTypes /\ CallTypes /\ RowsAreLocked /\ CallsAreFresh /\ KeysAreTaken

\* What was registered for a run is a number, and a reform newly registered for
\* a run adds one to that run's and nothing to another's.
LEMMA RegisteredIsANumber ==
  ASSUME NEW r \in ApiRuns
  PROVE  Registered(r) \in Nat
<1>1. IsFiniteSet({k \in StableKeys : change[k] = r})
  BY RunsAssumption, FS_Subset
<1> QED
  BY <1>1, FS_CardinalityType DEF Registered

LEMMA RegisteredStays ==
  ASSUME UNCHANGED change
  PROVE  \A q \in ApiRuns : Registered(q)' = Registered(q)
  BY DEF Registered

LEMMA RegisteringCountsOnce ==
  ASSUME RunsTypes, NEW r \in ApiRuns, NEW k \in StableKeys,
         change[k] = NoRun, change' = [change EXCEPT ![k] = r]
  PROVE  /\ Registered(r)' = Registered(r) + 1
         /\ \A q \in ApiRuns : q # r => Registered(q)' = Registered(q)
<1> DEFINE Of(q) == {j \in StableKeys : change[j] = q}
<1>0. \A q \in ApiRuns : q # NoRun
  BY RunsAssumption DEF NoRun
<1>1. change' \in [StableKeys -> ApiRuns \cup {NoRun}] /\ change'[k] = r
      /\ \A j \in StableKeys : j # k => change'[j] = change[j]
  BY DEF RunsTypes
<1>2. IsFiniteSet(Of(r)) /\ k \notin Of(r)
  BY <1>0, RunsAssumption, FS_Subset
<1>3. {j \in StableKeys : change'[j] = r} = Of(r) \cup {k}
  BY <1>1
<1>4. Registered(r)' = Registered(r) + 1
  BY <1>2, <1>3, FS_AddElement DEF Registered
<1>5. ASSUME NEW q \in ApiRuns, q # r PROVE Registered(q)' = Registered(q)
  <2>1. {j \in StableKeys : change'[j] = q} = Of(q)
    BY <1>0, <1>1, <1>5
  <2> QED
    BY <2>1 DEF Registered
<1> QED
  BY <1>4, <1>5

\* A call read, and a call answered, is that caller's alone.
LEMMA CallsAreOnesOwn ==
  ASSUME RunsTypes, NEW c \in Callers, NEW asked, call' = [call EXCEPT ![c] = asked]
  PROVE  /\ call' = [d \in Callers |-> call'[d]] /\ call'[c] = asked
         /\ \A d \in Callers \ {c} : call'[d] = call[d]
  BY DEF RunsTypes

LEMMA NoCallHoldsNothing == NoCall.op = "none"
  BY DEF NoCall

\* An answer or a lost call: the rows the invariant compares stay as they are.
LEMMA AnsweringKeepsTheRest ==
  ASSUME RunsInv, NEW c \in Callers, Answered(c),
         apiRun' \in [ApiRuns -> RunRows],
         change' \in [StableKeys -> ApiRuns \cup {NoRun}],
         answers' \in [RetryKeys -> SUBSET ApiRuns]
  PROVE  /\ RunsTypes' /\ CallTypes' /\ RowsAreLocked'
         /\ call'[c] = NoCall /\ \A d \in Callers \ {c} : call'[d] = call[d]
<1>1. /\ call' = [d \in Callers |-> call'[d]] /\ call'[c] = NoCall
      /\ \A d \in Callers \ {c} : call'[d] = call[d]
  BY CallsAreOnesOwn DEF RunsInv, Answered
<1>2. RunsTypes'
  BY <1>1 DEF RunsTypes
<1>3. CallTypes'
  BY <1>1, NoCallHoldsNothing DEF RunsInv, CallTypes
<1>4. RowsAreLocked'
  BY <1>1, NoCallHoldsNothing DEF RunsInv, RowsAreLocked, Holding
<1> QED
  BY <1>1, <1>2, <1>3, <1>4

\* The invariant of the runs: through two workers of one key, two runs and one
\* reform, a filing against a close, lost answers and calls sent again.
THEOREM RunsInvariant == RunsSpec => []RunsInv
<1> USE RunsAssumption, NoCallHoldsNothing
<1>1. RunsInit => RunsInv
  BY DEF RunsInit, RunsInv, RunsTypes, CallTypes, RowsAreLocked, CallsAreFresh, KeysAreTaken,
         RunRows, NotOpened, NoCall, NoRun, Holding, OpenedWith
<1>2. RunsInv /\ [RunsNext]_runsVars => RunsInv'
  <2> SUFFICES ASSUME RunsInv, [RunsNext]_runsVars PROVE RunsInv'
    OBVIOUS
  <2>0. RunsTypes /\ CallTypes /\ RowsAreLocked /\ CallsAreFresh /\ KeysAreTaken
    BY DEF RunsInv
  <2>1. ASSUME NEW c \in Callers, NEW i \in RetryKeys, BeginOpen(c, i) PROVE RunsInv'
    <3>1. CASE Taken(i)
      <4>1. UNCHANGED <<apiRun, change, call>> /\ answers' = [answers EXCEPT ![i] = @ \cup OpenedWith(i)]
        BY <2>1, <3>1 DEF BeginOpen
      <4>2. RunsTypes'
        BY <2>0, <4>1 DEF RunsTypes, OpenedWith
      <4>4. \A j \in RetryKeys, q \in ApiRuns : q \in answers'[j] => apiRun'[q].key = j
        BY <2>0, <4>1 DEF RunsTypes, KeysAreTaken, OpenedWith
      <4>5. KeysAreTaken'
        BY <2>0, <4>1, <4>4 DEF KeysAreTaken
      <4>3. CallTypes' /\ RowsAreLocked' /\ CallsAreFresh'
        BY <2>0, <4>1, RegisteredStays DEF CallTypes, RowsAreLocked, CallsAreFresh, Holding
      <4> QED
        BY <4>2, <4>3, <4>5 DEF RunsInv
    <3>2. CASE ~Taken(i)
      <4> DEFINE asked == [op |-> "open", key |-> i]
      <4>1. UNCHANGED <<apiRun, change, answers>> /\ call' = [call EXCEPT ![c] = asked]
        BY <2>1, <3>2 DEF BeginOpen, Read
      <4>2. asked.op = "open" /\ asked.key = i
        OBVIOUS
      <4> HIDE DEF asked
      <4>3. /\ call' = [d \in Callers |-> call'[d]] /\ call'[c] = asked
            /\ \A d \in Callers \ {c} : call'[d] = call[d]
        BY <2>0, <4>1, CallsAreOnesOwn
      <4>4. RunsTypes' /\ KeysAreTaken'
        BY <2>0, <4>1, <4>3 DEF RunsTypes, KeysAreTaken
      <4>5. CallTypes' /\ RowsAreLocked'
        BY <2>0, <4>2, <4>3 DEF CallTypes, RowsAreLocked, Holding
      <4>6. CallsAreFresh'
        BY <2>0, <4>1, <4>2, <4>3, RegisteredStays DEF CallsAreFresh
      <4> QED
        BY <4>4, <4>5, <4>6 DEF RunsInv
    <3> QED
      BY <3>1, <3>2
  <2>2. ASSUME NEW c \in Callers, OpenRun(c) PROVE RunsInv'
    <3>1. PICK i \in RetryKeys : i = call[c].key
      BY <2>0, <2>2 DEF OpenRun, CallTypes
    <3>2. Answered(c) /\ UNCHANGED change
      BY <2>2 DEF OpenRun
    <3>3. CASE Taken(i)
      <4>1. UNCHANGED <<apiRun, answers>>
        BY <2>2, <3>1, <3>3 DEF OpenRun
      <4>2. /\ RunsTypes' /\ CallTypes' /\ RowsAreLocked'
            /\ call'[c] = NoCall /\ \A d \in Callers \ {c} : call'[d] = call[d]
        BY <2>0, <3>2, <4>1, AnsweringKeepsTheRest DEF RunsTypes
      <4>3. KeysAreTaken'
        BY <2>0, <4>1 DEF KeysAreTaken
      <4>4. CallsAreFresh'
        <5>1. \A r \in ApiRuns : Registered(r)' = Registered(r)
          BY <3>2, RegisteredStays
        <5>2. \A d \in Callers : call'[d] = NoCall \/ call'[d] = call[d]
          BY <4>2
        <5>3. NoCall.op # "file" /\ NoCall.op # "close"
          BY DEF NoCall
        <5> QED
          BY <2>0, <4>1, <5>1, <5>2, <5>3 DEF CallsAreFresh
      <4> QED
        BY <4>2, <4>3, <4>4 DEF RunsInv
    <3>4. CASE ~Taken(i)
      <4>1. PICK r \in ApiRuns :
              /\ apiRun[r] = NotOpened
              /\ apiRun' = [apiRun EXCEPT ![r] = [status |-> "running", key |-> i, changes |-> 0]]
              /\ answers' = [answers EXCEPT ![i] = @ \cup {r}]
        BY <2>2, <3>1, <3>4 DEF OpenRun
      <4> DEFINE opened == [status |-> "running", key |-> i, changes |-> 0]
      <4>2. apiRun' = [apiRun EXCEPT ![r] = opened]
        BY <4>1
      <4>3. opened \in RunRows /\ opened.key = i
        BY DEF RunRows
      <4>4. apiRun[r].status = "none" /\ apiRun[r].key = "none"
        BY <4>1 DEF NotOpened
      <4> HIDE DEF opened
      <4>5. /\ apiRun' \in [ApiRuns -> RunRows] /\ apiRun'[r] = opened
            /\ \A q \in ApiRuns \ {r} : apiRun'[q] = apiRun[q]
        BY <2>0, <4>2, <4>3 DEF RunsTypes
      <4>6. answers' \in [RetryKeys -> SUBSET ApiRuns]
        BY <2>0, <4>1 DEF RunsTypes
      <4>7. /\ RunsTypes' /\ CallTypes' /\ RowsAreLocked'
            /\ call'[c] = NoCall /\ \A d \in Callers \ {c} : call'[d] = call[d]
        BY <2>0, <3>2, <4>5, <4>6, AnsweringKeepsTheRest DEF RunsTypes
      <4>8. CallsAreFresh'
        <5>1. \A q \in ApiRuns : Registered(q)' = Registered(q)
          BY <3>2, RegisteredStays
        <5>2. \A q \in ApiRuns : apiRun[q].status = "running" => apiRun'[q] = apiRun[q]
          BY <4>4, <4>5
        <5>3. \A d \in Callers : call'[d].op \in {"file", "close"} => call'[d] = call[d]
          BY <4>7
        <5> QED
          BY <2>0, <5>1, <5>2, <5>3 DEF CallsAreFresh
      <4>9. \A j \in RetryKeys, q \in ApiRuns : q \in answers'[j] => apiRun'[q].key = j
        BY <2>0, <4>1, <4>3, <4>4, <4>5 DEF KeysAreTaken, RunsTypes
      <4>10. \A q \in ApiRuns : apiRun[q].key # i
        BY <3>4 DEF Taken, OpenedWith
      <4>11. ASSUME NEW p \in ApiRuns, NEW q \in ApiRuns,
                    apiRun'[p].key = apiRun'[q].key, apiRun'[p].key # "none"
             PROVE  p = q
        <5>1. p # r /\ q # r => p = q
          BY <2>0, <4>5, <4>11 DEF KeysAreTaken
        <5> QED
          BY <4>3, <4>5, <4>10, <4>11, <5>1
      <4>12. KeysAreTaken'
        BY <4>9, <4>11 DEF KeysAreTaken
      <4> QED
        BY <4>7, <4>8, <4>12 DEF RunsInv
    <3> QED
      BY <3>3, <3>4
  <2>3. ASSUME NEW c \in Callers, NEW r \in ApiRuns, NEW k \in StableKeys, BeginFile(c, r, k)
        PROVE  RunsInv'
    <3> DEFINE asked == [op |-> "file", run |-> r, key |-> k, known |-> change[k] # NoRun]
    <3>1. /\ OwnRun(r) /\ apiRun[r].status = "running"
          /\ UNCHANGED <<apiRun, change, answers>> /\ call' = [call EXCEPT ![c] = asked]
      BY <2>3 DEF BeginFile, Read
    <3>2. asked.op = "file" /\ asked.key = k /\ asked.run = r
      OBVIOUS
    <3> HIDE DEF asked
    <3>3. /\ call' = [d \in Callers |-> call'[d]] /\ call'[c] = asked
          /\ \A d \in Callers \ {c} : call'[d] = call[d]
      BY <2>0, <3>1, CallsAreOnesOwn
    <3>4. RunsTypes' /\ KeysAreTaken' /\ CallTypes'
      BY <2>0, <3>1, <3>2, <3>3 DEF RunsTypes, KeysAreTaken, OpenedWith, CallTypes
    <3>5. RowsAreLocked'
      BY <2>0, <3>1, <3>2, <3>3 DEF RowsAreLocked, Holding, OwnRun
    <3>6. CallsAreFresh'
      BY <2>0, <3>1, <3>2, <3>3, RegisteredStays DEF CallsAreFresh
    <3> QED
      BY <3>4, <3>5, <3>6 DEF RunsInv
  <2>4. ASSUME NEW c \in Callers, RegisterChange(c) PROVE RunsInv'
    <3>1. call[c].op = "file" /\ Answered(c) /\ UNCHANGED <<apiRun, answers>>
      BY <2>4 DEF RegisterChange
    <3>2. PICK r \in ApiRuns : r = call[c].run
      BY <2>0, <3>1 DEF CallTypes
    <3>3. PICK k \in StableKeys : k = call[c].key
      BY <2>0, <3>1 DEF CallTypes
    <3>4. change' = change \/ (change[k] = NoRun /\ change' = [change EXCEPT ![k] = r])
      BY <2>4, <3>2, <3>3 DEF RegisterChange
    <3>5. change' \in [StableKeys -> ApiRuns \cup {NoRun}]
      BY <2>0, <3>4 DEF RunsTypes
    <3>6. /\ RunsTypes' /\ CallTypes' /\ RowsAreLocked'
          /\ call'[c] = NoCall /\ \A d \in Callers \ {c} : call'[d] = call[d]
      BY <2>0, <3>1, <3>5, AnsweringKeepsTheRest DEF RunsTypes
    <3>7. \A q \in ApiRuns : q # r => Registered(q)' = Registered(q)
      <4>1. CASE change' = change
        BY <4>1 DEF Registered
      <4>2. CASE change[k] = NoRun /\ change' = [change EXCEPT ![k] = r]
        BY <2>0, <4>2, RegisteringCountsOnce
      <4> QED
        BY <3>4, <4>1, <4>2
    <3>8. \A d \in Callers \ {c} : call[d].op = "close" => call[d].run \in ApiRuns /\ call[d].run # r
      BY <2>0, <3>1, <3>2 DEF RowsAreLocked, Holding, CallTypes
    <3>9. ASSUME NEW d \in Callers, NEW q \in ApiRuns,
                 call'[d].op = "close", call'[d].run = q, call'[d].running
          PROVE  apiRun'[q].status = "running" /\ call'[d].counted = Registered(q)'
      <4>1. d # c /\ call'[d] = call[d]
        BY <3>6, <3>9
      <4>2. q # r /\ apiRun[q].status = "running" /\ call[d].counted = Registered(q)
        BY <2>0, <3>8, <3>9, <4>1 DEF CallsAreFresh
      <4> QED
        BY <3>1, <3>7, <4>1, <4>2
    <3>10. \A d \in Callers, q \in ApiRuns :
             call'[d].op = "file" /\ call'[d].run = q => apiRun'[q].status = "running"
      BY <2>0, <3>1, <3>6 DEF CallsAreFresh
    <3>11. CallsAreFresh'
      BY <3>9, <3>10 DEF CallsAreFresh
    <3>12. KeysAreTaken'
      BY <2>0, <3>1 DEF KeysAreTaken
    <3> QED
      BY <3>6, <3>11, <3>12 DEF RunsInv
  <2>5. ASSUME NEW c \in Callers, NEW r \in ApiRuns, NEW end \in Ends, BeginClose(c, r, end)
        PROVE  RunsInv'
    <3> DEFINE asked == [op |-> "close", run |-> r, end |-> end,
                         running |-> apiRun[r].status = "running", counted |-> Registered(r)]
    <3>1. /\ OwnRun(r) /\ UNCHANGED <<apiRun, change, answers>>
          /\ call' = [call EXCEPT ![c] = asked]
      BY <2>5 DEF BeginClose, Read
    <3>2. /\ asked.op = "close" /\ asked.run = r /\ asked.end = end
          /\ asked.running => apiRun[r].status = "running"
          /\ asked.counted = Registered(r)
      OBVIOUS
    <3> HIDE DEF asked
    <3>3. /\ call' = [d \in Callers |-> call'[d]] /\ call'[c] = asked
          /\ \A d \in Callers \ {c} : call'[d] = call[d]
      BY <2>0, <3>1, CallsAreOnesOwn
    <3>4. RunsTypes' /\ KeysAreTaken' /\ CallTypes'
      BY <2>0, <3>1, <3>2, <3>3 DEF RunsTypes, KeysAreTaken, OpenedWith, CallTypes
    <3>5. RowsAreLocked'
      BY <2>0, <3>1, <3>2, <3>3 DEF RowsAreLocked, Holding, OwnRun
    <3>6. \A q \in ApiRuns : Registered(q)' = Registered(q)
      BY <3>1, RegisteredStays
    <3>7. CallsAreFresh'
      BY <2>0, <3>1, <3>2, <3>3, <3>6 DEF CallsAreFresh
    <3> QED
      BY <3>4, <3>5, <3>7 DEF RunsInv
  <2>6. ASSUME NEW c \in Callers, FinishRun(c) PROVE RunsInv'
    <3>1. call[c].op = "close" /\ Answered(c) /\ UNCHANGED <<change, answers>>
      BY <2>6 DEF FinishRun
    <3>2. PICK r \in ApiRuns : r = call[c].run
      BY <2>0, <3>1 DEF CallTypes
    <3>3. /\ apiRun' \in [ApiRuns -> RunRows]
          /\ \A q \in ApiRuns \ {r} : apiRun'[q] = apiRun[q]
          /\ apiRun'[r].key = apiRun[r].key
      <4>1. CASE call[c].running
        <5> DEFINE closed == [apiRun[r] EXCEPT !.status = call[c].end, !.changes = call[c].counted]
        <5>1. apiRun' = [apiRun EXCEPT ![r] = closed]
          BY <2>6, <3>2, <4>1 DEF FinishRun
        <5>2. call[c].end \in Ends /\ call[c].counted \in Nat
          BY <2>0, <3>1, <3>2, <4>1, RegisteredIsANumber DEF CallTypes, CallsAreFresh
        <5>3. apiRun[r] \in RunRows
          BY <2>0 DEF RunsTypes
        <5>4. closed \in RunRows /\ closed.key = apiRun[r].key
          BY <5>2, <5>3 DEF RunRows
        <5> HIDE DEF closed
        <5> QED
          BY <2>0, <5>1, <5>4 DEF RunsTypes
      <4>2. CASE ~call[c].running
        BY <2>0, <2>6, <4>2 DEF FinishRun, RunsTypes
      <4> QED
        BY <4>1, <4>2
    <3>4. /\ RunsTypes' /\ CallTypes' /\ RowsAreLocked'
          /\ call'[c] = NoCall /\ \A d \in Callers \ {c} : call'[d] = call[d]
      BY <2>0, <3>1, <3>3, AnsweringKeepsTheRest DEF RunsTypes
    <3>5. \A d \in Callers \ {c} : Holding(d) => call[d].run \in ApiRuns \ {r}
      BY <2>0, <3>1, <3>2 DEF RowsAreLocked, Holding, CallTypes
    <3>6. CallsAreFresh'
      BY <2>0, <3>1, <3>3, <3>4, <3>5, RegisteredStays DEF CallsAreFresh, Holding
    <3>7. \A q \in ApiRuns : apiRun'[q].key = apiRun[q].key
      BY <3>3
    <3>8. KeysAreTaken'
      BY <2>0, <3>1, <3>7 DEF KeysAreTaken
    <3> QED
      BY <3>4, <3>6, <3>8 DEF RunsInv
  <2>7. ASSUME NEW c \in Callers, LoseCall(c) PROVE RunsInv'
    <3>1. Answered(c) /\ UNCHANGED <<apiRun, change, answers>>
      BY <2>7 DEF LoseCall
    <3>2. /\ RunsTypes' /\ CallTypes' /\ RowsAreLocked'
          /\ call'[c] = NoCall /\ \A d \in Callers \ {c} : call'[d] = call[d]
      BY <2>0, <3>1, AnsweringKeepsTheRest DEF RunsTypes
    <3>3. CallsAreFresh' /\ KeysAreTaken'
      BY <2>0, <3>1, <3>2, RegisteredStays DEF CallsAreFresh, KeysAreTaken
    <3> QED
      BY <3>2, <3>3 DEF RunsInv
  <2>8. CASE UNCHANGED runsVars
    BY <2>0, <2>8, RegisteredStays
       DEF runsVars, RunsInv, RunsTypes, CallTypes, RowsAreLocked, CallsAreFresh, KeysAreTaken, Holding
  <2> QED
    BY <2>1, <2>2, <2>3, <2>4, <2>5, <2>6, <2>7, <2>8 DEF RunsNext
<1> QED
  BY <1>1, <1>2, PTL DEF RunsSpec

\* "The same Idempotency-Key answers the run it already opened", however many
\* workers send it at once and however often.
THEOREM OneRunPerKey == RunsSpec => []RetriesFindTheirRun
<1>1. RunsInv => RetriesFindTheirRun
  <2> SUFFICES ASSUME RunsInv, NEW i \in RetryKeys PROVE Cardinality(answers[i]) <= 1
    BY DEF RetriesFindTheirRun
  <2>1. \A r, q \in answers[i] : r = q
    BY RunsAssumption DEF RunsInv, RunsTypes, KeysAreTaken
  <2>2. CASE answers[i] = {}
    BY <2>2, FS_EmptySet
  <2>3. CASE answers[i] # {}
    <3>1. PICK r : answers[i] = {r}
      BY <2>1, <2>3
    <3>2. Cardinality({r}) = 1
      BY FS_Singleton
    <3> QED
      BY <3>1, <3>2
  <2> QED
    BY <2>2, <2>3
<1> QED
  BY <1>1, RunsInvariant, PTL

\* One step of the program is, for each run, a step of its ledger or none.
LEMMA StepsAreLedgerSteps ==
  ASSUME RunsInv, RunsNext, NEW r \in ApiRuns
  PROVE  UNCHANGED Ledger(r)!ledger \/ Ledger(r)!Next
<1> USE RunsAssumption
<1>0. RunsTypes /\ CallTypes /\ RowsAreLocked /\ CallsAreFresh /\ KeysAreTaken
  BY DEF RunsInv
<1> DEFINE Same == /\ apiRun'[r].status = apiRun[r].status /\ Registered(r)' = Registered(r)
                   /\ apiRun'[r].changes = apiRun[r].changes
<1>1. Same => UNCHANGED Ledger(r)!ledger
  BY DEF Ledger!ledger
<1>2. UNCHANGED <<apiRun, change>> => Same
  BY DEF Registered
<1> HIDE DEF Same
<1>3. ASSUME NEW c \in Callers, OpenRun(c) PROVE Same \/ Ledger(r)!Next
  <2>1. UNCHANGED change
    BY <1>3 DEF OpenRun
  <2>2. CASE UNCHANGED apiRun
    BY <1>2, <2>1, <2>2
  <2>3. CASE ~UNCHANGED apiRun
    <3> DEFINE opened == [status |-> "running", key |-> call[c].key, changes |-> 0]
    <3>1. PICK q \in ApiRuns : apiRun[q] = NotOpened /\ apiRun' = [apiRun EXCEPT ![q] = opened]
      BY <1>3, <2>3 DEF OpenRun
    <3>2. opened.status = "running" /\ opened.changes = 0
      OBVIOUS
    <3> HIDE DEF opened
    <3>3. Registered(r)' = Registered(r)
      BY <2>1, RegisteredStays
    <3>4. CASE q = r
      <4>1. apiRun'[r] = opened /\ apiRun[r].status = "none" /\ apiRun[r].changes = 0
        BY <1>0, <3>1, <3>4 DEF RunsTypes, NotOpened
      <4> QED
        BY <3>2, <3>3, <4>1 DEF Ledger!Next, Ledger!Open
    <3>5. CASE q # r
      <4>1. apiRun'[r] = apiRun[r]
        BY <1>0, <3>1, <3>5 DEF RunsTypes
      <4> QED
        BY <3>3, <4>1 DEF Same
    <3> QED
      BY <3>4, <3>5
  <2> QED
    BY <2>2, <2>3
<1>4. ASSUME NEW c \in Callers, RegisterChange(c) PROVE Same \/ Ledger(r)!Next
  <2>1. call[c].op = "file" /\ UNCHANGED apiRun
    BY <1>4 DEF RegisterChange
  <2>2. PICK q \in ApiRuns : q = call[c].run
    BY <1>0, <2>1 DEF CallTypes
  <2>3. PICK k \in StableKeys : k = call[c].key
    BY <1>0, <2>1 DEF CallTypes
  <2>4. CASE UNCHANGED change
    BY <1>2, <2>1, <2>4
  <2>5. CASE ~UNCHANGED change
    <3>1. Registered(q) < MaxChanges /\ change[k] = NoRun /\ change' = [change EXCEPT ![k] = q]
      BY <1>4, <2>2, <2>3, <2>5 DEF RegisterChange
    <3>2. /\ Registered(q)' = Registered(q) + 1
          /\ \A p \in ApiRuns : p # q => Registered(p)' = Registered(p)
      BY <1>0, <3>1, RegisteringCountsOnce
    <3>3. apiRun[q].status = "running"
      BY <1>0, <2>1, <2>2 DEF CallsAreFresh
    <3>4. CASE q = r
      BY <2>1, <3>1, <3>2, <3>3, <3>4 DEF Ledger!Next, Ledger!File
    <3>5. CASE q # r
      BY <2>1, <3>2, <3>5 DEF Same
    <3> QED
      BY <3>4, <3>5
  <2> QED
    BY <2>4, <2>5
<1>5. ASSUME NEW c \in Callers, FinishRun(c) PROVE Same \/ Ledger(r)!Next
  <2>1. call[c].op = "close" /\ UNCHANGED change
    BY <1>5 DEF FinishRun
  <2>2. PICK q \in ApiRuns : q = call[c].run
    BY <1>0, <2>1 DEF CallTypes
  <2>3. CASE ~call[c].running
    <3>1. UNCHANGED apiRun
      BY <1>5, <2>3 DEF FinishRun
    <3> QED
      BY <1>2, <2>1, <3>1
  <2>4. CASE call[c].running
    <3> DEFINE closed == [apiRun[q] EXCEPT !.status = call[c].end, !.changes = call[c].counted]
    <3>1. apiRun' = [apiRun EXCEPT ![q] = closed]
      BY <1>5, <2>2, <2>4 DEF FinishRun
    <3>2. apiRun[q] \in RunRows
      BY <1>0 DEF RunsTypes
    <3>3. closed.status = call[c].end /\ closed.changes = call[c].counted
      BY <3>2 DEF RunRows
    <3> HIDE DEF closed
    <3>4. /\ apiRun[q].status = "running" /\ call[c].counted = Registered(q)
          /\ call[c].end \in Ends
      BY <1>0, <2>1, <2>2, <2>4 DEF CallsAreFresh, CallTypes
    <3>5. Registered(r)' = Registered(r)
      BY <2>1, RegisteredStays
    <3>6. CASE q = r
      <4>1. apiRun'[r] = closed
        BY <1>0, <3>1, <3>6 DEF RunsTypes
      <4> QED
        BY <3>3, <3>4, <3>5, <3>6, <4>1 DEF Ledger!Next, Ledger!Close
    <3>7. CASE q # r
      <4>1. apiRun'[r] = apiRun[r]
        BY <1>0, <3>1, <3>7 DEF RunsTypes
      <4> QED
        BY <3>5, <4>1 DEF Same
    <3> QED
      BY <3>6, <3>7
  <2> QED
    BY <2>3, <2>4
<1>6. ASSUME NEW c \in Callers,
             LoseCall(c) \/ (\E i \in RetryKeys : BeginOpen(c, i))
             \/ (\E q \in ApiRuns, k \in StableKeys : BeginFile(c, q, k))
             \/ (\E q \in ApiRuns, end \in Ends : BeginClose(c, q, end))
      PROVE  Same
  <2>1. UNCHANGED <<apiRun, change>>
    BY <1>6 DEF LoseCall, BeginOpen, BeginFile, BeginClose
  <2> QED
    BY <1>2, <2>1
<1> QED
  BY <1>1, <1>3, <1>4, <1>5, <1>6 DEF RunsNext

\* The refinement: every run keeps the ledger RunLedger describes.  A filing and
\* a close of one run wait for each other (_own_run), no two filings pass the
\* limit together (spend), and a close stores what was registered.
THEOREM RunsKeepTheirLedgers == RunsSpec => RunsAreLedgers
<1>1. RunsInit => \A r \in ApiRuns : Ledger(r)!Init
  <2> SUFFICES ASSUME RunsInit, NEW r \in ApiRuns PROVE Ledger(r)!Init
    OBVIOUS
  <2>1. {k \in StableKeys : change[k] = r} = {}
    BY RunsAssumption DEF RunsInit, NoRun
  <2>2. Registered(r) = 0
    BY <2>1, FS_EmptySet DEF Registered
  <2> QED
    BY <2>2 DEF RunsInit, NotOpened, Ledger!Init
<1> DEFINE Keeps == \A r \in ApiRuns : UNCHANGED Ledger(r)!ledger \/ Ledger(r)!Next
<1>2. RunsInv /\ [RunsNext]_runsVars => [Keeps]_runsVars
  BY StepsAreLedgerSteps
<1> QED
  BY <1>1, <1>2, RunsInvariant, PTL DEF RunsSpec, RunsAreLedgers

-----------------------------------------------------------------------------
(***************************************************************************)
(* The slots of a bank's own agents.  What a beat has taken stays due and  *)
(* unpaused until it commits: everyone who would pause an agent or spend   *)
(* its slot waits for the row the beat holds.                              *)
(***************************************************************************)
OpeningRecords == [on : BOOLEAN, rows : SUBSET BankAgents, todo : SUBSET BankAgents,
                   start : SUBSET BankAgents, stop : SUBSET BankAgents]

SlotTypes ==
  /\ opening \in [Openers -> OpeningRecords]
  /\ bankAgent \in [BankAgents -> [paused : BOOLEAN, due : BOOLEAN]]

\* select_for_update(skip_locked): no two beats hold one agent, and a beat opens
\* runs for those it holds.
BeatsHoldTheirOwn ==
  /\ \A b \in Beats : opening[b].todo \cup opening[b].start \subseteq opening[b].rows
  /\ \A p \in Askers : opening[p].rows = {}
  /\ \A b, d \in Openers : b # d => opening[b].rows \cap opening[d].rows = {}

HeldAreDue ==
  \A o \in Openers, a \in BankAgents :
    a \in opening[o].rows => bankAgent[a].due /\ ~bankAgent[a].paused

SlotInv == SlotTypes /\ BeatsHoldTheirOwn /\ HeldAreDue

\* Whoever changes nothing but agents no beat holds keeps the invariant.
LEMMA HeldAgentsStay ==
  ASSUME SlotInv, UNCHANGED opening,
         bankAgent' \in [BankAgents -> [paused : BOOLEAN, due : BOOLEAN]],
         \A a \in BankAgents :
           \/ bankAgent'[a] = bankAgent[a]
           \/ ~RowLocked(a)
           \/ ~bankAgent'[a].paused /\ (bankAgent[a].due => bankAgent'[a].due)
  PROVE  SlotInv'
<1>1. SlotTypes' /\ BeatsHoldTheirOwn'
  BY DEF SlotInv, SlotTypes, BeatsHoldTheirOwn
<1>2. ASSUME NEW o \in Openers, NEW a \in BankAgents, a \in opening[o].rows
      PROVE  bankAgent'[a].due /\ ~bankAgent'[a].paused
  <2>1. o \in Beats
    BY <1>2 DEF SlotInv, BeatsHoldTheirOwn, Openers
  <2>2. RowLocked(a)
    BY <1>2, <2>1 DEF RowLocked
  <2>3. bankAgent[a].due /\ ~bankAgent[a].paused
    BY <1>2 DEF SlotInv, HeldAreDue
  <2> QED
    BY <2>2, <2>3
<1>3. HeldAreDue'
  BY <1>2 DEF HeldAreDue
<1> QED
  BY <1>1, <1>3 DEF SlotInv

\* One transaction moves on and the agents stay as they are: what it holds are
\* those it held, or ones that are due and free.
LEMMA OneOpeningMoves ==
  ASSUME SlotInv, NEW o \in Openers, NEW moved \in OpeningRecords,
         opening' = [opening EXCEPT ![o] = moved], UNCHANGED bankAgent,
         o \in Beats => moved.todo \cup moved.start \subseteq moved.rows,
         o \in Askers => moved.rows = {},
         \A a \in moved.rows : a \in opening[o].rows \/ (a \in DueAndFree /\ o \in Beats)
  PROVE  SlotInv'
<1>1. /\ opening' \in [Openers -> OpeningRecords] /\ opening'[o] = moved
      /\ \A d \in Openers : d # o => opening'[d] = opening[d]
  BY DEF SlotInv, SlotTypes
<1>2. SlotTypes'
  BY <1>1 DEF SlotInv, SlotTypes
<1>3. moved.rows \subseteq BankAgents
  BY DEF OpeningRecords
<1>4. \A d \in Openers : d # o => moved.rows \cap opening[d].rows = {}
  BY SpendAssumption DEF SlotInv, BeatsHoldTheirOwn, DueAndFree, RowLocked, Openers
<1>5. BeatsHoldTheirOwn'
  <2>1. \A b \in Beats : opening'[b].todo \cup opening'[b].start \subseteq opening'[b].rows
    BY <1>1 DEF SlotInv, BeatsHoldTheirOwn, Openers
  <2>2. \A p \in Askers : opening'[p].rows = {}
    BY <1>1 DEF SlotInv, BeatsHoldTheirOwn, Openers
  <2>3. ASSUME NEW b \in Openers, NEW d \in Openers, b # d
        PROVE  opening'[b].rows \cap opening'[d].rows = {}
    BY <1>1, <1>4, <2>3 DEF SlotInv, BeatsHoldTheirOwn
  <2> QED
    BY <2>1, <2>2, <2>3 DEF BeatsHoldTheirOwn
<1>6. \A a \in moved.rows : bankAgent[a].due /\ ~bankAgent[a].paused
  BY <1>3 DEF SlotInv, HeldAreDue, DueAndFree
<1>7. HeldAreDue'
  BY <1>1, <1>6 DEF SlotInv, HeldAreDue
<1> QED
  BY <1>2, <1>5, <1>7 DEF SlotInv

\* The invariant of the slots: through overlapping beats, refused and lost
\* hand-overs, events that pause, a new cap, deadlocks broken and agents paused,
\* resumed and falling due.
THEOREM SlotInvariant == SpendSpec => []SlotInv
<1> USE DEF rows
<1>0. NoOpening \in OpeningRecords /\ NoOpening.rows = {} /\ NoOpening.todo = {} /\ NoOpening.start = {}
  BY DEF NoOpening, OpeningRecords
<1>1. SpendInit => SlotInv
  <2> SUFFICES ASSUME SpendInit PROVE SlotInv
    OBVIOUS
  <2>1. \A o \in Openers : opening[o] = NoOpening
    BY DEF SpendInit
  <2>2. SlotTypes
    BY <1>0 DEF SpendInit, SlotTypes
  <2>3. BeatsHoldTheirOwn /\ HeldAreDue
    BY <1>0, <2>1 DEF BeatsHoldTheirOwn, HeldAreDue, Openers
  <2> QED
    BY <2>2, <2>3 DEF SlotInv
<1>2. SlotInv /\ [SpendNext]_spendVars => SlotInv'
  <2> SUFFICES ASSUME SlotInv, [SpendNext]_spendVars PROVE SlotInv'
    OBVIOUS
  <2>0. SlotTypes /\ BeatsHoldTheirOwn /\ HeldAreDue
    BY DEF SlotInv
  <2>1. ASSUME NEW o \in Openers, opening' = [opening EXCEPT ![o] = NoOpening], UNCHANGED bankAgent
        PROVE  SlotInv'
    BY <1>0, <2>1, OneOpeningMoves
  <2>2. ASSUME NEW b \in Beats, BeginBeat(b) PROVE SlotInv'
    <3> DEFINE moved == [NoOpening EXCEPT !.on = TRUE, !.rows = DueAndFree, !.todo = DueAndFree]
    <3>1. opening' = [opening EXCEPT ![b] = moved] /\ UNCHANGED bankAgent
      BY <2>2 DEF BeginBeat
    <3>2. moved \in OpeningRecords /\ moved.rows = DueAndFree
          /\ moved.todo \cup moved.start \subseteq moved.rows
      BY <1>0 DEF OpeningRecords, DueAndFree
    <3> HIDE DEF moved
    <3>3. b \in Openers /\ b \notin Askers
      BY SpendAssumption DEF Openers
    <3> QED
      BY <3>1, <3>2, <3>3, OneOpeningMoves
  <2>3. ASSUME NEW p \in Askers, NEW a \in BankAgents, BeginAsk(p, a) PROVE SlotInv'
    <3> DEFINE moved == [NoOpening EXCEPT !.on = TRUE, !.todo = {a}]
    <3>1. opening' = [opening EXCEPT ![p] = moved] /\ UNCHANGED bankAgent
      BY <2>3 DEF BeginAsk
    <3>2. moved \in OpeningRecords /\ moved.rows = {}
      BY <1>0 DEF OpeningRecords
    <3> HIDE DEF moved
    <3>3. p \in Openers /\ p \notin Beats
      BY SpendAssumption DEF Openers
    <3> QED
      BY <3>1, <3>2, <3>3, OneOpeningMoves
  <2>4. ASSUME NEW o \in Openers, NEW a \in BankAgents, OpenTenantRun(o, a) PROVE SlotInv'
    <3> DEFINE was == opening[o]
               left == [was EXCEPT !.todo = @ \ {a}]
               begun == [left EXCEPT !.start = @ \cup {a}]
               refused == [left EXCEPT !.stop = @ \cup (IF o \in Beats THEN {a} ELSE {})]
    <3>1. was \in OpeningRecords /\ a \in was.todo /\ UNCHANGED bankAgent
      BY <2>0, <2>4 DEF OpenTenantRun, SlotTypes
    <3>2. \E moved \in {left, begun, refused} : opening' = [opening EXCEPT ![o] = moved]
      BY <2>4 DEF OpenTenantRun
    <3> HIDE DEF was
    <3>3. left \in OpeningRecords /\ left.rows = was.rows /\ left.todo \subseteq was.todo
          /\ left.start = was.start
      BY <3>1 DEF OpeningRecords
    <3> HIDE DEF left
    <3>4. begun \in OpeningRecords /\ begun.rows = was.rows /\ begun.todo = left.todo
          /\ begun.start = was.start \cup {a}
      BY <3>3 DEF OpeningRecords
    <3>5. refused \in OpeningRecords /\ refused.rows = was.rows /\ refused.todo = left.todo
          /\ refused.start = was.start
      BY <3>3 DEF OpeningRecords
    <3> HIDE DEF begun, refused
    <3>6. \A moved \in {left, begun, refused} :
            /\ moved \in OpeningRecords /\ moved.rows = was.rows
            /\ moved.todo \cup moved.start \subseteq was.todo \cup was.start
      BY <3>1, <3>3, <3>4, <3>5
    <3>7. PICK moved \in OpeningRecords :
            /\ opening' = [opening EXCEPT ![o] = moved] /\ moved.rows = was.rows
            /\ moved.todo \cup moved.start \subseteq was.todo \cup was.start
      BY <3>2, <3>6
    <3>8. /\ o \in Beats => was.todo \cup was.start \subseteq was.rows
          /\ o \in Askers => was.rows = {}
      BY <2>0 DEF BeatsHoldTheirOwn, was
    <3>9. was.rows = opening[o].rows
      BY DEF was
    <3> QED
      BY <3>1, <3>7, <3>8, <3>9, OneOpeningMoves
  <2>5. ASSUME NEW o \in Openers, CommitOpening(o) PROVE SlotInv'
    <3>1. /\ opening' = [opening EXCEPT ![o] = NoOpening]
          /\ bankAgent' = [a \in BankAgents |->
               IF a \notin opening[o].rows THEN bankAgent[a]
               ELSE [paused |-> a \in opening[o].stop, due |-> FALSE]]
      BY <2>5 DEF CommitOpening
    <3>2. /\ opening' \in [Openers -> OpeningRecords] /\ opening'[o] = NoOpening
          /\ \A d \in Openers : d # o => opening'[d] = opening[d]
      BY <1>0, <2>0, <3>1 DEF SlotTypes
    <3>3. bankAgent' \in [BankAgents -> [paused : BOOLEAN, due : BOOLEAN]]
      BY <2>0, <3>1 DEF SlotTypes
    <3>4. BeatsHoldTheirOwn'
      <4>1. \A b \in Beats : opening'[b].todo \cup opening'[b].start \subseteq opening'[b].rows
        BY <1>0, <2>0, <3>2 DEF BeatsHoldTheirOwn, Openers
      <4>2. \A p \in Askers : opening'[p].rows = {}
        BY <1>0, <2>0, <3>2 DEF BeatsHoldTheirOwn, Openers
      <4>3. ASSUME NEW b \in Openers, NEW d \in Openers, b # d
            PROVE  opening'[b].rows \cap opening'[d].rows = {}
        BY <1>0, <2>0, <3>2, <4>3 DEF BeatsHoldTheirOwn
      <4> QED
        BY <4>1, <4>2, <4>3 DEF BeatsHoldTheirOwn
    <3>5. ASSUME NEW d \in Openers, NEW a \in BankAgents, a \in opening'[d].rows
          PROVE  bankAgent'[a].due /\ ~bankAgent'[a].paused
      <4>1. d # o /\ a \in opening[d].rows
        BY <1>0, <3>2, <3>5
      <4>2. a \notin opening[o].rows
        BY <2>0, <4>1 DEF BeatsHoldTheirOwn
      <4>3. bankAgent'[a] = bankAgent[a]
        BY <3>1, <4>2
      <4> QED
        BY <2>0, <4>1, <4>3 DEF HeldAreDue
    <3>6. HeldAreDue'
      BY <3>5 DEF HeldAreDue
    <3> QED
      BY <3>2, <3>3, <3>4, <3>6 DEF SlotInv, SlotTypes
  <2>6. ASSUME NEW r \in Spends, CommitReport(r) PROVE SlotInv'
    <3>1. UNCHANGED opening
      BY <2>6 DEF CommitReport
    <3>2. CASE MustPause(r)
      <4>1. ~RowLocked(r[1]) /\ bankAgent' = [bankAgent EXCEPT ![r[1]] = [paused |-> TRUE, due |-> FALSE]]
        BY <2>6, <3>2 DEF CommitReport
      <4> QED
        BY <2>0, <3>1, <4>1, HeldAgentsStay DEF SlotTypes
    <3>3. CASE ~MustPause(r)
      <4>1. UNCHANGED bankAgent
        BY <2>6, <3>3 DEF CommitReport
      <4> QED
        BY <2>0, <3>1, <4>1, HeldAgentsStay DEF SlotTypes
    <3> QED
      BY <3>2, <3>3
  <2>7. CASE CommitBudget
    <3>1. /\ UNCHANGED opening /\ \A a \in budgeting.stop : ~RowLocked(a)
          /\ bankAgent' = [a \in BankAgents |->
               IF a \in budgeting.stop THEN [paused |-> TRUE, due |-> FALSE] ELSE bankAgent[a]]
      BY <2>7 DEF CommitBudget
    <3>2. bankAgent' \in [BankAgents -> [paused : BOOLEAN, due : BOOLEAN]]
      BY <2>0, <3>1 DEF SlotTypes
    <3>3. \A a \in BankAgents : bankAgent'[a] = bankAgent[a] \/ ~RowLocked(a)
      BY <3>1
    <3> QED
      BY <3>1, <3>2, <3>3, HeldAgentsStay
  <2>8. ASSUME NEW a \in BankAgents, Pause(a) PROVE SlotInv'
    BY <2>0, <2>8, HeldAgentsStay DEF Pause, SlotTypes
  <2>9. ASSUME NEW a \in BankAgents, Resume(a) \/ FallDue(a) PROVE SlotInv'
    <3> DEFINE agents == [paused : BOOLEAN, due : BOOLEAN]
    <3>1. PICK agent \in agents :
            /\ bankAgent' = [bankAgent EXCEPT ![a] = agent]
            /\ ~agent.paused /\ (bankAgent[a].due => agent.due)
      <4>1. bankAgent[a] \in agents
        BY <2>0 DEF SlotTypes
      <4>2. CASE Resume(a)
        <5>1. [bankAgent[a] EXCEPT !.paused = FALSE] \in agents
          BY <4>1
        <5> QED
          BY <4>1, <4>2, <5>1 DEF Resume
      <4>3. CASE FallDue(a)
        <5>1. [bankAgent[a] EXCEPT !.due = TRUE] \in agents
          BY <4>1
        <5> QED
          BY <4>1, <4>3, <5>1 DEF FallDue
      <4> QED
        BY <2>9, <4>2, <4>3
    <3>2. UNCHANGED opening
      BY <2>9 DEF Resume, FallDue
    <3>3. bankAgent' \in [BankAgents -> agents]
      BY <2>0, <3>1 DEF SlotTypes
    <3>4. \A c \in BankAgents : \/ bankAgent'[c] = bankAgent[c]
                                \/ ~bankAgent'[c].paused /\ (bankAgent[c].due => bankAgent'[c].due)
      BY <2>0, <3>1 DEF SlotTypes
    <3> QED
      BY <3>2, <3>3, <3>4, HeldAgentsStay
  <2>10. ASSUME UNCHANGED <<opening, bankAgent>> PROVE SlotInv'
    BY <2>0, <2>10, HeldAgentsStay DEF SlotTypes
  <2>11. ASSUME NEW b \in Beats, NEW r \in Spends, BreakDeadlock(b, r) PROVE SlotInv'
    <3>1. UNCHANGED bankAgent /\ (opening' = [opening EXCEPT ![b] = NoOpening] \/ UNCHANGED opening)
      BY <2>11 DEF BreakDeadlock
    <3>2. b \in Openers
      BY DEF Openers
    <3> QED
      BY <2>1, <2>10, <3>1, <3>2
  <2>12. ASSUME NEW r \in Spends, HoldToTheCap(r) \/ Interrupt(r)
                                  \/ \E c \in Costs : BeginReport(r, c) \/ ClosingReport(r, c)
         PROVE  SlotInv'
    BY <2>10, <2>12 DEF HoldToTheCap, Interrupt, BeginReport, ClosingReport
  <2>13. CASE SwitchAi \/ (\E c \in Caps : BeginBudget(c)) \/ UNCHANGED spendVars
    BY <2>10, <2>13 DEF SwitchAi, BeginBudget, spendVars
  <2> QED
    BY <2>2, <2>3, <2>4, <2>5, <2>6, <2>7, <2>8, <2>9, <2>11, <2>12, <2>13 DEF SpendNext
<1> QED
  BY <1>1, <1>2, PTL DEF SpendSpec

\* take_slot: "a slot is taken once whatever happens to the run".  A beat that
\* commits runs does so for agents that are due and unpaused at that moment.
THEOREM SlotsAreSpentOnce == SpendSpec => OneRunPerSlot
<1> DEFINE Slots == \A b \in Beats, a \in BankAgents :
              opening[b].on /\ ~opening'[b].on /\ a \in opening[b].start /\ spending' # spending =>
                bankAgent[a].due /\ ~bankAgent[a].paused
<1>1. SlotInv => Slots
  BY DEF SlotInv, BeatsHoldTheirOwn, HeldAreDue, Openers
<1>2. SlotInv /\ [SpendNext]_spendVars => [Slots]_spendVars
  BY <1>1
<1> QED
  BY <1>2, SlotInvariant, PTL DEF SpendSpec, OneRunPerSlot

-----------------------------------------------------------------------------
(***************************************************************************)
(* Sums over a finite set: what budget.py's totals are made of.  Induction *)
(* is stated of a set of subsets, in place of a predicate.                 *)
(***************************************************************************)
\* Induction over the subsets of a finite set, stated of a set of subsets.
LEMMA SubsetInduction ==
  ASSUME NEW S, IsFiniteSet(S), NEW Good \in SUBSET (SUBSET S),
         {} \in Good,
         \A T \in SUBSET S : T # {} /\ (\A x \in T : T \ {x} \in Good) => T \in Good
  PROVE  SUBSET S \subseteq Good
<1> DEFINE Bad == {T \in SUBSET S : T \notin Good}
<1>1. Bad \subseteq FiniteSubsetsOf(S)
  BY FS_Subset DEF FiniteSubsetsOf
<1>2. SUFFICES ASSUME Bad # {} PROVE FALSE
  OBVIOUS
<1>3. PICK T \in Bad : \A U \in Bad : ~ (<<U, T>> \in StrictSubsetOrdering(S))
  <2> HIDE DEF Bad
  <2> QED
    BY <1>1, <1>2, FS_StrictSubsetOrderingWellFounded, WFMin
<1>4. ASSUME NEW x \in T PROVE T \ {x} \in Good
  <2>1. T \ {x} \in SUBSET S /\ T \ {x} \subseteq T /\ T \ {x} # T
    BY <1>4
  <2>2. <<T \ {x}, T>> \in StrictSubsetOrdering(S)
    BY <2>1 DEF StrictSubsetOrdering
  <2> QED
    BY <1>3, <2>1, <2>2
<1> QED
  BY <1>3, <1>4

\* MapThenSumSet picks one element after the other: a table of the sums of all subsets.
AnyOf(T) == CHOOSE x \in T : TRUE
IsSumTable(table, w, S) ==
  table = [T \in SUBSET S |-> IF T = {} THEN 0 ELSE w[AnyOf(T)] + table[T \ {AnyOf(T)}]]
SumTable(w, S) == CHOOSE table : IsSumTable(table, w, S)
SumOf(w, S) == SumTable(w, S)[S]

\* Such a table exists: the sums of small subsets give those of subsets with one more.
LEMMA SumTableExists ==
  ASSUME NEW S, IsFiniteSet(S), NEW w \in [S -> Nat]
  PROVE  IsSumTable(SumTable(w, S), w, S)
<1> DEFINE Small(n) == {U \in SUBSET S : Cardinality(U) <= n}
           Entry(table, U) == IF U = {} THEN 0 ELSE w[AnyOf(U)] + table[U \ {AnyOf(U)}]
           Tabled(n) == \E table : table = [U \in Small(n) |-> Entry(table, U)]
           Good == {T \in SUBSET S : Tabled(Cardinality(T))}
<1>1. \A U \in SUBSET S : IsFiniteSet(U) /\ Cardinality(U) \in Nat /\ (Cardinality(U) = 0 <=> U = {})
  BY FS_Subset, FS_EmptySet, FS_CardinalityType
<1>2. \A U \in SUBSET S : U # {} => AnyOf(U) \in U
  BY DEF AnyOf
<1>3. \A U \in SUBSET S : U # {} => Cardinality(U \ {AnyOf(U)}) = Cardinality(U) - 1
  BY <1>1, <1>2, FS_RemoveElement
<1>4. {} \in Good
  <2> DEFINE t == [U \in Small(0) |-> 0]
  <2>1. \A U \in Small(0) : U = {}
    BY <1>1
  <2>2. t = [U \in Small(0) |-> Entry(t, U)]
    BY <2>1
  <2>3. Cardinality({}) = 0
    BY FS_EmptySet
  <2> QED
    BY <2>2, <2>3
<1>5. ASSUME NEW T \in SUBSET S, T # {}, \A x \in T : T \ {x} \in Good
      PROVE  T \in Good
  <2> DEFINE n == Cardinality(T)
  <2>1. n \in Nat /\ n # 0 /\ Tabled(n - 1)
    <3>1. T \ {AnyOf(T)} \in Good
      BY <1>2, <1>5
    <3>2. Tabled(Cardinality(T \ {AnyOf(T)}))
      BY <3>1
    <3> HIDE DEF Tabled
    <3> QED
      BY <1>1, <1>3, <1>5, <3>2
  <2> HIDE DEF n
  <2>2. PICK t : t = [U \in Small(n - 1) |-> Entry(t, U)]
    BY <2>1
  <2> DEFINE more == [U \in Small(n) |-> Entry(t, U)]
  <2>3. \A U \in Small(n) : U # {} => U \ {AnyOf(U)} \in Small(n - 1)
    BY <1>1, <1>3, <2>1
  <2>4. \A U \in Small(n - 1) : U \in Small(n) /\ t[U] = more[U]
    <3>1. \A U \in Small(n - 1) : U \in Small(n)
      BY <1>1, <2>1
    <3>2. \A U \in Small(n - 1) : t[U] = Entry(t, U)
      BY <2>2
    <3> HIDE DEF Small, Entry
    <3> QED
      BY <3>1, <3>2
  <2>5. \A U \in Small(n) : Entry(t, U) = Entry(more, U)
    <3> HIDE DEF Small, more
    <3> QED
      BY <2>3, <2>4
  <2>6. more = [U \in Small(n) |-> Entry(more, U)]
    <3>1. more = [U \in Small(n) |-> Entry(t, U)]
      OBVIOUS
    <3> HIDE DEF more, Entry, Small
    <3> QED
      BY <2>5, <3>1
  <2>7. Tabled(n)
    <3> HIDE DEF more
    <3> QED
      BY <2>6
  <2> QED
    BY <2>7 DEF n
<1>6. S \in Good
  <2> HIDE DEF Good
  <2>1. Good \in SUBSET SUBSET S
    BY DEF Good
  <2> QED
    BY <1>4, <1>5, <2>1, SubsetInduction
<1>7. Small(Cardinality(S)) = SUBSET S
  BY <1>1, FS_Subset
<1>8. \E table : IsSumTable(table, w, S)
  BY <1>6, <1>7 DEF IsSumTable
<1> QED
  BY <1>8 DEF SumTable

\* What the table says of the empty set and of the picked element.
LEMMA SumTableEntries ==
  ASSUME NEW S, IsFiniteSet(S), NEW w \in [S -> Nat]
  PROVE  /\ SumTable(w, S)[{}] = 0
         /\ \A T \in SUBSET S : T # {} =>
              AnyOf(T) \in T /\ SumTable(w, S)[T] = w[AnyOf(T)] + SumTable(w, S)[T \ {AnyOf(T)}]
<1> DEFINE table == SumTable(w, S)
<1>1. table = [T \in SUBSET S |-> IF T = {} THEN 0 ELSE w[AnyOf(T)] + table[T \ {AnyOf(T)}]]
  BY SumTableExists DEF IsSumTable
<1> HIDE DEF table
<1>2. /\ table[{}] = 0
      /\ \A T \in SUBSET S : T # {} => table[T] = w[AnyOf(T)] + table[T \ {AnyOf(T)}]
  BY <1>1
<1>3. \A T \in SUBSET S : T # {} => AnyOf(T) \in T
  BY DEF AnyOf
<1> QED
  BY <1>2, <1>3 DEF table

\* The sum does not depend on which element is picked: any one can be taken out.
LEMMA AnyElementFirst ==
  ASSUME NEW S, IsFiniteSet(S), NEW w \in [S -> Nat]
  PROVE  /\ SumTable(w, S)[{}] = 0
         /\ \A T \in SUBSET S :
              /\ SumTable(w, S)[T] \in Nat
              /\ \A x \in T : SumTable(w, S)[T] = w[x] + SumTable(w, S)[T \ {x}]
<1> DEFINE table == SumTable(w, S)
           Good == {T \in SUBSET S :
                      /\ table[T] \in Nat
                      /\ \A x \in T : table[T \ {x}] \in Nat /\ table[T] = w[x] + table[T \ {x}]}
<1>1. /\ table[{}] = 0
      /\ \A T \in SUBSET S : T # {} =>
           AnyOf(T) \in T /\ table[T] = w[AnyOf(T)] + table[T \ {AnyOf(T)}]
  BY SumTableEntries
<1> HIDE DEF table
<1>2. ASSUME NEW T \in SUBSET S, T # {}, \A x \in T : T \ {x} \in Good
      PROVE  T \in Good
  <2> DEFINE p == AnyOf(T)
  <2>1. p \in T /\ table[T] = w[p] + table[T \ {p}] /\ T \ {p} \in Good
    BY <1>1, <1>2
  <2>2. w[p] \in Nat /\ table[T \ {p}] \in Nat
    BY <2>1
  <2>3. ASSUME NEW x \in T, x # p
        PROVE  table[T] = w[x] + table[T \ {x}]
    <3>1. table[T \ {p}] = w[x] + table[(T \ {p}) \ {x}]
      BY <2>1, <2>3
    <3>2. table[T \ {x}] = w[p] + table[(T \ {x}) \ {p}]
      <4>1. T \ {x} \in Good /\ p \in T \ {x}
        BY <1>2, <2>1, <2>3
      <4> QED
        BY <4>1
    <3>3. (T \ {p}) \ {x} = (T \ {x}) \ {p}
      OBVIOUS
    <3>4. table[(T \ {p}) \ {x}] \in Nat /\ w[x] \in Nat
      BY <2>1, <2>3
    <3>5. table[T] = w[p] + (w[x] + table[(T \ {p}) \ {x}])
      BY <2>1, <3>1
    <3>6. table[T \ {x}] = w[p] + table[(T \ {p}) \ {x}]
      BY <3>2, <3>3
    <3> HIDE DEF p, Good
    <3> QED
      BY <2>2, <3>4, <3>5, <3>6
  <2>4. \A x \in T : table[T] = w[x] + table[T \ {x}] /\ table[T \ {x}] \in Nat
    <3>1. \A x \in T : table[T \ {x}] \in Nat
      BY <1>2
    <3> HIDE DEF Good
    <3> QED
      BY <2>1, <2>3, <3>1
  <2>5. table[T] \in Nat
    BY <2>1, <2>2
  <2> QED
    BY <2>4, <2>5
<1>3. {} \in Good
  BY <1>1
<1>4. SUBSET S \subseteq Good
  <2>1. Good \in SUBSET SUBSET S
    OBVIOUS
  <2> HIDE DEF Good
  <2> QED
    BY <1>2, <1>3, <2>1, SubsetInduction
<1>5. \A T \in SUBSET S : table[T] \in Nat /\ \A x \in T : table[T] = w[x] + table[T \ {x}]
  BY <1>4
<1> QED
  BY <1>1, <1>5 DEF table

\* A sum of numbers is a number.
LEMMA SumIsANumber ==
  ASSUME NEW S, IsFiniteSet(S), NEW w \in [S -> Nat]
  PROVE  SumOf(w, S) \in Nat
BY AnyElementFirst DEF SumOf

\* Sums that differ by at most L in each element of C differ by at most L for each of C.
LEMMA SumGrows ==
  ASSUME NEW S, IsFiniteSet(S), NEW w \in [S -> Nat], NEW v \in [S -> Nat],
         NEW C \in SUBSET S, NEW L \in Nat,
         \A x \in S : v[x] <= w[x] + (IF x \in C THEN L ELSE 0)
  PROVE  SumOf(v, S) <= SumOf(w, S) + L * Cardinality(C)
<1> DEFINE tw == SumTable(w, S)
           tv == SumTable(v, S)
           Good == {T \in SUBSET S : tv[T] <= tw[T] + L * Cardinality(C \cap T)}
<1>1. /\ tw[{}] = 0 /\ tv[{}] = 0
      /\ \A T \in SUBSET S :
           /\ tw[T] \in Nat /\ tv[T] \in Nat
           /\ \A x \in T : tw[T] = w[x] + tw[T \ {x}] /\ tv[T] = v[x] + tv[T \ {x}]
  <2>1. /\ tw[{}] = 0
        /\ \A T \in SUBSET S : tw[T] \in Nat /\ \A x \in T : tw[T] = w[x] + tw[T \ {x}]
    BY AnyElementFirst
  <2>2. /\ tv[{}] = 0
        /\ \A T \in SUBSET S : tv[T] \in Nat /\ \A x \in T : tv[T] = v[x] + tv[T \ {x}]
    BY AnyElementFirst
  <2> HIDE DEF tw, tv
  <2> QED
    BY <2>1, <2>2
<1> HIDE DEF tw, tv
<1>2. \A T \in SUBSET S : IsFiniteSet(C \cap T) /\ Cardinality(C \cap T) \in Nat
  BY FS_Subset, FS_CardinalityType
<1>3. {} \in Good
  <2>1. C \cap {} = {} /\ Cardinality({}) = 0 /\ L * 0 = 0
    BY FS_EmptySet
  <2> QED
    BY <1>1, <2>1
<1>4. ASSUME NEW T \in SUBSET S, T # {}, \A x \in T : T \ {x} \in Good
      PROVE  T \in Good
  <2>1. PICK x \in T : TRUE
    BY <1>4
  <2> DEFINE less == T \ {x}
             k == Cardinality(C \cap less)
  <2>2. /\ tv[T] = v[x] + tv[less] /\ tw[T] = w[x] + tw[less]
        /\ v[x] \in Nat /\ w[x] \in Nat /\ tv[less] \in Nat /\ tw[less] \in Nat
    BY <1>1, <2>1
  <2>3. tv[less] <= tw[less] + L * k /\ k \in Nat
    BY <1>2, <1>4, <2>1
  <2>4. C \cap less = (C \cap T) \ {x}
    OBVIOUS
  <2>5. k = IF x \in C THEN Cardinality(C \cap T) - 1 ELSE Cardinality(C \cap T)
    <3>1. IsFiniteSet(C \cap T) /\ (x \in C <=> x \in C \cap T)
      BY <1>2, <2>1
    <3>2. Cardinality((C \cap T) \ {x}) =
            IF x \in C \cap T THEN Cardinality(C \cap T) - 1 ELSE Cardinality(C \cap T)
      BY <3>1, FS_RemoveElement
    <3> QED
      BY <2>4, <3>1, <3>2
  <2> HIDE DEF less, k
  <2>6. v[x] <= w[x] + (IF x \in C THEN L ELSE 0)
    BY <2>1
  <2>7. CASE x \in C
    <3>1. Cardinality(C \cap T) = k + 1
      <4>1. Cardinality(C \cap T) \in Nat
        BY <1>2
      <4> QED
        BY <2>3, <2>5, <2>7, <4>1
    <3>2. L * (k + 1) = L * k + L /\ L * k \in Nat
      BY <2>3
    <3>3. tv[T] <= tw[T] + (L * k + L)
      BY <2>2, <2>3, <2>6, <2>7, <3>2
    <3> QED
      BY <3>1, <3>2, <3>3
  <2>8. CASE x \notin C
    <3>1. Cardinality(C \cap T) = k
      BY <2>5, <2>8
    <3>2. L * k \in Nat
      BY <2>3
    <3>3. tv[T] <= tw[T] + L * k
      BY <2>2, <2>3, <2>6, <2>8, <3>2
    <3> QED
      BY <3>1, <3>3
  <2> QED
    BY <2>7, <2>8
<1>5. SUBSET S \subseteq Good
  <2>1. Good \in SUBSET SUBSET S
    OBVIOUS
  <2> HIDE DEF Good
  <2> QED
    BY <1>3, <1>4, <2>1, SubsetInduction
<1>6. S \in Good /\ C \cap S = C
  BY <1>5
<1> QED
  BY <1>6 DEF SumOf, tw, tv

\* Smaller summands, smaller sum.
LEMMA SumIsMonotone ==
  ASSUME NEW S, IsFiniteSet(S), NEW w \in [S -> Nat], NEW v \in [S -> Nat],
         \A x \in S : v[x] <= w[x]
  PROVE  SumOf(v, S) <= SumOf(w, S)
<1>1. SumOf(w, S) \in Nat /\ SumOf(v, S) \in Nat
  BY SumIsANumber
<1>2. Cardinality({}) = 0
  BY FS_EmptySet
<1>3. \A x \in S : v[x] \in Nat /\ w[x] \in Nat /\ v[x] <= w[x] + (IF x \in {} THEN 0 ELSE 0)
  OBVIOUS
<1>4. SumOf(v, S) <= SumOf(w, S) + 0 * Cardinality({})
  BY <1>3, SumGrows
<1> QED
  BY <1>1, <1>2, <1>4

\* One element is all that changes.
LEMMA SumAfterOneChange ==
  ASSUME NEW S, IsFiniteSet(S), NEW w \in [S -> Nat], NEW v \in [S -> Nat], NEW x \in S,
         \A y \in S \ {x} : v[y] = w[y]
  PROVE  SumOf(v, S) = SumOf(w, S) - w[x] + v[x]
<1> DEFINE tw == SumTable(w, S)
           tv == SumTable(v, S)
           Good == {T \in SUBSET S : x \notin T => tv[T] = tw[T]}
<1>1. /\ tw[{}] = 0 /\ tv[{}] = 0
      /\ \A T \in SUBSET S :
           /\ tw[T] \in Nat /\ tv[T] \in Nat
           /\ \A y \in T : tw[T] = w[y] + tw[T \ {y}] /\ tv[T] = v[y] + tv[T \ {y}]
  <2>1. /\ tw[{}] = 0
        /\ \A T \in SUBSET S : tw[T] \in Nat /\ \A y \in T : tw[T] = w[y] + tw[T \ {y}]
    BY AnyElementFirst
  <2>2. /\ tv[{}] = 0
        /\ \A T \in SUBSET S : tv[T] \in Nat /\ \A y \in T : tv[T] = v[y] + tv[T \ {y}]
    BY AnyElementFirst
  <2> HIDE DEF tw, tv
  <2> QED
    BY <2>1, <2>2
<1> HIDE DEF tw, tv
<1>2. ASSUME NEW T \in SUBSET S, T # {}, \A y \in T : T \ {y} \in Good
      PROVE  T \in Good
  <2> SUFFICES ASSUME x \notin T PROVE tv[T] = tw[T]
    OBVIOUS
  <2>1. PICK y \in T : TRUE
    BY <1>2
  <2>2. tv[T \ {y}] = tw[T \ {y}]
    BY <1>2, <2>1
  <2>3. v[y] = w[y]
    BY <2>1
  <2> QED
    BY <1>1, <2>1, <2>2, <2>3
<1>3. {} \in Good
  BY <1>1
<1>4. SUBSET S \subseteq Good
  <2>1. Good \in SUBSET SUBSET S
    OBVIOUS
  <2> HIDE DEF Good
  <2> QED
    BY <1>2, <1>3, <2>1, SubsetInduction
<1>5. tv[S \ {x}] = tw[S \ {x}]
  BY <1>4
<1>6. /\ tw[S] = w[x] + tw[S \ {x}] /\ tv[S] = v[x] + tv[S \ {x}]
      /\ tw[S \ {x}] \in Nat /\ w[x] \in Nat /\ v[x] \in Nat
  BY <1>1
<1>7. tv[S] = tw[S] - w[x] + v[x]
  BY <1>5, <1>6
<1> QED
  BY <1>7 DEF SumOf, tw, tv

\* Nothing adds up to nothing.
LEMMA SumOfZeroes ==
  ASSUME NEW S, IsFiniteSet(S), NEW w \in [S -> Nat], \A x \in S : w[x] = 0
  PROVE  SumOf(w, S) = 0
<1> DEFINE table == SumTable(w, S)
           Good == {T \in SUBSET S : table[T] = 0}
<1>1. /\ table[{}] = 0
      /\ \A T \in SUBSET S : \A x \in T : table[T] = w[x] + table[T \ {x}]
  BY AnyElementFirst
<1> HIDE DEF table
<1>2. ASSUME NEW T \in SUBSET S, T # {}, \A x \in T : T \ {x} \in Good
      PROVE  T \in Good
  <2>1. PICK x \in T : TRUE
    BY <1>2
  <2>2. table[T \ {x}] = 0 /\ w[x] = 0
    BY <1>2, <2>1
  <2> QED
    BY <1>1, <2>1, <2>2
<1>3. {} \in Good
  BY <1>1
<1>4. SUBSET S \subseteq Good
  <2>1. Good \in SUBSET SUBSET S
    OBVIOUS
  <2> HIDE DEF Good
  <2> QED
    BY <1>2, <1>3, <2>1, SubsetInduction
<1>5. table[S] = 0
  BY <1>4
<1> QED
  BY <1>5 DEF SumOf, table

-----------------------------------------------------------------------------
(***************************************************************************)
(* The cap.  A run that was opened is held to its limit in what follows,   *)
(* whatever it really cost: the promises kept that way change only when    *)
(* the lock's holder commits the runs it has started.                      *)
(***************************************************************************)
CostOf == [r \in Spends |-> spending[r].cost]
PromiseOf == [r \in Spends |-> Promise(r)]
KeptPromise(r) == IF Running(r) \/ spending[r].cost > Limit THEN Limit ELSE spending[r].cost
KeptOf == [r \in Spends |-> KeptPromise(r)]
Kept == SumOf(KeptOf, Spends)

\* A bank has finitely many runs in a month.
LEMMA SpendsAreFinite == IsFiniteSet(Spends)
<1>1. IsFiniteSet(1..MaxRuns) /\ IsFiniteSet(BankAgents)
  BY SpendAssumption, FS_Interval
<1> QED
  BY <1>1, FS_Product DEF Spends

\* What the code adds up is the sum of a function on the runs.
LEMMA MappedSum ==
  ASSUME NEW S, NEW w \in [S -> Nat]
  PROVE  MapThenSumSet(LAMBDA x : w[x], S) = SumOf(w, S)
BY DEF SumOf, SumTable, IsSumTable, AnyOf, MapThenSumSet, MapThenFoldSet

\* A sum over the runs' costs, whichever table of runs holds them.
LEMMA CostsAreAdded ==
  ASSUME NEW table, \A r \in Spends : table[r].cost \in Nat
  PROVE  MapThenSumSet(LAMBDA r : table[r].cost, Spends)
           = SumOf([r \in Spends |-> table[r].cost], Spends)
<1> DEFINE costs == [r \in Spends |-> table[r].cost]
<1>1. costs \in [Spends -> Nat]
  OBVIOUS
<1>2. MapThenSumSet(LAMBDA r : table[r].cost, Spends) = MapThenSumSet(LAMBDA r : costs[r], Spends)
  BY ZenonT(60) DEF MapThenSumSet, MapThenFoldSet
<1> HIDE DEF costs
<1>3. MapThenSumSet(LAMBDA r : costs[r], Spends) = SumOf(costs, Spends)
  BY <1>1, MappedSum
<1> QED
  BY <1>2, <1>3 DEF costs

\* What has been spent is such a sum.
LEMMA SpentIsASum ==
  ASSUME \A r \in Spends : spending[r].cost \in Nat
  PROVE  CostOf \in [Spends -> Nat] /\ Spent = SumOf(CostOf, Spends) /\ Spent \in Nat
<1>1. CostOf \in [Spends -> Nat]
  BY DEF CostOf
<1>2. Spent = SumOf(CostOf, Spends)
  BY CostsAreAdded DEF Spent, CostOf
<1> QED
  BY <1>1, <1>2, SpendsAreFinite, SumIsANumber

\* The same after a step.
LEMMA SpentAfter ==
  ASSUME \A r \in Spends : spending'[r].cost \in Nat
  PROVE  Spent' = SumOf(CostOf', Spends)
<1> DEFINE table == spending'
<1>1. Spent' = MapThenSumSet(LAMBDA r : table[r].cost, Spends)
  BY DEF Spent, MapThenSumSet, MapThenFoldSet
<1>2. CostOf' = [r \in Spends |-> table[r].cost]
  BY DEF CostOf
<1>3. \A r \in Spends : table[r].cost \in Nat
  OBVIOUS
<1> HIDE DEF table
<1>4. MapThenSumSet(LAMBDA r : table[r].cost, Spends) = SumOf([r \in Spends |-> table[r].cost], Spends)
  BY <1>3, CostsAreAdded
<1> QED
  BY <1>1, <1>2, <1>4

\* What is held: spent and still promised.
LEMMA HeldIsASum ==
  ASSUME \A r \in Spends : spending[r].cost \in Nat
  PROVE  PromiseOf \in [Spends -> Nat] /\ Held = SumOf(PromiseOf, Spends)
<1>1. PromiseOf \in [Spends -> Nat]
  BY SpendAssumption DEF PromiseOf, Promise, Larger
<1>2. Held = MapThenSumSet(LAMBDA r : PromiseOf[r], Spends)
  BY DEF Held, PromiseOf, MapThenSumSet, MapThenFoldSet
<1> QED
  BY <1>1, <1>2, MappedSum

CapTypes ==
  /\ cap \in Nat /\ peak \in Nat /\ cap <= peak
  /\ spending \in [Spends -> [status : {"none", "running", "closed"}, cost : Nat]]
  /\ report \in [Spends -> [at : {"none", "saved", "off", "held"}, cost : Nat,
                            paused : BOOLEAN, over : BOOLEAN]]
  /\ budgeting \in [on : BOOLEAN, cap : Nat, stop : SUBSET BankAgents]

\* An event is applied to a run that is running, whose row it holds.
ReportedRunsRun == \A r \in Spends : report[r] # NoReport => Running(r)

\* Whoever has started a run, or looked at the spend, holds the spend lock.
LookersHoldTheLock ==
  /\ \A o \in Openers : opening[o].start # {} => spendLock = o
  /\ \A r \in Spends : report[r].at = "held" => spendLock = r

\* What the lock's holder has started is paid for beside every promise kept.
StartsFit ==
  /\ Kept <= peak
  /\ \A o \in Openers :
       opening[o].start # {} => Kept + Limit * Cardinality(opening[o].start) <= peak

\* What an event saw within the cap is within it until the event commits.
LooksAreTrue ==
  \A r \in Spends \ disturbed : report[r].at = "held" /\ ~report[r].over => SpentWith(r) <= cap

CapInv == CapTypes /\ ReportedRunsRun /\ LookersHoldTheLock /\ StartsFit /\ LooksAreTrue

\* A month starts with a cap and no run.
LEMMA CapStartsTrue == SpendInit => CapInv
<1> SUFFICES ASSUME SpendInit PROVE CapInv
  OBVIOUS
<1>1. CapTypes
  BY SpendAssumption DEF SpendInit, CapTypes, Unopened, NoReport, NoBudgeting
<1>2. ReportedRunsRun
  BY DEF SpendInit, ReportedRunsRun
<1>3. LookersHoldTheLock
  BY DEF SpendInit, LookersHoldTheLock, NoOpening, NoReport
<1>4. \A o \in Openers : opening[o].start = {}
  BY DEF SpendInit, NoOpening
<1>5. Kept = 0
  <2>1. \A r \in Spends : KeptOf[r] = 0
    BY SpendAssumption DEF SpendInit, KeptOf, KeptPromise, Running, Unopened
  <2>2. KeptOf \in [Spends -> Nat]
    BY <2>1 DEF KeptOf
  <2> QED
    BY <2>1, <2>2, SpendsAreFinite, SumOfZeroes DEF Kept
<1>6. StartsFit
  BY <1>1, <1>4, <1>5 DEF StartsFit, CapTypes
<1>7. LooksAreTrue
  BY DEF SpendInit, LooksAreTrue, NoReport
<1> QED
  BY <1>1, <1>2, <1>3, <1>6, <1>7 DEF CapInv

\* Every step keeps the types, and the cap below the highest there was.
LEMMA CapTypesStay == SlotInv /\ CapTypes /\ [SpendNext]_spendVars => CapTypes'
<1> SUFFICES ASSUME SlotInv, CapTypes, [SpendNext]_spendVars PROVE CapTypes'
  OBVIOUS
<1> USE DEF rows
<1> DEFINE money == <<cap, peak, spending, budgeting>>
<1>0. ASSUME UNCHANGED money, UNCHANGED report PROVE CapTypes'
  BY <1>0 DEF CapTypes
<1>1. ASSUME NEW b \in Beats, BeginBeat(b) PROVE CapTypes'
  BY <1>0, <1>1 DEF BeginBeat
<1>2. ASSUME NEW p \in Askers, NEW a \in BankAgents, BeginAsk(p, a) PROVE CapTypes'
  BY <1>0, <1>2 DEF BeginAsk
<1>3. ASSUME NEW o \in Openers, NEW a \in BankAgents, OpenTenantRun(o, a) PROVE CapTypes'
  BY <1>0, <1>3 DEF OpenTenantRun
<1>4. ASSUME NEW o \in Openers, CommitOpening(o) PROVE CapTypes'
  BY <1>4 DEF CommitOpening, CapTypes, Unopened
<1>5. ASSUME NEW r \in Spends, NEW c \in Costs, BeginReport(r, c) PROVE CapTypes'
  <2>1. bankAgent[r[1]].paused \in BOOLEAN /\ c \in Nat
    BY SpendAssumption DEF SlotInv, SlotTypes, Spends
  <2>2. UNCHANGED money
    BY <1>5 DEF BeginReport
  <2>3. report' \in [Spends -> [at : {"none", "saved", "off", "held"}, cost : Nat,
                                paused : BOOLEAN, over : BOOLEAN]]
    BY <1>5, <2>1 DEF BeginReport, CapTypes
  <2> QED
    BY <2>2, <2>3 DEF CapTypes
<1>6. ASSUME NEW r \in Spends, HoldToTheCap(r) PROVE CapTypes'
  <2>1. UNCHANGED money
    BY <1>6 DEF HoldToTheCap
  <2>2. \/ report' = [report EXCEPT ![r].at = "off"]
        \/ report' = [report EXCEPT ![r].at = "held", ![r].over = SpentWith(r) > cap]
    BY <1>6 DEF HoldToTheCap
  <2>3. report' \in [Spends -> [at : {"none", "saved", "off", "held"}, cost : Nat,
                                paused : BOOLEAN, over : BOOLEAN]]
    <3> DEFINE over == SpentWith(r) > cap
    <3>1. over \in BOOLEAN
      OBVIOUS
    <3> HIDE DEF over
    <3>2. \/ report' = [report EXCEPT ![r].at = "off"]
          \/ report' = [report EXCEPT ![r].at = "held", ![r].over = over]
      BY <2>2 DEF over
    <3>3. CASE report' = [report EXCEPT ![r].at = "off"]
      BY <3>3 DEF CapTypes
    <3>4. CASE report' = [report EXCEPT ![r].at = "held", ![r].over = over]
      <4> DEFINE held == [report EXCEPT ![r].at = "held"]
      <4>1. held \in [Spends -> [at : {"none", "saved", "off", "held"}, cost : Nat,
                                paused : BOOLEAN, over : BOOLEAN]]
        BY DEF CapTypes
      <4>2. report' = [held EXCEPT ![r].over = over]
        BY <3>4
      <4> HIDE DEF held
      <4> QED
        BY <3>1, <4>1, <4>2
    <3> QED
      BY <3>2, <3>3, <3>4
  <2> QED
    BY <2>1, <2>3 DEF CapTypes
<1>7. ASSUME NEW r \in Spends, CommitReport(r) PROVE CapTypes'
  <2>1. /\ UNCHANGED <<cap, peak, budgeting>> /\ report' = [report EXCEPT ![r] = NoReport]
        /\ \E s \in {"closed", "running"} :
             spending' = [spending EXCEPT ![r] = [status |-> s, cost |-> report[r].cost]]
    BY <1>7 DEF CommitReport
  <2>2. report[r].cost \in Nat
    BY DEF CapTypes
  <2> QED
    BY <2>1, <2>2 DEF CapTypes, NoReport
<1>8. ASSUME NEW r \in Spends, NEW c \in Costs, ClosingReport(r, c) PROVE CapTypes'
  BY <1>8, SpendAssumption DEF ClosingReport, CapTypes
<1>9. ASSUME NEW r \in Spends, Interrupt(r) PROVE CapTypes'
  BY <1>9 DEF Interrupt, CapTypes
<1>10. ASSUME NEW b \in Beats, NEW r \in Spends, BreakDeadlock(b, r) PROVE CapTypes'
  <2>1. UNCHANGED money /\ (UNCHANGED report \/ report' = [report EXCEPT ![r] = NoReport])
    BY <1>10 DEF BreakDeadlock
  <2>2. NoReport \in [at : {"none", "saved", "off", "held"}, cost : Nat,
                      paused : BOOLEAN, over : BOOLEAN]
    BY DEF NoReport
  <2>3. CASE report' = [report EXCEPT ![r] = NoReport]
    BY <2>1, <2>2, <2>3 DEF CapTypes
  <2> QED
    BY <1>0, <2>1, <2>3
<1>11. ASSUME NEW c \in Caps, BeginBudget(c) PROVE CapTypes'
  BY <1>11, SpendAssumption DEF BeginBudget, CapTypes
<1>12. ASSUME CommitBudget PROVE CapTypes'
  BY <1>12 DEF CommitBudget, CapTypes, Larger, NoBudgeting
<1>13. CASE (\E a \in BankAgents : Pause(a) \/ Resume(a) \/ FallDue(a)) \/ SwitchAi \/ UNCHANGED spendVars
  BY <1>0, <1>13 DEF Pause, Resume, FallDue, SwitchAi, spendVars
<1> QED
  BY <1>1, <1>2, <1>3, <1>4, <1>5, <1>6, <1>7, <1>8, <1>9, <1>10, <1>11, <1>12, <1>13 DEF SpendNext

\* The lock names one holder: a transaction, the run of an event, or nobody.
LEMMA HoldersDiffer ==
  /\ \A o \in Openers : o # Free
  /\ \A r \in Spends : r # Free /\ r \notin Openers
BY SpendAssumption DEF Openers

\* An event's run cannot be closed by anyone else while its row is held.
LEMMA ReportedRunsStay ==
  SlotInv /\ CapTypes /\ ReportedRunsRun /\ [SpendNext]_spendVars => ReportedRunsRun'
<1> SUFFICES ASSUME SlotInv, CapTypes, ReportedRunsRun, [SpendNext]_spendVars PROVE ReportedRunsRun'
  OBVIOUS
<1> USE DEF rows
<1>0. ASSUME UNCHANGED spending,
             \A r \in Spends : report'[r] = report[r] \/ report'[r] = NoReport \/ Running(r)
      PROVE  ReportedRunsRun'
  BY <1>0 DEF ReportedRunsRun, Running
<1>1. ASSUME UNCHANGED <<spending, report>> PROVE ReportedRunsRun'
  BY <1>0, <1>1
<1>2. ASSUME NEW b \in Beats, BeginBeat(b) PROVE ReportedRunsRun'
  BY <1>1, <1>2 DEF BeginBeat
<1>3. ASSUME NEW p \in Askers, NEW a \in BankAgents, BeginAsk(p, a) PROVE ReportedRunsRun'
  BY <1>1, <1>3 DEF BeginAsk
<1>4. ASSUME NEW o \in Openers, NEW a \in BankAgents, OpenTenantRun(o, a) PROVE ReportedRunsRun'
  BY <1>1, <1>4 DEF OpenTenantRun
<1>5. ASSUME NEW o \in Openers, CommitOpening(o) PROVE ReportedRunsRun'
  <2>1. UNCHANGED report /\ \A r \in Spends : spending'[r] = spending[r] \/ spending'[r].status = "running"
    BY <1>5 DEF CommitOpening, Unopened
  <2> QED
    BY <2>1 DEF ReportedRunsRun, Running
<1>6. ASSUME NEW r \in Spends, NEW c \in Costs, BeginReport(r, c) PROVE ReportedRunsRun'
  <2>1. UNCHANGED spending /\ Running(r)
    BY <1>6 DEF BeginReport, Reported
  <2>2. \A q \in Spends : q # r => report'[q] = report[q]
    BY <1>6 DEF BeginReport, CapTypes
  <2> QED
    BY <1>0, <2>1, <2>2
<1>7. ASSUME NEW r \in Spends, HoldToTheCap(r) PROVE ReportedRunsRun'
  <2>1. UNCHANGED spending /\ \A q \in Spends : q # r => report'[q] = report[q]
    BY <1>7 DEF HoldToTheCap, CapTypes
  <2>2. Running(r)
    BY <1>7 DEF HoldToTheCap, ReportedRunsRun, NoReport
  <2> QED
    BY <1>0, <2>1, <2>2
<1>8. ASSUME NEW r \in Spends, CommitReport(r) PROVE ReportedRunsRun'
  <2>1. /\ \A q \in Spends : q # r => report'[q] = report[q] /\ spending'[q] = spending[q]
        /\ report'[r] = NoReport
    BY <1>8 DEF CommitReport, CapTypes
  <2> QED
    BY <2>1 DEF ReportedRunsRun, Running
<1>9. ASSUME NEW r \in Spends, Interrupt(r) \/ \E c \in Costs : ClosingReport(r, c)
      PROVE  ReportedRunsRun'
  <2>1. /\ \A q \in Spends : q # r => spending'[q] = spending[q]
        /\ UNCHANGED report /\ report[r] = NoReport
    BY <1>9 DEF Interrupt, ClosingReport, Reported, RunRowFree, CapTypes
  <2> QED
    BY <2>1 DEF ReportedRunsRun, Running
<1>10. ASSUME NEW b \in Beats, NEW r \in Spends, BreakDeadlock(b, r) PROVE ReportedRunsRun'
  <2>1. UNCHANGED spending /\ (UNCHANGED report \/ report' = [report EXCEPT ![r] = NoReport])
    BY <1>10 DEF BreakDeadlock
  <2>2. \A q \in Spends : report'[q] = report[q] \/ report'[q] = NoReport
    BY <2>1 DEF CapTypes
  <2> QED
    BY <1>0, <2>1, <2>2
<1>11. ASSUME NEW c \in Caps, BeginBudget(c) PROVE ReportedRunsRun'
  BY <1>1, <1>11 DEF BeginBudget
<1>12. CASE CommitBudget
  BY <1>1, <1>12 DEF CommitBudget
<1>13. CASE (\E a \in BankAgents : Pause(a) \/ Resume(a) \/ FallDue(a)) \/ SwitchAi \/ UNCHANGED spendVars
  BY <1>1, <1>13 DEF Pause, Resume, FallDue, SwitchAi, spendVars
<1> QED
  BY <1>2, <1>3, <1>4, <1>5, <1>6, <1>7, <1>8, <1>9, <1>10, <1>11, <1>12, <1>13 DEF SpendNext

\* The spend lock: it is taken only from nobody, by the one who starts or looks,
\* and given up only with what was started and seen.
LEMMA LookersStay ==
  SlotInv /\ CapTypes /\ LookersHoldTheLock /\ [SpendNext]_spendVars => LookersHoldTheLock'
<1> SUFFICES ASSUME SlotInv, CapTypes, LookersHoldTheLock, [SpendNext]_spendVars
             PROVE  LookersHoldTheLock'
  OBVIOUS
<1> USE DEF rows
<1>0. opening \in [Openers -> OpeningRecords]
  BY DEF SlotInv, SlotTypes
<1>1. ASSUME NEW w, spendLock \in {Free, w}, w # Free,
             \A o \in Openers \ {w} : opening'[o].start \in {{}, opening[o].start},
             \A r \in Spends \ {w} : report'[r] = report[r],
             spendLock' = w
      PROVE  LookersHoldTheLock'
  BY <1>1, HoldersDiffer DEF LookersHoldTheLock
<1>2. ASSUME NEW w, \A o \in Openers \ {w} : opening'[o].start \in {{}, opening[o].start},
             \A r \in Spends \ {w} : report'[r] = report[r] \/ report'[r].at # "held",
             w \in Openers => opening'[w].start = {},
             w \in Spends => report'[w].at # "held",
             spendLock' = IF spendLock = w THEN Free ELSE spendLock
      PROVE  LookersHoldTheLock'
  BY <1>2, HoldersDiffer DEF LookersHoldTheLock
<1>3. ASSUME UNCHANGED spendLock,
             \A o \in Openers : opening'[o].start \in {{}, opening[o].start},
             \A r \in Spends : report'[r] = report[r] \/ report'[r].at # "held"
      PROVE  LookersHoldTheLock'
  BY <1>3 DEF LookersHoldTheLock
<1>4. ASSUME UNCHANGED <<opening, report, spendLock>> PROVE LookersHoldTheLock'
  BY <1>3, <1>4
<1>5. ASSUME NEW b \in Beats, BeginBeat(b) PROVE LookersHoldTheLock'
  <2>1. UNCHANGED <<report, spendLock>> /\ b \in Openers
    BY <1>5 DEF BeginBeat, Openers
  <2>2. \A o \in Openers : opening'[o].start \in {{}, opening[o].start}
    BY <1>0, <1>5, <2>1 DEF BeginBeat, NoOpening
  <2> QED
    BY <1>3, <2>1, <2>2
<1>6. ASSUME NEW p \in Askers, NEW a \in BankAgents, BeginAsk(p, a) PROVE LookersHoldTheLock'
  <2>1. UNCHANGED <<report, spendLock>> /\ p \in Openers
    BY <1>6 DEF BeginAsk, Openers
  <2>2. \A o \in Openers : opening'[o].start \in {{}, opening[o].start}
    BY <1>0, <1>6, <2>1 DEF BeginAsk, NoOpening
  <2> QED
    BY <1>3, <2>1, <2>2
<1>7. ASSUME NEW o \in Openers, NEW a \in BankAgents, OpenTenantRun(o, a) PROVE LookersHoldTheLock'
  <2> DEFINE left == [opening[o] EXCEPT !.todo = @ \ {a}]
  <2>0. opening[o] \in OpeningRecords
    BY <1>0
  <2>1. CASE ~aiOn
    <3>1. opening' = [opening EXCEPT ![o] = left] /\ UNCHANGED <<report, spendLock>>
      BY <1>7, <2>1 DEF OpenTenantRun
    <3>2. left.start = opening[o].start
      BY <2>0 DEF OpeningRecords
    <3> HIDE DEF left
    <3>3. \A d \in Openers : opening'[d].start = opening[d].start
      BY <1>0, <3>1, <3>2
    <3> QED
      BY <1>3, <3>1, <3>3
  <2>2. CASE aiOn
    <3>1. spendLock \in {Free, o} /\ spendLock' = o /\ UNCHANGED report
      BY <1>7, <2>2 DEF OpenTenantRun, LockGranted
    <3>2. \E moved : opening' = [opening EXCEPT ![o] = moved]
      BY <1>7, <2>2 DEF OpenTenantRun
    <3>3. \A d \in Openers \ {o} : opening'[d] = opening[d]
      BY <1>0, <3>2
    <3>4. \A r \in Spends \ {o} : report'[r] = report[r]
      BY <3>1
    <3> QED
      BY <1>1, <3>1, <3>3, <3>4, HoldersDiffer
  <2> QED
    BY <2>1, <2>2
<1>8. ASSUME NEW o \in Openers, CommitOpening(o) PROVE LookersHoldTheLock'
  <2>1. /\ opening' = [opening EXCEPT ![o] = NoOpening] /\ UNCHANGED report
        /\ spendLock' = IF spendLock = o THEN Free ELSE spendLock
    BY <1>8 DEF CommitOpening, Release
  <2>2. opening'[o].start = {} /\ \A d \in Openers \ {o} : opening'[d] = opening[d]
    BY <1>0, <2>1 DEF NoOpening
  <2> QED
    BY <1>2, <2>1, <2>2, HoldersDiffer
<1>9. ASSUME NEW r \in Spends, NEW c \in Costs, BeginReport(r, c) PROVE LookersHoldTheLock'
  <2>1. UNCHANGED <<opening, spendLock>> /\ \A q \in Spends \ {r} : report'[q] = report[q]
    BY <1>9 DEF BeginReport, CapTypes
  <2>2. report'[r].at # "held"
    BY <1>9 DEF BeginReport, CapTypes
  <2> QED
    BY <1>3, <2>1, <2>2
<1>10. ASSUME NEW r \in Spends, HoldToTheCap(r) PROVE LookersHoldTheLock'
  <2>0. UNCHANGED opening
    BY <1>10 DEF HoldToTheCap
  <2>1. CASE ~aiOn
    <3>1. report' = [report EXCEPT ![r].at = "off"] /\ UNCHANGED spendLock
      BY <1>10, <2>1 DEF HoldToTheCap
    <3>2. report'[r].at = "off" /\ \A q \in Spends \ {r} : report'[q] = report[q]
      BY <3>1 DEF CapTypes
    <3> QED
      BY <1>3, <2>0, <3>1, <3>2
  <2>2. CASE aiOn
    <3>1. spendLock \in {Free, r} /\ spendLock' = r
      BY <1>10, <2>2 DEF HoldToTheCap, LockGranted
    <3>2. \A q \in Spends \ {r} : report'[q] = report[q]
      BY <1>10, <2>2 DEF HoldToTheCap, CapTypes
    <3>3. \A o \in Openers \ {r} : opening'[o].start \in {{}, opening[o].start}
      BY <2>0
    <3> QED
      BY <1>1, <3>1, <3>2, <3>3, HoldersDiffer
  <2> QED
    BY <2>1, <2>2
<1>11. ASSUME NEW r \in Spends, CommitReport(r) PROVE LookersHoldTheLock'
  <2>1. /\ UNCHANGED opening /\ report' = [report EXCEPT ![r] = NoReport]
        /\ spendLock' = IF spendLock = r THEN Free ELSE spendLock
    BY <1>11 DEF CommitReport, Release
  <2>2. report'[r].at # "held" /\ \A q \in Spends \ {r} : report'[q] = report[q]
    BY <2>1 DEF CapTypes, NoReport
  <2>3. \A o \in Openers \ {r} : opening'[o].start \in {{}, opening[o].start}
    BY <2>1
  <2> QED
    BY <1>2, <2>1, <2>2, <2>3, HoldersDiffer
<1>12. ASSUME NEW r \in Spends, Interrupt(r) \/ \E c \in Costs : ClosingReport(r, c)
       PROVE  LookersHoldTheLock'
  BY <1>4, <1>12 DEF Interrupt, ClosingReport
<1>13. ASSUME NEW b \in Beats, NEW r \in Spends, BreakDeadlock(b, r) PROVE LookersHoldTheLock'
  <2>0. b \in Openers /\ spendLock = r
    BY <1>13 DEF BreakDeadlock, Openers
  <2>1. CASE opening' = [opening EXCEPT ![b] = NoOpening] /\ UNCHANGED <<report, spendLock>>
    <3>1. opening'[b].start = {} /\ \A d \in Openers \ {b} : opening'[d] = opening[d]
      BY <1>0, <2>0, <2>1 DEF NoOpening
    <3> QED
      BY <1>3, <2>1, <3>1
  <2>2. CASE /\ report' = [report EXCEPT ![r] = NoReport] /\ spendLock' = Free /\ UNCHANGED opening
    <3>1. report'[r].at # "held" /\ \A q \in Spends \ {r} : report'[q] = report[q]
      BY <2>2 DEF CapTypes, NoReport
    <3>2. \A o \in Openers \ {r} : opening'[o].start \in {{}, opening[o].start}
      BY <2>2
    <3>3. spendLock' = IF spendLock = r THEN Free ELSE spendLock
      BY <2>0, <2>2
    <3> QED
      BY <1>2, <3>1, <3>2, <3>3, HoldersDiffer
  <2> QED
    BY <1>13, <2>1, <2>2 DEF BreakDeadlock
<1>14. ASSUME NEW c \in Caps, BeginBudget(c) PROVE LookersHoldTheLock'
  BY <1>4, <1>14 DEF BeginBudget
<1>15. CASE CommitBudget
  BY <1>4, <1>15 DEF CommitBudget
<1>16. CASE (\E a \in BankAgents : Pause(a) \/ Resume(a) \/ FallDue(a)) \/ SwitchAi \/ UNCHANGED spendVars
  BY <1>4, <1>16 DEF Pause, Resume, FallDue, SwitchAi, spendVars
<1> QED
  BY <1>5, <1>6, <1>7, <1>8, <1>9, <1>10, <1>11, <1>12, <1>13, <1>14, <1>15, <1>16 DEF SpendNext

\* What is kept for the runs is a number.
LEMMA KeptIsANumber ==
  ASSUME CapTypes
  PROVE  KeptOf \in [Spends -> Nat] /\ Kept \in Nat
<1>1. KeptOf \in [Spends -> Nat]
  BY SpendAssumption DEF KeptOf, KeptPromise, CapTypes
<1> QED
  BY <1>1, SpendsAreFinite, SumIsANumber DEF Kept

\* The runs there are may cost what is kept for them; more only if they pass their limit.
LEMMA KeptIsWithinHeld ==
  ASSUME CapTypes
  PROVE  /\ Held \in Nat /\ Kept <= Held
         /\ (\A r \in Spends : spending[r].cost <= Limit) => Held <= Kept
<1>1. \A r \in Spends : spending[r].cost \in Nat
  BY DEF CapTypes
<1>2. PromiseOf \in [Spends -> Nat] /\ Held = SumOf(PromiseOf, Spends)
  BY <1>1, HeldIsASum
<1>3. KeptOf \in [Spends -> Nat]
  BY KeptIsANumber
<1>5. Held \in Nat
  BY <1>2, SpendsAreFinite, SumIsANumber
<1>6. \A r \in Spends : KeptOf[r] <= PromiseOf[r]
  BY <1>1, SpendAssumption DEF KeptOf, PromiseOf, KeptPromise, Promise, Larger
<1>7. Kept <= Held
  BY <1>2, <1>3, <1>6, SpendsAreFinite, SumIsMonotone DEF Kept
<1>8. ASSUME \A r \in Spends : spending[r].cost <= Limit PROVE Held <= Kept
  <2>1. \A r \in Spends : PromiseOf[r] <= KeptOf[r]
    BY <1>1, <1>8, SpendAssumption DEF KeptOf, PromiseOf, KeptPromise, Promise, Larger
  <2> QED
    BY <1>2, <1>3, <2>1, SpendsAreFinite, SumIsMonotone DEF Kept
<1> QED
  BY <1>5, <1>7, <1>8

\* No promise grows, nor does their sum.
LEMMA KeptDoesNotGrow ==
  ASSUME CapTypes, CapTypes', \A r \in Spends : KeptPromise(r)' <= KeptPromise(r)
  PROVE  Kept' <= Kept
<1>1. KeptOf \in [Spends -> Nat] /\ KeptOf' \in [Spends -> Nat]
  <2>1. KeptOf \in [Spends -> Nat]
    BY KeptIsANumber
  <2>2. KeptOf' \in [Spends -> Nat]
    BY SpendAssumption DEF KeptOf, KeptPromise, CapTypes
  <2> QED
    BY <2>1, <2>2
<1>2. \A r \in Spends : KeptOf'[r] <= KeptOf[r]
  BY DEF KeptOf
<1>3. SumOf(KeptOf', Spends) <= SumOf(KeptOf, Spends)
  BY <1>1, <1>2, SpendsAreFinite, SumIsMonotone
<1> QED
  BY <1>3 DEF Kept

\* A commit of runs adds a limit for each agent the transaction started.
LEMMA KeptAfterOpening ==
  ASSUME CapTypes, CapTypes', SlotInv, NEW o \in Openers, CommitOpening(o)
  PROVE  Kept' <= Kept + Limit * Cardinality(opening[o].start)
<1> DEFINE start == opening[o].start
           begun == {r \in Spends : r[1] \in start /\ r[2] = NextNumber(r[1])}
           agentOf == [r \in begun |-> r[1]]
<1>1. start \subseteq BankAgents /\ IsFiniteSet(start)
  BY SpendAssumption, FS_Subset DEF SlotInv, SlotTypes, OpeningRecords
<1>2. KeptOf \in [Spends -> Nat] /\ KeptOf' \in [Spends -> Nat]
  <2>1. KeptOf \in [Spends -> Nat]
    BY KeptIsANumber
  <2>2. KeptOf' \in [Spends -> Nat]
    BY SpendAssumption DEF KeptOf, KeptPromise, CapTypes
  <2> QED
    BY <2>1, <2>2
<1>3. \A r \in Spends : spending'[r] = IF r \in begun THEN [Unopened EXCEPT !.status = "running"]
                                       ELSE spending[r]
  BY DEF CommitOpening
<1>4. \A r \in Spends : KeptOf'[r] <= KeptOf[r] + (IF r \in begun THEN Limit ELSE 0)
  <2> SUFFICES ASSUME NEW r \in Spends
               PROVE  KeptOf'[r] <= KeptOf[r] + (IF r \in begun THEN Limit ELSE 0)
    OBVIOUS
  <2>1. KeptOf[r] \in Nat /\ KeptOf'[r] \in Nat /\ Limit \in Nat
    BY <1>2, SpendAssumption
  <2>2. CASE r \in begun
    <3>1. spending'[r].status = "running"
      BY <1>3, <2>2 DEF Unopened
    <3>2. KeptOf'[r] = Limit
      BY <3>1 DEF KeptOf, KeptPromise, Running
    <3> HIDE DEF begun
    <3> QED
      BY <2>1, <2>2, <3>2
  <2>3. CASE r \notin begun
    <3>1. KeptOf'[r] = KeptOf[r]
      BY <1>3, <2>3 DEF KeptOf, KeptPromise, Running
    <3> HIDE DEF begun
    <3> QED
      BY <2>1, <2>3, <3>1
  <2> QED
    BY <2>2, <2>3
<1>5. IsFiniteSet(begun) /\ begun \in SUBSET Spends
  BY SpendsAreFinite, FS_Subset
<1>6. Kept' <= Kept + Limit * Cardinality(begun)
  <2> HIDE DEF begun
  <2>1. SumOf(KeptOf', Spends) <= SumOf(KeptOf, Spends) + Limit * Cardinality(begun)
    BY <1>2, <1>4, <1>5, SpendsAreFinite, SpendAssumption, SumGrows
  <2> QED
    BY <2>1 DEF Kept
<1>7. agentOf \in Injection(begun, start)
  <2>1. agentOf \in [begun -> start]
    OBVIOUS
  <2>2. ASSUME NEW r \in begun, NEW q \in begun, agentOf[r] = agentOf[q] PROVE r = q
    <3>1. r[1] = q[1] /\ r[2] = q[2]
      BY <2>2
    <3>2. r = <<r[1], r[2]>> /\ q = <<q[1], q[2]>>
      BY DEF Spends
    <3> QED
      BY <3>1, <3>2
  <2> HIDE DEF agentOf, begun
  <2> QED
    BY <2>1, <2>2 DEF Injection, IsInjective
<1>8. Cardinality(begun) <= Cardinality(start) /\ Cardinality(begun) \in Nat /\ Cardinality(start) \in Nat
  <2> HIDE DEF agentOf, begun, start
  <2> QED
    BY <1>1, <1>5, <1>7, FS_Injection, FS_CardinalityType
<1>9. Limit * Cardinality(begun) <= Limit * Cardinality(start)
  <2> DEFINE n == Cardinality(begun)
             m == Cardinality(start)
  <2>1. n \in Nat /\ m \in Nat /\ n <= m
    BY <1>8
  <2> HIDE DEF n, m
  <2>2. Limit * n <= Limit * m
    <3>1. m - n \in Nat /\ Limit \in Nat
      BY <2>1, SpendAssumption
    <3>2. Limit * m = Limit * n + Limit * (m - n)
      BY <2>1, <3>1
    <3>3. Limit * n \in Nat /\ Limit * (m - n) \in Nat
      BY <2>1, <3>1
    <3> QED
      BY <3>2, <3>3
  <2> QED
    BY <2>2 DEF n, m
<1>10. Kept \in Nat /\ Kept' \in Nat /\ Limit * Cardinality(begun) \in Nat /\ Limit * Cardinality(start) \in Nat
  <2>1. Kept \in Nat
    BY KeptIsANumber
  <2>2. Kept' \in Nat
    BY <1>2, SpendsAreFinite, SumIsANumber DEF Kept
  <2> HIDE DEF begun, start
  <2> QED
    BY <1>8, <2>1, <2>2, SpendAssumption
<1> HIDE DEF begun
<1> QED
  BY <1>6, <1>9, <1>10

\* A run is started only if it fits beside what the holder has started already;
\* nobody else commits a run meanwhile, and a report or a close promises no more.
LEMMA StartsStay ==
  SlotInv /\ CapInv /\ CapTypes' /\ [SpendNext]_spendVars => StartsFit'
<1> SUFFICES ASSUME SlotInv, CapInv, CapTypes', [SpendNext]_spendVars PROVE StartsFit'
  OBVIOUS
<1> USE DEF rows
<1>0. /\ CapTypes /\ ReportedRunsRun /\ LookersHoldTheLock /\ StartsFit
      /\ opening \in [Openers -> OpeningRecords]
  BY DEF CapInv, SlotInv, SlotTypes
<1>1. Kept \in Nat /\ Kept' \in Nat /\ peak \in Nat /\ peak' \in Nat /\ cap \in Nat /\ Limit \in Nat
  <2>1. KeptOf' \in [Spends -> Nat]
    BY SpendAssumption DEF KeptOf, KeptPromise, CapTypes
  <2>2. Kept' \in Nat
    BY <2>1, SpendsAreFinite, SumIsANumber DEF Kept
  <2> QED
    BY <1>0, <2>2, KeptIsANumber, SpendAssumption DEF CapTypes
<1>2. \A o \in Openers : IsFiniteSet(opening[o].start) /\ Cardinality(opening[o].start) \in Nat
  <2>1. \A o \in Openers : opening[o].start \subseteq BankAgents
    BY <1>0 DEF OpeningRecords
  <2> QED
    BY <2>1, SpendAssumption, FS_Subset, FS_CardinalityType
<1>3. ASSUME Kept' <= Kept, peak <= peak',
             \A o \in Openers : opening'[o].start \in {{}, opening[o].start}
      PROVE  StartsFit'
  <2>1. Kept' <= peak'
    BY <1>0, <1>1, <1>3 DEF StartsFit
  <2>2. ASSUME NEW o \in Openers, opening'[o].start # {}
        PROVE  Kept' + Limit * Cardinality(opening'[o].start) <= peak'
    <3> DEFINE more == Limit * Cardinality(opening[o].start)
    <3>1. opening'[o].start = opening[o].start
      BY <1>3, <2>2
    <3>2. more \in Nat
      BY <1>1, <1>2
    <3>3. Kept + more <= peak
      BY <1>0, <2>2, <3>1 DEF StartsFit
    <3> HIDE DEF more
    <3>4. Kept' + more <= peak'
      <4>1. Kept' <= Kept /\ peak <= peak'
        BY <1>3
      <4>2. \A k, l, m, p, q \in Nat : k <= l /\ l + m <= p /\ p <= q => k + m <= q
        OBVIOUS
      <4> QED
        BY <1>1, <3>2, <3>3, <4>1, <4>2
    <3> QED
      BY <3>1, <3>4 DEF more
  <2> QED
    BY <2>1, <2>2 DEF StartsFit
<1>4. ASSUME UNCHANGED <<spending, peak>>,
             \A o \in Openers : opening'[o].start \in {{}, opening[o].start}
      PROVE  StartsFit'
  <2>1. Kept' = Kept
    BY <1>4 DEF Kept, KeptOf, KeptPromise, Running
  <2> QED
    BY <1>1, <1>3, <1>4, <2>1
<1>5. ASSUME UNCHANGED <<spending, peak, opening>> PROVE StartsFit'
  BY <1>4, <1>5
<1>6. ASSUME UNCHANGED <<peak, opening>>, NEW r \in Spends, Running(r),
             \A q \in Spends : q # r => spending'[q] = spending[q]
      PROVE  StartsFit'
  <2>1. KeptPromise(r) = Limit
    BY <1>6 DEF KeptPromise
  <2>2. KeptPromise(r)' <= Limit
    BY <1>1 DEF KeptPromise, CapTypes
  <2>3. \A q \in Spends : q # r => KeptPromise(q)' = KeptPromise(q)
    BY <1>6 DEF KeptPromise, Running
  <2>4. \A q \in Spends : KeptPromise(q) \in Nat
    BY <1>0, <1>1 DEF KeptPromise, CapTypes
  <2>5. \A q \in Spends : KeptPromise(q)' <= KeptPromise(q)
    BY <2>1, <2>2, <2>3, <2>4
  <2>6. Kept' <= Kept
    BY <1>0, <2>5, KeptDoesNotGrow
  <2> QED
    BY <1>1, <1>3, <1>6, <2>6
<1>7. ASSUME NEW b \in Beats, BeginBeat(b) PROVE StartsFit'
  <2>1. UNCHANGED <<spending, peak>> /\ b \in Openers
    BY <1>7 DEF BeginBeat, Openers
  <2>2. \A o \in Openers : opening'[o].start \in {{}, opening[o].start}
    BY <1>0, <1>7, <2>1 DEF BeginBeat, NoOpening
  <2> QED
    BY <1>4, <2>1, <2>2
<1>8. ASSUME NEW p \in Askers, NEW a \in BankAgents, BeginAsk(p, a) PROVE StartsFit'
  <2>1. UNCHANGED <<spending, peak>> /\ p \in Openers
    BY <1>8 DEF BeginAsk, Openers
  <2>2. \A o \in Openers : opening'[o].start \in {{}, opening[o].start}
    BY <1>0, <1>8, <2>1 DEF BeginAsk, NoOpening
  <2> QED
    BY <1>4, <2>1, <2>2
<1>9. ASSUME NEW o \in Openers, NEW a \in BankAgents, OpenTenantRun(o, a) PROVE StartsFit'
  <2> DEFINE was == opening[o]
             left == [was EXCEPT !.todo = @ \ {a}]
             begun == [left EXCEPT !.start = @ \cup {a}]
             refused == [left EXCEPT !.stop = @ \cup (IF o \in Beats THEN {a} ELSE {})]
  <2>1. UNCHANGED <<spending, peak>>
    BY <1>9 DEF OpenTenantRun
  <2>2. \/ opening' = [opening EXCEPT ![o] = left]
        \/ opening' = [opening EXCEPT ![o] = refused]
        \/ opening' = [opening EXCEPT ![o] = begun] /\ Fits(o)
    BY <1>9 DEF OpenTenantRun
  <2>3. was \in OpeningRecords
    BY <1>0
  <2> HIDE DEF was
  <2>4. left \in OpeningRecords /\ left.start = was.start
    BY <2>3 DEF OpeningRecords
  <2> HIDE DEF left
  <2>5. begun.start = was.start \cup {a} /\ refused.start = was.start
    BY <2>4 DEF OpeningRecords
  <2> HIDE DEF begun, refused
  <2>6. was = opening[o]
    BY DEF was
  <2>7. CASE \/ opening' = [opening EXCEPT ![o] = left]
             \/ opening' = [opening EXCEPT ![o] = refused]
    <3>1. \A d \in Openers : opening'[d].start = opening[d].start
      BY <1>0, <2>4, <2>5, <2>6, <2>7
    <3> QED
      BY <1>4, <2>1, <3>1
  <2>8. CASE opening' = [opening EXCEPT ![o] = begun] /\ Fits(o)
    <3>1. /\ opening'[o].start = opening[o].start \cup {a}
          /\ \A d \in Openers : d # o => opening'[d] = opening[d]
      BY <1>0, <2>5, <2>6, <2>8
    <3> DEFINE k == Cardinality(opening[o].start)
               n == Cardinality(opening'[o].start)
    <3>2. k \in Nat /\ n \in Nat /\ n <= k + 1
      <4>1. IsFiniteSet(opening[o].start) /\ k \in Nat
        BY <1>2
      <4>2. n = IF a \in opening[o].start THEN k ELSE k + 1
        BY <3>1, <4>1, FS_AddElement
      <4> HIDE DEF k, n
      <4> QED
        BY <4>1, <4>2
    <3>3. Held + Limit * (k + 1) <= cap /\ Held \in Nat /\ Kept <= Held /\ cap <= peak
      BY <1>0, <2>8, KeptIsWithinHeld DEF Fits, CapTypes
    <3> HIDE DEF k, n
    <3>4. Limit * n <= Limit * (k + 1) /\ Limit * n \in Nat /\ Limit * (k + 1) \in Nat
      <4>1. (k + 1) - n \in Nat
        BY <3>2
      <4>2. Limit * (k + 1) = Limit * n + Limit * ((k + 1) - n)
        BY <1>1, <3>2
      <4>3. Limit * n \in Nat /\ Limit * ((k + 1) - n) \in Nat
        BY <1>1, <3>2, <4>1
      <4> QED
        BY <4>2, <4>3
    <3>5. Kept + Limit * n <= peak
      BY <1>1, <3>3, <3>4
    <3>6. Kept' = Kept /\ peak' = peak
      BY <2>1 DEF Kept, KeptOf, KeptPromise, Running
    <3>8. \A d \in Openers : d # o /\ opening'[d].start # {} =>
            Kept + Limit * Cardinality(opening'[d].start) <= peak
      BY <1>0, <3>1 DEF StartsFit
    <3>9. Kept' + Limit * Cardinality(opening'[o].start) <= peak'
      BY <3>5, <3>6 DEF n
    <3>10. Kept' <= peak'
      BY <1>0, <3>6 DEF StartsFit
    <3> QED
      BY <3>6, <3>8, <3>9, <3>10 DEF StartsFit
  <2> QED
    BY <2>2, <2>7, <2>8
<1>10. ASSUME NEW o \in Openers, CommitOpening(o) PROVE StartsFit'
  <2>1. opening' = [opening EXCEPT ![o] = NoOpening] /\ UNCHANGED peak
    BY <1>10 DEF CommitOpening
  <2>2. opening'[o].start = {} /\ \A d \in Openers : d # o => opening'[d] = opening[d]
    BY <1>0, <2>1 DEF NoOpening
  <2>3. CASE opening[o].start = {}
    <3>1. UNCHANGED spending
      BY <1>0, <1>10, <2>3 DEF CommitOpening, CapTypes
    <3> QED
      BY <1>4, <2>1, <2>2, <3>1
  <2>4. CASE opening[o].start # {}
    <3>1. \A d \in Openers : opening'[d].start = {}
      BY <1>0, <2>2, <2>4 DEF LookersHoldTheLock
    <3>2. Kept' <= Kept + Limit * Cardinality(opening[o].start)
      BY <1>0, <1>10, KeptAfterOpening
    <3>3. Kept + Limit * Cardinality(opening[o].start) <= peak
      BY <1>0, <2>4 DEF StartsFit
    <3>4. Limit * Cardinality(opening[o].start) \in Nat
      BY <1>1, <1>2
    <3>5. Kept' <= peak'
      BY <1>1, <2>1, <3>2, <3>3, <3>4
    <3> QED
      BY <3>1, <3>5 DEF StartsFit
  <2> QED
    BY <2>3, <2>4
<1>11. ASSUME NEW r \in Spends, NEW c \in Costs, BeginReport(r, c) PROVE StartsFit'
  BY <1>5, <1>11 DEF BeginReport
<1>12. ASSUME NEW r \in Spends, HoldToTheCap(r) PROVE StartsFit'
  BY <1>5, <1>12 DEF HoldToTheCap
<1>13. ASSUME NEW r \in Spends, CommitReport(r) PROVE StartsFit'
  <2>1. UNCHANGED <<peak, opening>> /\ \A q \in Spends : q # r => spending'[q] = spending[q]
    BY <1>0, <1>13 DEF CommitReport, CapTypes
  <2>2. Running(r)
    BY <1>0, <1>13 DEF CommitReport, ReportedRunsRun, NoReport
  <2> QED
    BY <1>6, <2>1, <2>2
<1>14. ASSUME NEW r \in Spends, Interrupt(r) \/ \E c \in Costs : ClosingReport(r, c)
       PROVE  StartsFit'
  <2>1. UNCHANGED <<peak, opening>> /\ Running(r)
    BY <1>14 DEF Interrupt, ClosingReport, Reported
  <2>2. \A q \in Spends : q # r => spending'[q] = spending[q]
    BY <1>0, <1>14 DEF Interrupt, ClosingReport, CapTypes
  <2> QED
    BY <1>6, <2>1, <2>2
<1>15. ASSUME NEW b \in Beats, NEW r \in Spends, BreakDeadlock(b, r) PROVE StartsFit'
  <2>1. UNCHANGED <<spending, peak>> /\ b \in Openers
        /\ (UNCHANGED opening \/ opening' = [opening EXCEPT ![b] = NoOpening])
    BY <1>15 DEF BreakDeadlock, Openers
  <2>2. \A o \in Openers : opening'[o].start \in {{}, opening[o].start}
    BY <1>0, <2>1 DEF NoOpening
  <2> QED
    BY <1>4, <2>1, <2>2
<1>16. ASSUME NEW c \in Caps, BeginBudget(c) PROVE StartsFit'
  BY <1>5, <1>16 DEF BeginBudget
<1>17. CASE CommitBudget
  <2>1. UNCHANGED <<spending, opening>> /\ budgeting.cap \in Nat /\ peak' = Larger(peak, budgeting.cap)
    BY <1>0, <1>17 DEF CommitBudget, CapTypes
  <2>2. peak <= peak'
    BY <1>1, <2>1 DEF Larger
  <2>3. Kept' = Kept
    BY <2>1 DEF Kept, KeptOf, KeptPromise, Running
  <2> QED
    BY <1>1, <1>3, <2>1, <2>2, <2>3
<1>18. CASE (\E a \in BankAgents : Pause(a) \/ Resume(a) \/ FallDue(a)) \/ SwitchAi \/ UNCHANGED spendVars
  BY <1>5, <1>18 DEF Pause, Resume, FallDue, SwitchAi, spendVars
<1> QED
  BY <1>7, <1>8, <1>9, <1>10, <1>11, <1>12, <1>13, <1>14, <1>15, <1>16, <1>17, <1>18 DEF SpendNext

\* What has been spent, as one event would have it: its own cost in place of the saved one.
LEMMA SpentWithOne ==
  ASSUME CapTypes, CapTypes', NEW r \in Spends,
         \A q \in Spends : q # r => spending'[q].cost = spending[q].cost
  PROVE  Spent' = Spent - spending[r].cost + spending'[r].cost
<1>1. CostOf \in [Spends -> Nat] /\ Spent = SumOf(CostOf, Spends)
  BY SpentIsASum DEF CapTypes
<1>2. CostOf' \in [Spends -> Nat]
  BY DEF CostOf, CapTypes
<1>3. Spent' = SumOf(CostOf', Spends)
  <2>1. \A q \in Spends : spending'[q].cost \in Nat
    BY DEF CapTypes
  <2> QED
    BY <2>1, SpentAfter
<1>4. \A q \in Spends \ {r} : CostOf'[q] = CostOf[q]
  BY DEF CostOf
<1>5. SumOf(CostOf', Spends) = SumOf(CostOf, Spends) - CostOf[r] + CostOf'[r]
  BY <1>1, <1>2, <1>4, SpendsAreFinite, SumAfterOneChange
<1> QED
  BY <1>1, <1>3, <1>5 DEF CostOf

\* Costs that stay leave what was spent as it is.
LEMMA SpentStays ==
  ASSUME CapTypes, \A q \in Spends : spending'[q].cost = spending[q].cost
  PROVE  Spent' = Spent
<1>1. \A q \in Spends : spending[q].cost \in Nat /\ spending'[q].cost \in Nat
  BY DEF CapTypes
<1>2. Spent = SumOf(CostOf, Spends)
  BY <1>1, CostsAreAdded DEF Spent, CostOf
<1>3. Spent' = SumOf(CostOf', Spends)
  BY <1>1, SpentAfter
<1>4. CostOf' = CostOf
  BY DEF CostOf
<1> QED
  BY <1>2, <1>3, <1>4

\* An event's look stays true: whoever adds a cost or moves the cap between the look
\* and the commit is noted.
LEMMA LooksStay ==
  SlotInv /\ CapInv /\ CapTypes' /\ LookersHoldTheLock' /\ [SpendNext]_spendVars => LooksAreTrue'
<1> SUFFICES ASSUME SlotInv, CapInv, CapTypes', LookersHoldTheLock', [SpendNext]_spendVars
             PROVE  LooksAreTrue'
  OBVIOUS
<1> USE DEF rows
<1>0. /\ CapTypes /\ ReportedRunsRun /\ LookersHoldTheLock /\ LooksAreTrue
      /\ opening \in [Openers -> OpeningRecords]
  BY DEF CapInv, SlotInv, SlotTypes
<1>1. ASSUME UNCHANGED cap, disturbed \subseteq disturbed',
             \A q \in Spends : spending'[q].cost = spending[q].cost,
             \A q \in Spends : report'[q] = report[q] \/ report'[q].at # "held"
      PROVE  LooksAreTrue'
  <2>1. Spent' = Spent
    BY <1>0, <1>1, SpentStays
  <2>2. \A q \in Spends : report'[q] = report[q] => SpentWith(q)' = SpentWith(q)
    BY <1>1, <2>1 DEF SpentWith
  <2> QED
    BY <1>0, <1>1, <2>2 DEF LooksAreTrue
<1>2. ASSUME UNCHANGED <<cap, spending, report, disturbed>> PROVE LooksAreTrue'
  BY <1>1, <1>2
<1>3. ASSUME Reading \subseteq disturbed',
             \A q \in Spends : report'[q] = report[q] \/ report'[q].at # "held"
      PROVE  LooksAreTrue'
  BY <1>3 DEF LooksAreTrue, Reading
<1>4. ASSUME NEW b \in Beats, BeginBeat(b) PROVE LooksAreTrue'
  BY <1>2, <1>4 DEF BeginBeat
<1>5. ASSUME NEW p \in Askers, NEW a \in BankAgents, BeginAsk(p, a) PROVE LooksAreTrue'
  BY <1>2, <1>5 DEF BeginAsk
<1>6. ASSUME NEW o \in Openers, NEW a \in BankAgents, OpenTenantRun(o, a) PROVE LooksAreTrue'
  BY <1>2, <1>6 DEF OpenTenantRun
<1>7. ASSUME NEW o \in Openers, CommitOpening(o) PROVE LooksAreTrue'
  <2>1. UNCHANGED <<cap, report, disturbed>>
    BY <1>7 DEF CommitOpening
  <2>2. CASE opening[o].start = {}
    <3>1. \A q \in Spends : spending'[q] = spending[q]
      BY <1>7, <2>2 DEF CommitOpening
    <3> QED
      BY <1>1, <2>1, <3>1
  <2>3. CASE opening[o].start # {}
    <3>1. Reading = {}
      BY <1>0, <2>3, HoldersDiffer DEF LookersHoldTheLock, Reading
    <3> QED
      BY <1>3, <2>1, <3>1
  <2> QED
    BY <2>2, <2>3
<1>8. ASSUME NEW r \in Spends, NEW c \in Costs, BeginReport(r, c) PROVE LooksAreTrue'
  <2>1. /\ UNCHANGED <<cap, spending, disturbed>>
        /\ \A q \in Spends : report'[q] = report[q] \/ report'[q].at # "held"
    BY <1>0, <1>8 DEF BeginReport, CapTypes
  <2> QED
    BY <1>1, <2>1
<1>9. ASSUME NEW r \in Spends, HoldToTheCap(r) PROVE LooksAreTrue'
  <2>0. /\ UNCHANGED <<cap, spending>> /\ disturbed' = disturbed \ {r}
    BY <1>9 DEF HoldToTheCap
  <2>1. Spent' = Spent
    BY <1>0, <2>0, SpentStays
  <2>2. \A q \in Spends : q # r => report'[q] = report[q]
    BY <1>0, <1>9 DEF HoldToTheCap, CapTypes
  <2>3. report'[r].at = "held" =>
          report'[r].cost = report[r].cost /\ report'[r].over = (SpentWith(r) > cap)
    <3> DEFINE over == SpentWith(r) > cap
    <3> HIDE DEF over
    <3>1. \/ report' = [report EXCEPT ![r].at = "off"]
          \/ report' = [report EXCEPT ![r].at = "held", ![r].over = over]
      BY <1>9 DEF HoldToTheCap, over
    <3>2. CASE report' = [report EXCEPT ![r].at = "off"]
      BY <1>0, <3>2 DEF CapTypes
    <3>3. CASE report' = [report EXCEPT ![r].at = "held", ![r].over = over]
      <4>1. report'[r].cost = report[r].cost /\ report'[r].over = over
        BY <1>0, <3>3 DEF CapTypes
      <4> QED
        BY <4>1 DEF over
    <3> QED
      BY <3>1, <3>2, <3>3
  <2>4. \A q \in Spends : q # r => SpentWith(q)' = SpentWith(q)
    BY <2>0, <2>1, <2>2 DEF SpentWith
  <2>5. report'[r].at = "held" => SpentWith(r)' = SpentWith(r)
    BY <2>0, <2>1, <2>3 DEF SpentWith
  <2>6. SpentWith(r) \in Int /\ cap \in Int
    <3>1. Spent \in Nat
      BY <1>0, SpentIsASum DEF CapTypes
    <3> QED
      BY <1>0, <3>1 DEF SpentWith, CapTypes
  <2>7. report'[r].at = "held" /\ ~report'[r].over => SpentWith(r)' <= cap'
    <3> SUFFICES ASSUME report'[r].at = "held", ~report'[r].over PROVE SpentWith(r)' <= cap'
      OBVIOUS
    <3>1. ~(SpentWith(r) > cap)
      BY <2>3
    <3>2. SpentWith(r)' = SpentWith(r) /\ cap' = cap
      BY <2>0, <2>5
    <3> HIDE DEF rows
    <3> QED
      BY <2>6, <3>1, <3>2
  <2>8. ASSUME NEW q \in Spends \ disturbed', q # r, report'[q].at = "held", ~report'[q].over
        PROVE  SpentWith(q)' <= cap'
    BY <1>0, <2>0, <2>2, <2>4, <2>8 DEF LooksAreTrue
  <2> QED
    BY <2>7, <2>8 DEF LooksAreTrue
<1>10. ASSUME NEW r \in Spends, CommitReport(r) PROVE LooksAreTrue'
  <2>1. /\ report' = [report EXCEPT ![r] = NoReport]
        /\ report[r].at = "off" => disturbed' = disturbed \cup Reading
        /\ report[r].at \in {"off", "held"}
    BY <1>10 DEF CommitReport
  <2>2. \A q \in Spends : report'[q] = report[q] \/ report'[q].at # "held"
    BY <1>0, <2>1 DEF CapTypes, NoReport
  <2>3. CASE report[r].at = "off"
    BY <1>3, <2>1, <2>2, <2>3
  <2>4. CASE report[r].at = "held"
    <3>1. \A q \in Spends : report[q].at = "held" => q = r
      BY <1>0, <2>4 DEF LookersHoldTheLock
    <3>2. \A q \in Spends : report'[q].at # "held"
      BY <1>0, <2>1, <3>1 DEF CapTypes, NoReport
    <3> QED
      BY <3>2 DEF LooksAreTrue
  <2> QED
    BY <2>1, <2>3, <2>4
<1>11. ASSUME NEW r \in Spends, NEW c \in Costs, ClosingReport(r, c) PROVE LooksAreTrue'
  BY <1>3, <1>11 DEF ClosingReport
<1>12. ASSUME NEW r \in Spends, Interrupt(r) PROVE LooksAreTrue'
  <2>1. \A q \in Spends : spending'[q].cost = spending[q].cost
    BY <1>0, <1>12 DEF Interrupt, CapTypes
  <2>2. UNCHANGED <<cap, report, disturbed>>
    BY <1>12 DEF Interrupt
  <2> QED
    BY <1>1, <2>1, <2>2
<1>13. ASSUME NEW b \in Beats, NEW r \in Spends, BreakDeadlock(b, r) PROVE LooksAreTrue'
  <2>1. /\ UNCHANGED <<cap, spending, disturbed>>
        /\ UNCHANGED report \/ report' = [report EXCEPT ![r] = NoReport]
    BY <1>13 DEF BreakDeadlock
  <2>2. \A q \in Spends : report'[q] = report[q] \/ report'[q].at # "held"
    BY <1>0, <2>1 DEF CapTypes, NoReport
  <2> QED
    BY <1>1, <2>1, <2>2
<1>14. ASSUME NEW c \in Caps, BeginBudget(c) PROVE LooksAreTrue'
  BY <1>2, <1>14 DEF BeginBudget
<1>15. CASE CommitBudget
  <2>1. Reading \subseteq disturbed' /\ UNCHANGED report
    BY <1>15 DEF CommitBudget
  <2> QED
    BY <1>3, <2>1
<1>16. CASE (\E a \in BankAgents : Pause(a) \/ Resume(a) \/ FallDue(a)) \/ SwitchAi \/ UNCHANGED spendVars
  BY <1>2, <1>16 DEF Pause, Resume, FallDue, SwitchAi, spendVars
<1> QED
  BY <1>4, <1>5, <1>6, <1>7, <1>8, <1>9, <1>10, <1>11, <1>12, <1>13, <1>14, <1>15, <1>16 DEF SpendNext

\* The invariant of the cap: through overlapping beats, people who ask, reports that
\* race each other and a cap that moves, whatever a run costs in the end.
THEOREM CapInvariant == SpendSpec => []CapInv
<1>1. SpendInit => CapInv
  BY CapStartsTrue
<1>2. SlotInv /\ CapInv /\ [SpendNext]_spendVars => CapInv'
  <2> SUFFICES ASSUME SlotInv, CapInv, [SpendNext]_spendVars PROVE CapInv'
    OBVIOUS
  <2>1. CapTypes' /\ ReportedRunsRun' /\ LookersHoldTheLock'
    BY CapTypesStay, ReportedRunsStay, LookersStay DEF CapInv
  <2> QED
    BY <2>1, StartsStay, LooksStay DEF CapInv
<1> QED
  BY <1>1, <1>2, SlotInvariant, PTL DEF SpendSpec

\* fits_the_cap: "a beat, a run now and a research request cannot both take the
\* last of it".  While runs keep their limit, open promises and closed costs
\* together never pass a cap the bank has set.
THEOREM CapHoldsThePromises == SpendSpec => []PromisesFitTheCap
<1>1. CapInv => PromisesFitTheCap
  <2> SUFFICES ASSUME CapInv, \A r \in Spends : spending[r].cost <= Limit PROVE Held <= peak
    BY DEF PromisesFitTheCap
  <2>1. Held \in Nat /\ Held <= Kept /\ Kept \in Nat /\ peak \in Nat /\ Kept <= peak
    BY KeptIsWithinHeld, KeptIsANumber DEF CapInv, CapTypes, StartsFit
  <2> QED
    BY <2>1
<1> QED
  BY <1>1, CapInvariant, PTL

\* _hold_to_the_cap: of two reports that pass the cap together, the later sees the
\* other's cost.  A run that goes on leaves the bank within its cap.
THEOREM OverspendingRunsEnd == SpendSpec => OverspendIsCaught
<1> DEFINE Caught == \A r \in Spends \ disturbed :
              Reading \ Reading' = {r} /\ Running(r)' /\ spending'[r] # spending[r] => Spent' <= cap
<1>1. SlotInv /\ CapInv /\ CapTypes' /\ [SpendNext]_spendVars => [Caught]_spendVars
  <2> SUFFICES ASSUME SlotInv, CapInv, CapTypes', SpendNext,
                      NEW r \in Spends \ disturbed,
                      Reading \ Reading' = {r}, Running(r)', spending'[r] # spending[r]
               PROVE  Spent' <= cap
    BY DEF Running
  <2> USE DEF rows
  <2>0. /\ CapTypes /\ LookersHoldTheLock /\ LooksAreTrue
        /\ report[r].at = "held" /\ report'[r].at # "held"
    BY DEF CapInv, Reading
  <2>1. CommitReport(r)
    <3>1. ASSUME NEW q \in Spends, q # r,
                 HoldToTheCap(q) \/ CommitReport(q) \/ Interrupt(q)
                   \/ \E c \in Costs : BeginReport(q, c) \/ ClosingReport(q, c)
          PROVE  FALSE
      <4>1. report'[r] = report[r]
        BY <2>0, <3>1 DEF HoldToTheCap, CommitReport, Interrupt, BeginReport, ClosingReport, CapTypes
      <4> QED
        BY <2>0, <4>1
    <3>2. ASSUME HoldToTheCap(r) \/ Interrupt(r)
                   \/ \E c \in Costs : BeginReport(r, c) \/ ClosingReport(r, c)
          PROVE  FALSE
      BY <2>0, <3>2 DEF HoldToTheCap, Interrupt, BeginReport, ClosingReport, Reported, RunRowFree, NoReport
    <3>3. UNCHANGED report => FALSE
      BY <2>0
    <3>4. UNCHANGED spending => FALSE
      OBVIOUS
    <3>5. ~ \E b \in Beats : BeginBeat(b) \/ \E q \in Spends : BreakDeadlock(b, q)
      BY <3>3, <3>4 DEF BeginBeat, BreakDeadlock
    <3>6. ~ \E p \in Askers, a \in BankAgents : BeginAsk(p, a)
      BY <3>3 DEF BeginAsk
    <3>7. ~ \E o \in Openers : CommitOpening(o) \/ \E a \in BankAgents : OpenTenantRun(o, a)
      BY <3>3 DEF CommitOpening, OpenTenantRun
    <3>8. ~ (\E c \in Caps : BeginBudget(c)) /\ ~CommitBudget /\ ~SwitchAi
          /\ ~ \E a \in BankAgents : Pause(a) \/ Resume(a) \/ FallDue(a)
      BY <3>3 DEF BeginBudget, CommitBudget, SwitchAi, Pause, Resume, FallDue
    <3> QED
      BY <3>1, <3>2, <3>5, <3>6, <3>7, <3>8 DEF SpendNext
  <2>2. /\ spending'[r].cost = report[r].cost /\ ~report[r].over
        /\ \A q \in Spends : q # r => spending'[q].cost = spending[q].cost
    BY <2>0, <2>1 DEF CommitReport, Running, CapTypes
  <2>3. Spent' = SpentWith(r)
    BY <2>0, <2>2, SpentWithOne DEF SpentWith
  <2>4. SpentWith(r) <= cap
    BY <2>0, <2>2 DEF LooksAreTrue
  <2> QED
    BY <2>3, <2>4
<1>2. CapInv => CapTypes
  BY DEF CapInv
<1> QED
  BY <1>1, <1>2, SlotInvariant, CapInvariant, PTL DEF SpendSpec, OverspendIsCaught
=============================================================================
