----------------------- MODULE ScopeAndRegister_proofs -----------------------
(***************************************************************************)
(* The bank's scope and the requests that change it, its answers and the   *)
(* duties they start, and what people are told of work that falls due: for *)
(* every set of people, requests, terms, obligations and workers, and      *)
(* every number of days and mishaps.                                       *)
(***************************************************************************)
EXTENDS ScopeChange, Register, Reminders, FiniteSetTheorems, TLAPS

-----------------------------------------------------------------------------
(***************************************************************************)
(* Reminders.  A round that found somebody to tell holds the lock of its   *)
(* kind, and nobody else writes what it looked for; a mail's row is held   *)
(* from before the relay takes it until what came of it is recorded, so    *)
(* what the relay took and no row tells is a mail of a worker that died.   *)
(***************************************************************************)
PostRecords == [at : {"idle", "round", "mail", "sent", "failed"},
                on : Rounds \cup Templates \cup {"nothing"},
                tells : Templates \cup {"nothing"}, day : Nat]
Grid(S) == [Templates -> [Days -> S]]

RemindersTyped ==
  /\ date \in Days
  /\ post \in [Postmen -> PostRecords]
  /\ notices \in Grid(Nat) /\ relayed \in Grid(Nat)
  /\ mail \in Grid({"none", "sent", "failed"})
  /\ escalated \in Nat /\ diedSending \in Nat

\* What a worker tells is of its round's kind.
TellsItsKind ==
  \A w \in Postmen :
    /\ post[w].at = "idle" => post[w] = AtRest
    /\ post[w].at = "round" => /\ post[w].on \in Rounds
                               /\ post[w].tells = "escalation" => post[w].on = "escalations"
                               /\ post[w].tells \in {"overdue", "due_soon"} => post[w].on = "reminders"
    /\ post[w].at \in {"mail", "sent", "failed"} => post[w].on \in Templates /\ post[w].day \in Days

\* One round of a kind, and nothing written yet of what it is about to tell.
OneRoundEach ==
  \A v, w \in Postmen :
    post[v].at = "round" /\ post[w].at = "round" /\ post[v].on = post[w].on => v = w
NothingAhead == \A t \in Templates, d \in Days : d > date => notices[t][d] = 0
EscalationIsNew == escalated = 0 => \A d \in Days : notices["escalation"][d] = 0
StillOwed ==
  \A w \in Postmen :
    post[w].at = "round" /\ post[w].tells # "nothing" =>
      /\ notices[post[w].tells][date] = 0
      /\ post[w].tells = "escalation" => escalated = 0

\* One worker a mail, which is not out yet.
Sending(w) == post[w].at \in {"mail", "sent", "failed"}
OneWorkerAMail ==
  \A v, w \in Postmen :
    Sending(v) /\ Sending(w) /\ post[v].on = post[w].on /\ post[v].day = post[w].day => v = w
HeldIsNotOut == \A w \in Postmen : Sending(w) => mail[post[w].on][post[w].day] # "sent"
TakenIsTold ==
  \A t \in Templates, d \in Days :
    relayed[t][d] <= diedSending
      \/ mail[t][d] = "sent"
      \/ \E w \in Postmen : post[w].at = "sent" /\ post[w].on = t /\ post[w].day = d

RemindersInv ==
  /\ RemindersTyped /\ TellsItsKind
  /\ OneRoundEach /\ NothingAhead /\ EscalationIsNew /\ StillOwed
  /\ OneWorkerAMail /\ HeldIsNotOut /\ TakenIsTold
  /\ ToldOnce

\* One more in one cell of a table by template and day.
OneMore(g, t, d) == [g EXCEPT ![t][d] = @ + 1]
LEMMA OneMoreIs ==
  ASSUME NEW g \in Grid(Nat), NEW t \in Templates, NEW d \in Days
  PROVE  /\ OneMore(g, t, d) \in Grid(Nat)
         /\ g[t][d] \in Nat /\ OneMore(g, t, d)[t][d] = g[t][d] + 1
         /\ \A u \in Templates, e \in Days : u # t \/ e # d => OneMore(g, t, d)[u][e] = g[u][e]
<1>1. g[t] \in [Days -> Nat] /\ g[t][d] \in Nat
  BY DEF Grid
<1>2. OneMore(g, t, d) = [g EXCEPT ![t] = [g[t] EXCEPT ![d] = g[t][d] + 1]]
  BY DEF OneMore
<1>3. [g[t] EXCEPT ![d] = g[t][d] + 1] \in [Days -> Nat]
  BY <1>1
<1> QED
  BY <1>1, <1>2, <1>3 DEF Grid

\* What a round finds to tell is of its kind, and nothing of it is written yet.
LEMMA OwedIsNew ==
  ASSUME RemindersInv, NEW r \in Rounds
  PROVE  /\ Owed(r) \in Templates \cup {"nothing"}
         /\ Owed(r) = "escalation" => r = "escalations"
         /\ Owed(r) \in {"overdue", "due_soon"} => r = "reminders"
         /\ Owed(r) # "nothing" => notices[Owed(r)][date] = 0
         /\ Owed(r) = "escalation" => escalated = 0
<1> USE DEF RemindersInv, RemindersTyped, EscalationIsNew, Rounds, Templates
<1> DEFINE esc == r = "escalations" /\ action.open /\ action.due + EscalateAfter <= date /\ escalated = 0
           over == r = "reminders" /\ action.open /\ action.due = date - 1 /\ ~Already("overdue")
           soon == r = "reminders" /\ action.open /\ action.due - date \in Leads /\ ~Already("due_soon")
<1>1. Owed(r) = CASE esc -> "escalation" [] over -> "overdue" [] soon -> "due_soon" [] OTHER -> "nothing"
  BY DEF Owed
<1>2. esc => r = "escalations" /\ escalated = 0 /\ notices["escalation"][date] = 0
  OBVIOUS
<1>3. over => r = "reminders" /\ notices["overdue"][date] = 0
  BY DEF Already, Grid
<1>4. soon => r = "reminders" /\ notices["due_soon"][date] = 0
  BY DEF Already, Grid
<1> HIDE DEF esc, over, soon
<1>5. \/ Owed(r) = "escalation" /\ esc
      \/ Owed(r) = "overdue" /\ over
      \/ Owed(r) = "due_soon" /\ soon
      \/ Owed(r) = "nothing"
  BY <1>1
<1> QED
  BY <1>2, <1>3, <1>4, <1>5

\* A step that touches neither the day, a task, a notification nor a mail.
LEMMA RemindersSame ==
  ASSUME RemindersInv, UNCHANGED <<date, post, roundVars, mailVars>>
  PROVE  RemindersInv'
  BY DEF RemindersInv, RemindersTyped, TellsItsKind, OneRoundEach, NothingAhead, EscalationIsNew,
         StillOwed, OneWorkerAMail, HeldIsNotOut, TakenIsTold, ToldOnce, Sending, roundVars, mailVars

\* One step of the beat, a person or a worker keeps the invariant.
LEMMA RemindersStep == RemindersInv /\ [RemindersNext]_reminderVars => RemindersInv'
<1> SUFFICES ASSUME RemindersInv, [RemindersNext]_reminderVars PROVE RemindersInv'
  OBVIOUS
<1> USE ReminderAssumption
<1> USE DEF RemindersInv
<1>1. CASE HandOn
  BY <1>1, RemindersSame DEF HandOn
<1>2. CASE Midnight
  BY SMTT(30), <1>2 DEF Midnight, RemindersTyped, TellsItsKind, OneRoundEach, NothingAhead, EscalationIsNew,
     StillOwed, OneWorkerAMail, HeldIsNotOut, TakenIsTold, ToldOnce, Sending, roundVars, mailVars,
     Grid, Days, PostRecords
<1>3. CASE EditAction
  BY <1>3, RemindersSame DEF EditAction
<1>4. ASSUME NEW w \in Postmen, NEW r \in Rounds, BeginRound(w, r) PROVE RemindersInv'
  <2> DEFINE begun == [at |-> "round", on |-> r, tells |-> Owed(r), day |-> date]
  <2>1. /\ post[w] = AtRest /\ post' = [post EXCEPT ![w] = begun]
        /\ \A v \in Postmen : post[v] # AtRest => post[v].on # r
        /\ UNCHANGED <<date, roundVars, mailVars>>
    BY <1>4 DEF BeginRound, RoundLockFree, AtPost
  <2>2. begun \in PostRecords
    BY OwedIsNew DEF PostRecords, RemindersTyped, Days
  <2>3. /\ post' \in [Postmen -> PostRecords] /\ post'[w] = begun
        /\ \A v \in Postmen : v # w => post'[v] = post[v]
    BY <2>1, <2>2 DEF RemindersTyped
  <2>4. RemindersTyped' /\ NothingAhead' /\ EscalationIsNew' /\ ToldOnce'
    BY <2>1, <2>3 DEF RemindersTyped, NothingAhead, EscalationIsNew, ToldOnce, roundVars, mailVars
  <2>5. TellsItsKind' /\ OneRoundEach' /\ StillOwed'
    BY <2>1, <2>3, OwedIsNew DEF TellsItsKind, OneRoundEach, StillOwed, AtRest, roundVars, RemindersTyped
  <2>6. OneWorkerAMail' /\ HeldIsNotOut' /\ TakenIsTold'
    BY <2>1, <2>3 DEF OneWorkerAMail, HeldIsNotOut, TakenIsTold, Sending, AtRest, mailVars
  <2> QED
    BY <2>4, <2>5, <2>6
<1>5. ASSUME NEW w \in Postmen, NEW t \in Templates, BeginMail(w, t) PROVE RemindersInv'
  <2>1. CASE MailIsOut(t)
    <3>1. post[w] = AtRest /\ post' = [post EXCEPT ![w] = AtRest] /\ UNCHANGED <<date, roundVars, mailVars>>
      BY <1>5, <2>1 DEF BeginMail
    <3>2. post' = post
      BY <3>1 DEF RemindersTyped
    <3> QED
      BY <3>1, <3>2, RemindersSame
  <2>2. CASE ~MailIsOut(t)
    <3> DEFINE begun == [at |-> "mail", on |-> t, tells |-> t, day |-> date]
    <3>1. /\ post[w] = AtRest /\ post' = [post EXCEPT ![w] = begun]
          /\ \A v \in Postmen : post[v] # AtRest => ~(post[v].on = t /\ post[v].day = date)
          /\ mail[t][date] # "sent"
          /\ UNCHANGED <<date, roundVars, mailVars>>
      BY <1>5, <2>2 DEF BeginMail, MailRowFree, AtPost, MailIsOut
    <3>2. begun \in PostRecords
      BY DEF PostRecords, RemindersTyped, Days
    <3>3. /\ post' \in [Postmen -> PostRecords] /\ post'[w] = begun
          /\ \A v \in Postmen : v # w => post'[v] = post[v]
      BY <3>1, <3>2 DEF RemindersTyped
    <3>4. RemindersTyped' /\ NothingAhead' /\ EscalationIsNew' /\ ToldOnce'
      BY <3>1, <3>3 DEF RemindersTyped, NothingAhead, EscalationIsNew, ToldOnce, roundVars, mailVars
    <3>5. TellsItsKind' /\ OneRoundEach' /\ StillOwed'
      BY <3>1, <3>3 DEF TellsItsKind, OneRoundEach, StillOwed, AtRest, roundVars, RemindersTyped
    <3>6. OneWorkerAMail' /\ HeldIsNotOut' /\ TakenIsTold'
      BY <3>1, <3>3 DEF OneWorkerAMail, HeldIsNotOut, TakenIsTold, Sending, AtRest, mailVars
    <3> QED
      BY <3>4, <3>5, <3>6
  <2> QED
    BY <2>1, <2>2
<1>6. ASSUME NEW w \in Postmen, CommitRound(w) PROVE RemindersInv'
  <2> DEFINE t == post[w].tells
  <2>1. /\ post[w].at = "round" /\ post' = [post EXCEPT ![w] = AtRest]
        /\ UNCHANGED <<date, mailVars>>
        /\ t = "nothing" => UNCHANGED roundVars
        /\ t # "nothing" =>
             /\ notices' = [notices EXCEPT ![t][date] = @ + 1]
             /\ escalated' = escalated + (IF t = "escalation" THEN 1 ELSE 0)
    BY <1>6 DEF CommitRound, Rest
  <2>2. AtRest \in PostRecords
    BY DEF AtRest, PostRecords
  <2>3. /\ post' \in [Postmen -> PostRecords] /\ post'[w] = AtRest
        /\ \A v \in Postmen : v # w => post'[v] = post[v]
    BY <2>1, <2>2 DEF RemindersTyped
  <2>4. OneWorkerAMail' /\ HeldIsNotOut' /\ TakenIsTold'
    BY <2>1, <2>3 DEF OneWorkerAMail, HeldIsNotOut, TakenIsTold, Sending, AtRest, mailVars
  <2>5. CASE t = "nothing"
    <3>1. RemindersTyped' /\ NothingAhead' /\ EscalationIsNew' /\ ToldOnce'
      BY <2>1, <2>3, <2>5 DEF RemindersTyped, NothingAhead, EscalationIsNew, ToldOnce, roundVars, mailVars
    <3>2. TellsItsKind' /\ OneRoundEach' /\ StillOwed'
      BY <2>1, <2>3, <2>5 DEF TellsItsKind, OneRoundEach, StillOwed, AtRest, roundVars
    <3> QED
      BY <2>4, <3>1, <3>2
  <2>6. CASE t # "nothing"
    <3>1. /\ t \in Templates /\ notices[t][date] = 0 /\ date \in Days
          /\ (t = "escalation" => escalated = 0)
      BY <2>1, <2>6 DEF StillOwed, RemindersTyped, PostRecords
    <3>2. /\ notices' \in Grid(Nat) /\ notices'[t][date] = 1
          /\ \A u \in Templates, d \in Days : u # t \/ d # date => notices'[u][d] = notices[u][d]
      <4>1. notices' = OneMore(notices, t, date)
        BY <2>1, <2>6 DEF OneMore
      <4> QED
        BY SMTT(30), <3>1, <4>1, OneMoreIs DEF RemindersTyped
    <3>3. /\ escalated' \in Nat
          /\ (t = "escalation" => escalated' = 1)
          /\ (t # "escalation" => escalated' = escalated)
      BY <2>1, <2>6, <3>1 DEF RemindersTyped
    <3>4. RemindersTyped' /\ NothingAhead' /\ EscalationIsNew'
      <4>1. RemindersTyped'
        BY <2>1, <2>3, <3>2, <3>3 DEF RemindersTyped, mailVars
      <4>2. NothingAhead'
        BY <2>1, <3>1, <3>2 DEF NothingAhead, Days
      <4>3. EscalationIsNew'
        BY <3>1, <3>2, <3>3 DEF EscalationIsNew, Templates
      <4> QED
        BY <4>1, <4>2, <4>3
    <3>5. ToldOnce'
      <4>1. escalated' <= 1
        BY <3>1, <3>3 DEF ToldOnce
      <4>2. \A u \in Templates, d \in Days : notices'[u][d] <= 1
        BY <3>2 DEF ToldOnce
      <4> QED
        BY <2>1, <4>1, <4>2 DEF ToldOnce, mailVars
    <3>6. TellsItsKind' /\ OneRoundEach'
      BY <2>3 DEF TellsItsKind, OneRoundEach, AtRest
    <3>7. ASSUME NEW v \in Postmen, v # w, post[v].at = "round", post[v].tells # "nothing"
          PROVE  post[v].tells # t
      BY <2>1, <3>1, <3>7 DEF TellsItsKind, OneRoundEach, Templates
    <3>8. StillOwed'
      BY <2>1, <2>3, <3>2, <3>3, <3>7 DEF StillOwed, AtRest, RemindersTyped, PostRecords
    <3> QED
      BY <2>4, <3>4, <3>5, <3>6, <3>8
  <2> QED
    BY <2>5, <2>6
<1>7. ASSUME NEW w \in Postmen, RelayMail(w) PROVE RemindersInv'
  <2> DEFINE t == post[w].on
             d == post[w].day
  <2>1. /\ post[w].at = "mail" /\ UNCHANGED <<date, roundVars, mail, diedSending>>
        /\ \/ /\ post' = [post EXCEPT ![w].at = "sent"]
              /\ relayed' = [relayed EXCEPT ![t][d] = @ + 1]
           \/ post' = [post EXCEPT ![w].at = "failed"] /\ UNCHANGED relayed
    BY <1>7 DEF RelayMail
  <2>2. t \in Templates /\ d \in Days /\ relayed[t][d] <= diedSending
    BY <2>1 DEF TellsItsKind, TakenIsTold, HeldIsNotOut, OneWorkerAMail, Sending
  <2>3. /\ post' \in [Postmen -> PostRecords]
        /\ post'[w].on = t /\ post'[w].day = d /\ post'[w].at \in {"sent", "failed"}
        /\ \A v \in Postmen : v # w => post'[v] = post[v]
    BY <2>1 DEF RemindersTyped, PostRecords
  <2>4. /\ relayed' \in Grid(Nat)
        /\ \/ relayed'[t][d] = relayed[t][d]
           \/ post'[w].at = "sent" /\ relayed'[t][d] = relayed[t][d] + 1
        /\ \A u \in Templates, e \in Days : u # t \/ e # d => relayed'[u][e] = relayed[u][e]
    <3>1. CASE post'[w].at = "sent"
      <4>1. relayed' = [relayed EXCEPT ![t][d] = @ + 1]
        BY <2>1, <3>1 DEF RemindersTyped, PostRecords
      <4> QED
        <5>1. relayed' = OneMore(relayed, t, d)
          BY <4>1 DEF OneMore
        <5>2. relayed \in Grid(Nat)
          BY DEF RemindersTyped
        <5>3. /\ OneMore(relayed, t, d) \in Grid(Nat)
              /\ OneMore(relayed, t, d)[t][d] = relayed[t][d] + 1
              /\ \A u \in Templates, e \in Days :
                   u # t \/ e # d => OneMore(relayed, t, d)[u][e] = relayed[u][e]
          BY ONLY <2>2, <5>2, OneMoreIs
        <5> QED
          BY <3>1, <5>1, <5>3
    <3>2. CASE post'[w].at = "failed"
      <4>1. relayed' = relayed
        BY <2>1, <3>2 DEF RemindersTyped, PostRecords
      <4> QED
        BY <2>2, <3>2, <4>1 DEF RemindersTyped, Grid
    <3> QED
      BY <2>3, <3>1, <3>2
  <2>5. RemindersTyped' /\ NothingAhead' /\ EscalationIsNew'
    BY <2>1, <2>3, <2>4 DEF RemindersTyped, NothingAhead, EscalationIsNew, roundVars
  <2>6. TellsItsKind' /\ OneRoundEach' /\ StillOwed'
    BY <2>1, <2>2, <2>3 DEF TellsItsKind, OneRoundEach, StillOwed, roundVars
  <2>7. OneWorkerAMail' /\ HeldIsNotOut'
    BY <2>1, <2>3 DEF OneWorkerAMail, HeldIsNotOut, Sending
  <2>8. TakenIsTold'
    <3> SUFFICES ASSUME NEW u \in Templates, NEW e \in Days, ~(relayed'[u][e] <= diedSending),
                        mail[u][e] # "sent"
                 PROVE  \E v \in Postmen : post'[v].at = "sent" /\ post'[v].on = u /\ post'[v].day = e
      BY <2>1 DEF TakenIsTold
    <3>1. CASE u = t /\ e = d
      BY <2>2, <2>3, <2>4, <3>1 DEF RemindersTyped, Grid
    <3>2. CASE u # t \/ e # d
      <4>1. PICK v \in Postmen : post[v].at = "sent" /\ post[v].on = u /\ post[v].day = e
        BY <2>4, <3>2 DEF TakenIsTold, RemindersTyped, Grid
      <4> QED
        BY <2>3, <3>2, <4>1
    <3> QED
      BY <3>1, <3>2
  <2>9. ToldOnce'
    BY <2>1, <2>2, <2>4 DEF ToldOnce, roundVars, RemindersTyped, Grid
  <2> QED
    BY <2>5, <2>6, <2>7, <2>8, <2>9
<1>8. ASSUME NEW w \in Postmen, RecordMail(w) PROVE RemindersInv'
  <2> DEFINE t == post[w].on
             d == post[w].day
  <2>1. /\ post[w].at \in {"sent", "failed"} /\ post' = [post EXCEPT ![w] = AtRest]
        /\ mail' = [mail EXCEPT ![t][d] = post[w].at]
        /\ UNCHANGED <<date, roundVars, relayed, diedSending>>
    BY <1>8 DEF RecordMail, Rest
  <2>2. t \in Templates /\ d \in Days
    BY <2>1 DEF TellsItsKind
  <2>3. AtRest \in PostRecords
    BY DEF AtRest, PostRecords
  <2>4. /\ post' \in [Postmen -> PostRecords] /\ post'[w] = AtRest
        /\ \A v \in Postmen : v # w => post'[v] = post[v]
    BY <2>1, <2>3 DEF RemindersTyped
  <2>5. /\ mail' \in Grid({"none", "sent", "failed"}) /\ mail'[t][d] = post[w].at
        /\ \A u \in Templates, e \in Days : u # t \/ e # d => mail'[u][e] = mail[u][e]
    BY <2>1, <2>2 DEF RemindersTyped, Grid
  <2>6. RemindersTyped' /\ NothingAhead' /\ EscalationIsNew' /\ ToldOnce'
    BY <2>1, <2>4, <2>5 DEF RemindersTyped, NothingAhead, EscalationIsNew, ToldOnce, roundVars
  <2>7. TellsItsKind' /\ OneRoundEach' /\ StillOwed'
    BY <2>1, <2>4 DEF TellsItsKind, OneRoundEach, StillOwed, AtRest, roundVars
  <2>8. OneWorkerAMail'
    BY <2>4 DEF OneWorkerAMail, Sending, AtRest
  <2>9. HeldIsNotOut'
    BY <2>1, <2>2, <2>4, <2>5 DEF HeldIsNotOut, OneWorkerAMail, TellsItsKind, Sending, AtRest
  <2>10. TakenIsTold'
    <3> SUFFICES ASSUME NEW u \in Templates, NEW e \in Days, ~(relayed[u][e] <= diedSending),
                        mail'[u][e] # "sent"
                 PROVE  \E v \in Postmen : post'[v].at = "sent" /\ post'[v].on = u /\ post'[v].day = e
      BY <2>1 DEF TakenIsTold
    <3>1. mail[u][e] # "sent"
      BY <2>1, <2>5 DEF HeldIsNotOut, Sending
    <3>2. PICK v \in Postmen : post[v].at = "sent" /\ post[v].on = u /\ post[v].day = e
      BY <3>1 DEF TakenIsTold
    <3>3. v # w
      BY <2>5, <3>2
    <3> QED
      BY <2>4, <3>2, <3>3
  <2> QED
    BY <2>6, <2>7, <2>8, <2>9, <2>10
<1>9. ASSUME NEW w \in Postmen, KillPostman(w) PROVE RemindersInv'
  <2>1. /\ post' = [post EXCEPT ![w] = AtRest] /\ UNCHANGED <<date, roundVars, mail, relayed>>
        /\ diedSending' = diedSending + (IF post[w].at = "sent" THEN 1 ELSE 0)
    BY <1>9 DEF KillPostman, Rest
  <2>2. AtRest \in PostRecords
    BY DEF AtRest, PostRecords
  <2>3. /\ post' \in [Postmen -> PostRecords] /\ post'[w] = AtRest
        /\ \A v \in Postmen : v # w => post'[v] = post[v]
    BY <2>1, <2>2 DEF RemindersTyped
  <2>4. /\ diedSending' \in Nat /\ diedSending <= diedSending'
        /\ post[w].at = "sent" => diedSending' = diedSending + 1
    BY <2>1 DEF RemindersTyped
  <2>5. RemindersTyped' /\ NothingAhead' /\ EscalationIsNew'
    BY <2>1, <2>3, <2>4 DEF RemindersTyped, NothingAhead, EscalationIsNew, roundVars
  <2>6. TellsItsKind' /\ OneRoundEach' /\ StillOwed'
    BY <2>1, <2>3 DEF TellsItsKind, OneRoundEach, StillOwed, AtRest, roundVars
  <2>7. OneWorkerAMail' /\ HeldIsNotOut'
    BY <2>1, <2>3 DEF OneWorkerAMail, HeldIsNotOut, Sending, AtRest
  <2>8. ToldOnce'
    BY <2>1, <2>4 DEF ToldOnce, roundVars, RemindersTyped, Grid
  <2>9. TakenIsTold'
    <3> SUFFICES ASSUME NEW u \in Templates, NEW e \in Days, ~(relayed[u][e] <= diedSending'),
                        mail[u][e] # "sent"
                 PROVE  \E v \in Postmen : post'[v].at = "sent" /\ post'[v].on = u /\ post'[v].day = e
      BY <2>1 DEF TakenIsTold
    <3>1. ~(relayed[u][e] <= diedSending) /\ post[w].at # "sent"
      BY <2>4 DEF RemindersTyped, Grid, ToldOnce
    <3>2. PICK v \in Postmen : post[v].at = "sent" /\ post[v].on = u /\ post[v].day = e
      BY <3>1 DEF TakenIsTold
    <3> QED
      BY <2>3, <3>1, <3>2
  <2> QED
    BY <2>5, <2>6, <2>7, <2>8, <2>9
<1>10. ASSUME NEW w \in Postmen, RepeatMessage(w) PROVE RemindersInv'
  BY <1>10, RemindersSame DEF RepeatMessage
<1>11. CASE UNCHANGED reminderVars
  BY <1>11, RemindersSame DEF reminderVars
<1> QED
  BY <1>1, <1>2, <1>3, <1>4, <1>5, <1>6, <1>7, <1>8, <1>9, <1>10, <1>11 DEF RemindersNext

\* Every reachable state has at most one round of a kind at work, and one worker a mail.
THEOREM RemindersInvariant == RemindersSpec => []RemindersInv
<1>1. RemindersInit => RemindersInv
  BY ReminderAssumption DEF RemindersInit, RemindersInv, RemindersTyped, TellsItsKind, OneRoundEach,
     NothingAhead, EscalationIsNew, StillOwed, OneWorkerAMail, HeldIsNotOut, TakenIsTold, ToldOnce,
     Sending, PostRecords, Grid, AtRest, PerDay, Rounds, Templates, Days
<1> QED
  BY <1>1, RemindersStep, PTL DEF RemindersSpec

\* collab/reminders.py, escalation.py, tasks.py: told once, however rounds overlap and
\* messages come again, on any number of days and with any number of mishaps.
THEOREM PeopleAreToldOnce == RemindersSpec => []ToldOnce
  BY RemindersInvariant, PTL DEF RemindersInv

-----------------------------------------------------------------------------
(***************************************************************************)
(* The scope.  One request waits at a time and one person decides it, so   *)
(* the scope stands still from the question to the decision; and a change  *)
(* that waits names nothing twice, so each history row is one move.        *)
(***************************************************************************)
Verbs == {"approved", "rejected", "withdrawn"}
Previews == [hidden : SUBSET Records, revealed : SUBSET Records]
RequestRecords == [status : Verbs \cup {"none", "pending"},
                   by : People \cup {None}, decidedBy : People \cup {None},
                   change : Changes \cup {None},
                   preview : Previews]

ScopeTyped ==
  /\ request \in [Requests -> RequestRecords]
  /\ footprint \subseteq Terms /\ outside \subseteq Lines
  /\ item \in [Requests -> {"none", "requested", "in_scope", "removed", "declined"}]
  /\ ledger \in [Things -> Seq({"added", "removed"})]
  /\ draft \in [People -> Changes \cup {None}]
  /\ deciding \in [People -> [of : Requests \cup {None}, verb : Verbs \cup {"none"}]]
  /\ listed \subseteq Records
  /\ counted \in [People -> Previews \cup {Uncounted}]
  /\ stood \in [People -> SUBSET SUBSET Records]

\* The rows of the requests.
RowsAreSound ==
  \A r \in Requests :
    /\ request[r].status = "none" => request[r] = NoRequest
    /\ request[r].status = "pending" => request[r].by \in People /\ request[r].change \in Changes
    /\ request[r].decidedBy = None <=> request[r].status \in {"none", "pending", "withdrawn"}
OneWaits ==
  \A q, r \in Requests : request[q].status = "pending" /\ request[r].status = "pending" => q = r
DecidersHold ==
  \A p \in People : deciding[p] # Idle =>
    /\ deciding[p].of \in Requests /\ deciding[p].verb \in Verbs
    /\ request[deciding[p].of].status = "pending"
OneDecides ==
  \A p, q \in People : deciding[p].of = deciding[q].of /\ deciding[p].of # None => p = q

\* An item is in scope only by an approval, and what a change names it names once.
ItemsAreApproved == \A r \in Requests : item[r] = "in_scope" => request[r].status = "approved"
Unmixed(c) ==
  /\ c.excludes \cap c.includes = {}
  /\ \A x \in c.itemRemoves : x \in Requests /\ request[x].status = "approved"
ChangesAreUnmixed ==
  /\ \A p \in People : draft[p] # None => Unmixed(draft[p])
  /\ \A r \in Requests : request[r].status = "pending" => Unmixed(request[r].change)

ScopeInv ==
  /\ ScopeTyped /\ RowsAreSound /\ OneWaits /\ DecidersHold /\ OneDecides
  /\ ItemsAreApproved /\ ChangesAreUnmixed
  /\ HistoryRebuildsScope

\* What a preview counts are records.
LEMMA PreviewCountsRecords ==
  ASSUME listed \subseteq Records, NEW c
  PROVE  PreviewOf(c) \in Previews
  BY DEF PreviewOf, Difference, Seen, Previews

\* While one person decides, nobody else does: there is one row to hold.
LEMMA OneActs ==
  ASSUME ScopeInv, NEW p \in People, NEW q \in People, deciding[p] # Idle, q # p
  PROVE  deciding[q] = Idle
<1>1. /\ deciding[p].of \in Requests /\ request[deciding[p].of].status = "pending"
      /\ deciding[q] # Idle => /\ deciding[q].of \in Requests
                              /\ request[deciding[q].of].status = "pending"
  BY DEF ScopeInv, DecidersHold
<1>2. deciding[p].of # None
  BY <1>1, ScopeChangeAssumption
<1>3. deciding[q] # Idle => deciding[q].of = deciding[p].of
  BY <1>1 DEF ScopeInv, OneWaits
<1> QED
  BY <1>2, <1>3 DEF ScopeInv, OneDecides

\* What a decision writes into the row of its request.
Decided(rows, r, v, d, w) == [rows EXCEPT ![r].status = v, ![r].decidedBy = d, ![r].preview = w]
Deciders == People \cup {None}
LEMMA DecidedRow ==
  ASSUME NEW rows, rows \in [Requests -> RequestRecords], NEW r, r \in Requests,
         NEW v, v \in Verbs, NEW d, d \in Deciders, NEW w, w \in Previews
  PROVE  /\ Decided(rows, r, v, d, w) \in [Requests -> RequestRecords]
         /\ Decided(rows, r, v, d, w)[r].status = v
         /\ Decided(rows, r, v, d, w)[r].decidedBy = d
         /\ Decided(rows, r, v, d, w)[r].preview = w
         /\ Decided(rows, r, v, d, w)[r].by = rows[r].by
         /\ \A q \in Requests : q # r => Decided(rows, r, v, d, w)[q] = rows[q]
<1> DEFINE row == [rows[r] EXCEPT !.status = v, !.decidedBy = d, !.preview = w]
<1>1. row \in RequestRecords /\ row.status = v /\ row.decidedBy = d /\ row.preview = w /\ row.by = rows[r].by
  BY DEF RequestRecords, Deciders, Previews
<1>2. Decided(rows, r, v, d, w) = [rows EXCEPT ![r] = row]
  BY DEF Decided
<1> HIDE DEF row
<1> QED
  BY <1>1, <1>2

\* Whoever decides holds the one request that waits, and writes that row alone.
LEMMA DecisionLands ==
  ASSUME ScopeInv, NEW p \in People, Approve(p) \/ TurnDown(p)
  PROVE  LET r == deciding[p].of
             verb == deciding[p].verb
         IN  /\ r \in Requests /\ verb \in Verbs
             /\ request[r].status = "pending" /\ request[r].by \in People
             /\ request[r].change \in Changes /\ Unmixed(request[r].change)
             /\ request' \in [Requests -> RequestRecords]
             /\ request'[r].status = verb /\ request'[r].by = request[r].by
             /\ request'[r].decidedBy = IF verb = "withdrawn" THEN None ELSE p
             /\ request'[r].preview = counted[p]
             /\ counted[p] # Uncounted
             /\ \A q \in Requests : q # r => request'[q] = request[q]
<1> DEFINE r == deciding[p].of
           verb == deciding[p].verb
           d == IF verb = "withdrawn" THEN None ELSE p
           w == counted[p]
<1>1. deciding[p] # Idle /\ request' = Decided(request, r, verb, d, w) /\ w # Uncounted
  <2>1. CASE Approve(p)
    <3>1. verb = "approved"
      BY <2>1 DEF Approve
    <3>2. d = p /\ deciding[p] # Idle
      BY <3>1 DEF Idle
    <3>3. request' = Decided(request, r, "approved", p, w) /\ w # Uncounted
      BY <2>1 DEF Approve, Decide, Decided
    <3> QED
      BY <3>1, <3>2, <3>3
  <2>2. CASE TurnDown(p)
    BY <2>2 DEF TurnDown, Decide, Decided, Idle
  <2> QED
    BY <2>1, <2>2
<1>2. /\ r \in Requests /\ verb \in Verbs
      /\ request[r].status = "pending" /\ request[r].by \in People
      /\ request[r].change \in Changes /\ Unmixed(request[r].change)
  BY <1>1 DEF ScopeInv, DecidersHold, RowsAreSound, ChangesAreUnmixed
<1>3. d \in Deciders /\ w \in Previews /\ request \in [Requests -> RequestRecords]
  BY <1>1 DEF Deciders, ScopeInv, ScopeTyped
<1> HIDE DEF w, d, r, verb
<1>4. /\ Decided(request, r, verb, d, w) \in [Requests -> RequestRecords]
      /\ Decided(request, r, verb, d, w)[r].status = verb
      /\ Decided(request, r, verb, d, w)[r].decidedBy = d
      /\ Decided(request, r, verb, d, w)[r].preview = w
      /\ Decided(request, r, verb, d, w)[r].by = request[r].by
      /\ \A q \in Requests : q # r => Decided(request, r, verb, d, w)[q] = request[q]
  BY ONLY <1>2, <1>3, DecidedRow
<1> QED
  BY <1>1, <1>2, <1>4 DEF w, d, r, verb

\* A step that leaves the requests, the scope, the drafts and the decisions alone, whatever
\* is counted meanwhile.
LEMMA ScopeSame ==
  ASSUME ScopeInv, UNCHANGED <<request, scope, draft, deciding>>,
         listed' \subseteq Records, counted' \in [People -> Previews \cup {Uncounted}],
         stood' \in [People -> SUBSET SUBSET Records]
  PROVE  ScopeInv'
<1> USE DEF ScopeInv, scope
<1>1. ScopeTyped' /\ ItemsAreApproved'
  BY DEF ScopeTyped, ItemsAreApproved
<1>2. RowsAreSound' /\ OneWaits' /\ DecidersHold' /\ OneDecides'
  BY DEF RowsAreSound, OneWaits, DecidersHold, OneDecides
<1>3. ChangesAreUnmixed'
  BY DEF ChangesAreUnmixed, Unmixed
<1>4. HistoryRebuildsScope'
  BY DEF HistoryRebuildsScope, LastIs, ItemsIn
<1> QED
  BY <1>1, <1>2, <1>3, <1>4

\* What the history says depends on the scope and the ledger alone.
LEMMA HistoryKept ==
  ASSUME HistoryRebuildsScope, ItemsIn' = ItemsIn, UNCHANGED <<footprint, outside, ledger>>
  PROVE  HistoryRebuildsScope'
  BY DEF HistoryRebuildsScope, LastIs

\* One more row of a ledger: what it ends with, and that it still alternates.
LEMMA LedgerGrows ==
  ASSUME NEW rows \in Seq({"added", "removed"}), NEW what \in {"added", "removed"}
  PROVE  /\ Append(rows, what) \in Seq({"added", "removed"})
         /\ Append(rows, what) # <<>> /\ Append(rows, what)[Len(Append(rows, what))] = what
         /\ /\ \A i \in 2..Len(rows) : rows[i] # rows[i - 1]
            /\ ~(rows # <<>> /\ rows[Len(rows)] = what)
            => \A i \in 2..Len(Append(rows, what)) :
                 Append(rows, what)[i] # Append(rows, what)[i - 1]
<1>1. Len(rows) \in Nat /\ Len(Append(rows, what)) = Len(rows) + 1
  OBVIOUS
<1>2. \A i \in 1..Len(rows) : Append(rows, what)[i] = rows[i]
  OBVIOUS
<1>3. Append(rows, what)[Len(rows) + 1] = what
  OBVIOUS
<1>4. Append(rows, what) \in Seq({"added", "removed"}) /\ Append(rows, what) # <<>>
  OBVIOUS
<1>5. ASSUME \A i \in 2..Len(rows) : rows[i] # rows[i - 1],
             ~(rows # <<>> /\ rows[Len(rows)] = what),
             NEW i \in 2..Len(Append(rows, what))
      PROVE  Append(rows, what)[i] # Append(rows, what)[i - 1]
  <2>1. CASE i \in 2..Len(rows)
    <3>1. i \in 1..Len(rows) /\ i - 1 \in 1..Len(rows)
      BY <1>1, <2>1
    <3> QED
      BY <1>2, <1>5, <2>1, <3>1
  <2>2. CASE i = Len(rows) + 1
    <3>1. i - 1 = Len(rows) /\ Len(rows) \in 1..Len(rows) /\ rows # <<>>
      BY <1>1, <1>5, <2>2
    <3> QED
      BY <1>2, <1>3, <1>5, <2>2, <3>1
  <2> QED
    BY <1>1, <1>5, <2>1, <2>2
<1> QED
  BY <1>1, <1>3, <1>4, <1>5

\* What an approval writes of each thing: one row for what it moves, none for the rest.
LEMMA SwitchedRows ==
  ASSUME ScopeInv, NEW r \in Requests, request[r].change \in Changes, Unmixed(request[r].change)
  PROVE  LET c == request[r].change
         IN  /\ \A t \in Terms :
                  Switched(r)[t] = IF t \in c.adds \ footprint THEN Append(ledger[t], "added")
                                   ELSE IF t \in c.removes \cap footprint
                                   THEN Append(ledger[t], "removed") ELSE ledger[t]
             /\ \A l \in Lines :
                  Switched(r)[l] = IF l \in c.includes \cap outside THEN Append(ledger[l], "added")
                                   ELSE IF l \in c.excludes \ outside
                                   THEN Append(ledger[l], "removed") ELSE ledger[l]
             /\ \A x \in Requests :
                  Switched(r)[x] = IF x = r /\ AddsItem(c) THEN Append(ledger[x], "added")
                                   ELSE IF x \in c.itemRemoves
                                   THEN Append(ledger[x], "removed") ELSE ledger[x]
             /\ Switched(r) \in [Things -> Seq({"added", "removed"})]
<1> DEFINE c == request[r].change
           on == Moved(c).on \cup (IF AddsItem(c) THEN {r} ELSE {})
           off == Moved(c).off \cup c.itemRemoves
<1>1. /\ Terms \cap Lines = {} /\ Terms \cap Requests = {} /\ Lines \cap Requests = {}
      /\ c.adds \subseteq Terms /\ c.removes \subseteq Terms /\ c.excludes \subseteq Lines
      /\ outside \subseteq Lines /\ footprint \subseteq Terms /\ c.itemRemoves \subseteq Requests
  BY ScopeChangeAssumption DEF ScopeInv, ScopeTyped, Unmixed
<1>2. Switched(r) = [x \in Things |-> IF x \in on THEN Append(ledger[x], "added")
                                      ELSE IF x \in off THEN Append(ledger[x], "removed") ELSE ledger[x]]
  BY DEF Switched
<1>3. \A x : x \in on <=> x \in c.adds \ footprint \/ x \in c.includes \cap outside \/ (x = r /\ AddsItem(c))
  BY DEF Moved
<1>4. \A x : x \in off <=> x \in c.removes \cap footprint \/ x \in c.excludes \ outside \/ x \in c.itemRemoves
  BY DEF Moved
<1> HIDE DEF on, off
<1>5. \A t \in Terms : (t \in on <=> t \in c.adds \ footprint) /\ (t \in off <=> t \in c.removes \cap footprint)
  BY <1>1, <1>3, <1>4
<1>6. \A l \in Lines : (l \in on <=> l \in c.includes \cap outside) /\ (l \in off <=> l \in c.excludes \ outside)
  BY <1>1, <1>3, <1>4
<1>7. \A x \in Requests : (x \in on <=> x = r /\ AddsItem(c)) /\ (x \in off <=> x \in c.itemRemoves)
  BY <1>1, <1>3, <1>4
<1>8. Terms \subseteq Things /\ Lines \subseteq Things /\ Requests \subseteq Things
  BY DEF Things
<1>9. Switched(r) \in [Things -> Seq({"added", "removed"})]
  <2> SUFFICES ASSUME NEW x \in Things
               PROVE  (IF x \in on THEN Append(ledger[x], "added")
                       ELSE IF x \in off THEN Append(ledger[x], "removed") ELSE ledger[x])
                        \in Seq({"added", "removed"})
    BY <1>2
  <2>1. ledger[x] \in Seq({"added", "removed"})
    BY DEF ScopeInv, ScopeTyped
  <2> QED
    BY <2>1, LedgerGrows
<1>10. \A x \in Things :
         Switched(r)[x] = IF x \in on THEN Append(ledger[x], "added")
                          ELSE IF x \in off THEN Append(ledger[x], "removed") ELSE ledger[x]
  BY <1>2
<1>11. \A t \in Terms :
         Switched(r)[t] = IF t \in c.adds \ footprint THEN Append(ledger[t], "added")
                          ELSE IF t \in c.removes \cap footprint
                          THEN Append(ledger[t], "removed") ELSE ledger[t]
  BY <1>5, <1>8, <1>10
<1>12. \A l \in Lines :
         Switched(r)[l] = IF l \in c.includes \cap outside THEN Append(ledger[l], "added")
                          ELSE IF l \in c.excludes \ outside
                          THEN Append(ledger[l], "removed") ELSE ledger[l]
  BY <1>6, <1>8, <1>10
<1>13. \A x \in Requests :
         Switched(r)[x] = IF x = r /\ AddsItem(c) THEN Append(ledger[x], "added")
                          ELSE IF x \in c.itemRemoves
                          THEN Append(ledger[x], "removed") ELSE ledger[x]
  BY <1>7, <1>8, <1>10
<1> QED
  BY <1>9, <1>11, <1>12, <1>13

\* Where a decision ends, nothing is counted for it any more.
LEMMA DoneTyped ==
  ASSUME ScopeTyped, NEW p \in People, Done(p), UNCHANGED listed
  PROVE  /\ listed' \subseteq Records
         /\ counted' \in [People -> Previews \cup {Uncounted}]
         /\ stood' \in [People -> SUBSET SUBSET Records]
  BY DEF ScopeTyped, Done

\* One step of the people who ask and decide keeps the invariant.
LEMMA ScopeStep == ScopeInv /\ [Next]_vars => ScopeInv'
<1> SUFFICES ASSUME ScopeInv, [Next]_vars PROVE ScopeInv'
  OBVIOUS
<1> USE ScopeChangeAssumption
<1> USE DEF ScopeInv, scope
<1>1. ASSUME NEW x \in MayRetire, Retire(x) PROVE ScopeInv'
  BY <1>1, ScopeSame DEF Retire, counting, ScopeTyped
<1>2. ASSUME NEW p \in People, NEW c \in Changes, Validate(p, c) PROVE ScopeInv'
  <2>1. /\ draft' = [draft EXCEPT ![p] = c] /\ UNCHANGED <<request, scope, deciding, counting>>
        /\ c.itemRemoves \subseteq ItemsIn /\ c.excludes \cap outside = {} /\ c.includes \subseteq outside
    BY <1>2 DEF Validate
  <2>2. Unmixed(c)
    BY <2>1 DEF Unmixed, ItemsIn, ItemsAreApproved
  <2>3. ChangesAreUnmixed'
    BY <2>1, <2>2 DEF ChangesAreUnmixed, Unmixed, ScopeTyped
  <2>4. HistoryRebuildsScope'
    BY <2>1, HistoryKept DEF ItemsIn
  <2>5. ScopeTyped' /\ RowsAreSound' /\ OneWaits' /\ DecidersHold' /\ OneDecides' /\ ItemsAreApproved'
    BY <2>1 DEF counting, ScopeTyped, RowsAreSound, OneWaits, DecidersHold, OneDecides, ItemsAreApproved
  <2> QED
    BY <2>3, <2>4, <2>5
<1>3. ASSUME NEW p \in People, NEW r \in Requests, CreateRequest(p, r) PROVE ScopeInv'
  <2>1. CASE Waiting
    <3>1. draft' = [draft EXCEPT ![p] = None] /\ UNCHANGED <<request, scope, deciding, counting>>
      BY <1>3, <2>1 DEF CreateRequest
    <3>2. ChangesAreUnmixed' /\ HistoryRebuildsScope'
      BY <3>1, HistoryKept DEF ChangesAreUnmixed, Unmixed, ScopeTyped, ItemsIn
    <3> QED
      BY <3>1, <3>2 DEF counting, ScopeTyped, RowsAreSound, OneWaits, DecidersHold, OneDecides,
         ItemsAreApproved
  <2>2. CASE ~Waiting
    <3> DEFINE c == draft[p]
               asks == [status |-> "pending", by |-> p, decidedBy |-> None, change |-> c,
                        preview |-> PreviewOf(c)]
    <3>1. /\ c # None /\ request[r] = NoRequest
          /\ draft' = [draft EXCEPT ![p] = None]
          /\ request' = [request EXCEPT ![r] = asks]
          /\ item' = IF AddsItem(c) THEN [item EXCEPT ![r] = "requested"] ELSE item
          /\ UNCHANGED <<footprint, outside, ledger, deciding, counting>>
      BY <1>3, <2>2 DEF CreateRequest
    <3>2. c \in Changes /\ asks \in RequestRecords
      <4>1. PreviewOf(c) \in Previews
        BY PreviewCountsRecords DEF ScopeTyped
      <4> QED
        BY <3>1, <4>1 DEF ScopeTyped, RequestRecords
    <3>3. /\ request' \in [Requests -> RequestRecords] /\ request'[r] = asks
          /\ \A q \in Requests : q # r => request'[q] = request[q]
      BY <3>1, <3>2 DEF ScopeTyped
    <3>4. item' \in [Requests -> {"none", "requested", "in_scope", "removed", "declined"}]
      BY <3>1 DEF ScopeTyped
    <3>5. item[r] # "in_scope" /\ \A q \in Requests : item'[q] = "in_scope" <=> item[q] = "in_scope"
      <4> HIDE DEF asks, c
      <4>1. item[r] # "in_scope"
        <5>1. request[r].status = "none"
          BY <3>1 DEF NoRequest
        <5> QED
          BY <5>1 DEF ItemsAreApproved
      <4>2. \A q \in Requests : item'[q] = IF q = r /\ AddsItem(c) THEN "requested" ELSE item[q]
        BY <3>1 DEF ScopeTyped
      <4> QED
        BY <4>1, <4>2
    <3>6. \A q \in Requests : request[q].status # "none" => q # r
      BY <3>1 DEF NoRequest
    <3>7. ScopeTyped'
      BY <3>1, <3>3, <3>4 DEF ScopeTyped, counting
    <3>8. RowsAreSound'
      <4>1. /\ request'[r].status = "pending" /\ request'[r].by = p /\ request'[r].change = c
            /\ request'[r].decidedBy = None
        BY <3>3
      <4> QED
        BY <3>2, <3>3, <4>1 DEF RowsAreSound
    <3>9. OneWaits'
      BY <2>2, <3>3 DEF OneWaits, Waiting
    <3>10. DecidersHold' /\ OneDecides'
      BY <3>1, <3>3, <3>6 DEF DecidersHold, OneDecides
    <3>11. ItemsAreApproved'
      BY <3>3, <3>5, <3>6 DEF ItemsAreApproved
    <3>12. \A x \in Requests : request[x].status = "approved" => request'[x].status = "approved"
      BY <3>3, <3>6
    <3>13. ChangesAreUnmixed'
      <4>1. \A q \in People : draft'[q] = None \/ draft'[q] = draft[q]
        BY <3>1 DEF ScopeTyped
      <4>2. \A q \in Requests : request'[q].status = "pending" =>
              \/ request'[q].change = c
              \/ request[q].status = "pending" /\ request'[q] = request[q]
        BY <3>3
      <4> DEFINE Still(d) == /\ d.excludes \cap d.includes = {}
                             /\ \A x \in d.itemRemoves : x \in Requests /\ request'[x].status = "approved"
      <4>3. \A d : Unmixed(d) => Still(d)
        BY <3>12 DEF Unmixed
      <4> HIDE DEF Still
      <4>4. Still(c)
        BY <3>1, <4>3 DEF ChangesAreUnmixed
      <4>5. \A q \in People : draft'[q] # None => Still(draft'[q])
        BY <4>1, <4>3 DEF ChangesAreUnmixed
      <4>6. \A q \in Requests : request'[q].status = "pending" => Still(request'[q].change)
        BY <4>2, <4>3, <4>4 DEF ChangesAreUnmixed
      <4> QED
        BY <4>5, <4>6 DEF ChangesAreUnmixed, Unmixed, Still
    <3>14. HistoryRebuildsScope'
      BY <3>1, <3>5, HistoryKept DEF ItemsIn
    <3> QED
      BY <3>7, <3>8, <3>9, <3>10, <3>11, <3>13, <3>14
  <2> QED
    BY <2>1, <2>2
<1>4. ASSUME NEW p \in People, NEW r \in Requests, NEW verb \in Verbs, Decidable(p, r, verb)
      PROVE ScopeInv'
  <2>1. /\ deciding' = [deciding EXCEPT ![p] = [of |-> r, verb |-> verb]]
        /\ deciding[p] = Idle /\ request[r].status = "pending" /\ \A q \in People : deciding[q].of # r
        /\ stood' = [stood EXCEPT ![p] = {listed}]
        /\ UNCHANGED <<request, scope, draft, listed, counted>>
    BY <1>4 DEF Decidable, RowFree, Undecided
  <2>2. ChangesAreUnmixed' /\ HistoryRebuildsScope'
    BY <2>1, HistoryKept DEF ChangesAreUnmixed, Unmixed, ItemsIn
  <2>3. ScopeTyped' /\ RowsAreSound' /\ OneWaits' /\ ItemsAreApproved'
    BY <2>1 DEF ScopeTyped, RowsAreSound, OneWaits, ItemsAreApproved
  <2>4. DecidersHold' /\ OneDecides'
    BY <2>1 DEF DecidersHold, OneDecides, ScopeTyped
  <2> QED
    BY <2>2, <2>3, <2>4
<1>5. ASSUME NEW p \in People, Approve(p) PROVE ScopeInv'
  <2> DEFINE r == deciding[p].of
             c == request[r].change
  <2>1. /\ deciding[p] # Idle
        /\ footprint' = After(c) /\ outside' = (outside \cup c.excludes) \ c.includes
        /\ item' = [x \in Requests |-> IF x \in c.itemRemoves THEN "removed"
                                       ELSE IF x = r /\ AddsItem(c) THEN "in_scope" ELSE item[x]]
        /\ ledger' = Switched(r) /\ Done(p) /\ deciding' = [deciding EXCEPT ![p] = Idle]
        /\ UNCHANGED <<draft, listed>>
    <3>1. deciding[p].verb = "approved"
      BY Zenon, <1>5 DEF Approve
    <3>2. Idle.verb = "none"
      BY DEF Idle
    <3>3. deciding[p] # Idle
      BY <3>1, <3>2
    <3>4. Done(p) /\ deciding' = [deciding EXCEPT ![p] = Idle]
      BY Zenon, <1>5 DEF Approve, Decide, Done
    <3> QED
      BY Zenon, <1>5, <3>3, <3>4 DEF Approve
  <2>2. r \in Requests /\ request[r].status = "pending" /\ c \in Changes /\ Unmixed(c)
    BY <1>5, DecisionLands
  <2>3. /\ request' \in [Requests -> RequestRecords]
        /\ request'[r].status = "approved" /\ request'[r].decidedBy = p
        /\ \A q \in Requests : q # r => request'[q] = request[q]
    BY <1>5, DecisionLands DEF Approve
  <2>4. /\ deciding' \in [People -> [of : Requests \cup {None}, verb : Verbs \cup {"none"}]]
        /\ deciding'[p] = Idle /\ \A q \in People : q # p => deciding'[q] = deciding[q]
    BY <2>1 DEF ScopeTyped, Idle
  <2>5. \A q \in People : q # p => deciding[q] = Idle
    BY <2>1, OneActs
  <2>6. item' \in [Requests -> {"none", "requested", "in_scope", "removed", "declined"}]
    BY <2>1 DEF ScopeTyped
  <2>7. ScopeTyped'
    <3>1. After(c) \subseteq Terms /\ (outside \cup c.excludes) \ c.includes \subseteq Lines
      BY <2>2 DEF After, ScopeTyped
    <3>2. Switched(r) \in [Things -> Seq({"added", "removed"})]
      BY <2>2, SwitchedRows
    <3> QED
      BY <2>1, <2>3, <2>4, <2>6, <3>1, <3>2, DoneTyped DEF ScopeTyped
  <2>8. RowsAreSound' /\ OneWaits'
    <3>1. \A q \in Requests : q # r => request'[q].status # "pending"
      BY <2>2, <2>3 DEF OneWaits
    <3>2. OneWaits'
      BY <2>3, <3>1 DEF OneWaits
    <3>3. p # None
      BY ScopeChangeAssumption
    <3> QED
      BY <2>3, <3>2, <3>3 DEF RowsAreSound
  <2>9. DecidersHold' /\ OneDecides'
    BY <2>4, <2>5 DEF DecidersHold, OneDecides, Idle
  <2>10. ItemsAreApproved'
    BY <2>1, <2>3 DEF ItemsAreApproved
  <2>11. \A x \in Requests : request[x].status = "approved" => request'[x].status = "approved"
    BY <2>3
  <2>12. ChangesAreUnmixed'
    <3>1. \A q \in Requests : request'[q].status # "pending"
      BY <2>2, <2>3 DEF OneWaits
    <3> QED
      BY <2>1, <2>11, <3>1 DEF ChangesAreUnmixed, Unmixed
  <2>13. HistoryRebuildsScope'
    <3>1. \A x \in Things : ledger[x] \in Seq({"added", "removed"})
      BY DEF ScopeTyped
    <3>2. /\ Terms \subseteq Things /\ Lines \subseteq Things /\ Requests \subseteq Things
          /\ c.adds \subseteq Terms /\ c.removes \subseteq Terms /\ c.adds \cap c.removes = {}
          /\ c.excludes \cap c.includes = {} /\ c.excludes \subseteq Lines /\ outside \subseteq Lines
      BY <2>2 DEF Things, Unmixed, ScopeTyped
    <3>3. ASSUME NEW t \in Terms
          PROVE  /\ t \in footprint' <=> LastIs(t, "added")'
                 /\ \A i \in 2..Len(ledger'[t]) : ledger'[t][i] # ledger'[t][i - 1]
      <4>1. /\ t \in footprint <=> LastIs(t, "added")
            /\ \A i \in 2..Len(ledger[t]) : ledger[t][i] # ledger[t][i - 1]
            /\ ledger[t] \in Seq({"added", "removed"})
        BY <3>1, <3>2 DEF HistoryRebuildsScope
      <4>2. t \in footprint' <=> (t \in footprint \/ t \in c.adds) /\ t \notin c.removes
        BY <2>1 DEF After
      <4>3. CASE t \in c.adds \ footprint
        <5>1. ledger'[t] = Append(ledger[t], "added")
          BY <2>1, <2>2, <4>3, SwitchedRows
        <5> QED
          BY <3>2, <4>1, <4>2, <4>3, <5>1, LedgerGrows DEF LastIs
      <4>4. CASE t \in c.removes \cap footprint
        <5>1. ledger'[t] = Append(ledger[t], "removed")
          BY <2>1, <2>2, <3>2, <4>4, SwitchedRows
        <5>2. ~(ledger[t] # <<>> /\ ledger[t][Len(ledger[t])] = "removed")
          BY <4>1, <4>4 DEF LastIs
        <5> QED
          BY <3>2, <4>1, <4>2, <4>4, <5>1, <5>2, LedgerGrows DEF LastIs
      <4>5. CASE t \notin c.adds \ footprint /\ t \notin c.removes \cap footprint
        <5>1. ledger'[t] = ledger[t]
          BY <2>1, <2>2, <4>5, SwitchedRows
        <5> QED
          BY <3>2, <4>1, <4>2, <4>5, <5>1 DEF LastIs
      <4> QED
        BY <4>3, <4>4, <4>5
    <3>4. ASSUME NEW l \in Lines
          PROVE  /\ l \in outside' <=> LastIs(l, "removed")'
                 /\ \A i \in 2..Len(ledger'[l]) : ledger'[l][i] # ledger'[l][i - 1]
      <4>1. /\ l \in outside <=> LastIs(l, "removed")
            /\ \A i \in 2..Len(ledger[l]) : ledger[l][i] # ledger[l][i - 1]
            /\ ledger[l] \in Seq({"added", "removed"})
        BY <3>1, <3>2 DEF HistoryRebuildsScope
      <4>2. l \in outside' <=> (l \in outside \/ l \in c.excludes) /\ l \notin c.includes
        BY <2>1
      <4>3. CASE l \in c.includes \cap outside
        <5>1. ledger'[l] = Append(ledger[l], "added")
          BY <2>1, <2>2, <4>3, SwitchedRows
        <5>2. ~(ledger[l] # <<>> /\ ledger[l][Len(ledger[l])] = "added")
          BY <4>1, <4>3 DEF LastIs
        <5> QED
          BY <3>2, <4>1, <4>2, <4>3, <5>1, <5>2, LedgerGrows DEF LastIs
      <4>4. CASE l \in c.excludes \ outside
        <5>1. ledger'[l] = Append(ledger[l], "removed")
          BY <2>1, <2>2, <3>2, <4>4, SwitchedRows
        <5> QED
          BY SMTT(30), <3>2, <4>1, <4>2, <4>4, <5>1, LedgerGrows DEF LastIs
      <4>5. CASE l \notin c.includes \cap outside /\ l \notin c.excludes \ outside
        <5>1. ledger'[l] = ledger[l]
          BY <2>1, <2>2, <4>5, SwitchedRows
        <5> QED
          BY <3>2, <4>1, <4>2, <4>5, <5>1 DEF LastIs
      <4> QED
        BY <4>3, <4>4, <4>5
    <3>5. ASSUME NEW x \in Requests PROVE (x \in ItemsIn)' <=> LastIs(x, "added")'
      <4>1. (item[x] = "in_scope" <=> LastIs(x, "added")) /\ ledger[x] \in Seq({"added", "removed"})
        BY <3>1, <3>2 DEF HistoryRebuildsScope, ItemsIn
      <4>2. x = r => x \notin c.itemRemoves
        BY <2>2 DEF Unmixed
      <4>3. (x \in ItemsIn)' <=> item'[x] = "in_scope"
        BY DEF ItemsIn
      <4>4. CASE x = r /\ AddsItem(c)
        <5>1. item'[x] = "in_scope"
          BY <2>1, <4>2, <4>4
        <5>2. Switched(r)[x] = IF x = r /\ AddsItem(c) THEN Append(ledger[x], "added")
                               ELSE IF x \in c.itemRemoves
                               THEN Append(ledger[x], "removed") ELSE ledger[x]
          BY <2>2, SwitchedRows
        <5>3. ledger'[x] = Append(ledger[x], "added")
          BY <2>1, <4>4, <5>2
        <5> QED
          BY <4>1, <4>3, <5>1, <5>3, LedgerGrows DEF LastIs
      <4>5. CASE ~(x = r /\ AddsItem(c)) /\ x \in c.itemRemoves
        <5>1. ledger'[x] = Append(ledger[x], "removed") /\ item'[x] = "removed"
          BY <2>1, <2>2, <4>5, SwitchedRows
        <5> QED
          BY <4>1, <4>3, <5>1, LedgerGrows DEF LastIs
      <4>6. CASE ~(x = r /\ AddsItem(c)) /\ x \notin c.itemRemoves
        <5>1. ledger'[x] = ledger[x] /\ item'[x] = item[x]
          BY <2>1, <2>2, <4>6, SwitchedRows
        <5> QED
          BY <4>1, <4>3, <5>1 DEF LastIs
      <4> QED
        BY <4>4, <4>5, <4>6
    <3> QED
      BY <3>3, <3>4, <3>5 DEF HistoryRebuildsScope
  <2> QED
    BY <2>7, <2>8, <2>9, <2>10, <2>12, <2>13
<1>6. ASSUME NEW p \in People, TurnDown(p) PROVE ScopeInv'
  <2> DEFINE r == deciding[p].of
             verb == deciding[p].verb
             c == request[r].change
  <2>1. /\ deciding[p] # Idle /\ verb \in {"rejected", "withdrawn"}
        /\ item' = IF item[r] = "requested" THEN [item EXCEPT ![r] = "declined"] ELSE item
        /\ Done(p) /\ deciding' = [deciding EXCEPT ![p] = Idle]
        /\ UNCHANGED <<footprint, outside, ledger, draft, listed>>
    BY <1>6 DEF TurnDown, Decide, Idle, Done
  <2>2. r \in Requests /\ request[r].status = "pending" /\ c \in Changes
    BY <1>6, DecisionLands
  <2>3. /\ request' \in [Requests -> RequestRecords]
        /\ request'[r].status = verb
        /\ request'[r].decidedBy = IF verb = "withdrawn" THEN None ELSE p
        /\ \A q \in Requests : q # r => request'[q] = request[q]
    BY <1>6, DecisionLands
  <2>4. /\ deciding' \in [People -> [of : Requests \cup {None}, verb : Verbs \cup {"none"}]]
        /\ deciding'[p] = Idle /\ \A q \in People : q # p => deciding'[q] = deciding[q]
    BY <2>1 DEF ScopeTyped, Idle
  <2>5. \A q \in People : q # p => deciding[q] = Idle
    BY <2>1, OneActs
  <2>6. /\ item' \in [Requests -> {"none", "requested", "in_scope", "removed", "declined"}]
        /\ \A q \in Requests : item'[q] = "in_scope" <=> item[q] = "in_scope"
    BY <2>1, <2>2 DEF ScopeTyped
  <2>7. ScopeTyped'
    BY <2>1, <2>3, <2>4, <2>6, DoneTyped DEF ScopeTyped
  <2>8. RowsAreSound' /\ OneWaits'
    <3>1. request'[r].decidedBy = None <=> verb = "withdrawn"
      BY <2>3, ScopeChangeAssumption
    <3>2. RowsAreSound'
      BY <2>1, <2>3, <3>1 DEF RowsAreSound
    <3>3. OneWaits'
      BY <2>1, <2>3 DEF OneWaits
    <3> QED
      BY <3>2, <3>3
  <2>9. DecidersHold' /\ OneDecides'
    BY <2>4, <2>5 DEF DecidersHold, OneDecides, Idle
  <2>10. ItemsAreApproved'
    BY <2>2, <2>3, <2>6 DEF ItemsAreApproved
  <2>11. \A x \in Requests : request[x].status = "approved" => request'[x].status = "approved"
    BY <2>2, <2>3
  <2>12. ChangesAreUnmixed'
    <3>1. \A q \in Requests : request'[q].status # "pending"
      BY <2>1, <2>2, <2>3 DEF OneWaits
    <3> QED
      BY <2>1, <2>11, <3>1 DEF ChangesAreUnmixed, Unmixed
  <2>13. HistoryRebuildsScope'
    BY <2>1, <2>6, HistoryKept DEF ItemsIn
  <2> QED
    BY <2>7, <2>8, <2>9, <2>10, <2>12, <2>13
<1>7. ASSUME NEW p \in People, GiveUp(p) PROVE ScopeInv'
  <2>1. /\ Done(p) /\ deciding' = [deciding EXCEPT ![p] = Idle]
        /\ UNCHANGED <<request, scope, draft, listed>>
    BY <1>7 DEF GiveUp, Done
  <2>2. ChangesAreUnmixed' /\ HistoryRebuildsScope'
    BY <2>1, HistoryKept DEF ChangesAreUnmixed, Unmixed, ItemsIn
  <2>3. ScopeTyped' /\ RowsAreSound' /\ OneWaits' /\ ItemsAreApproved' /\ DecidersHold' /\ OneDecides'
    BY <2>1, DoneTyped DEF ScopeTyped, RowsAreSound, OneWaits, ItemsAreApproved, DecidersHold,
       OneDecides, Idle
  <2> QED
    BY <2>2, <2>3
<1>8. ASSUME NEW record \in MayMove, Move(record) PROVE ScopeInv'
  <2>1. listed' \subseteq Records
    BY <1>8 DEF Move, ScopeTyped
  <2>2. stood' \in [People -> SUBSET SUBSET Records]
    BY <1>8, <2>1 DEF Move, ScopeTyped
  <2> QED
    BY <1>8, <2>1, <2>2, ScopeSame DEF Move, ScopeTyped
<1>9. ASSUME NEW p \in People, Count(p) PROVE ScopeInv'
  <2>1. /\ counted' = [counted EXCEPT ![p] = PreviewOf(request[deciding[p].of].change)]
        /\ UNCHANGED <<request, scope, draft, deciding, listed, stood>>
    BY <1>9 DEF Count, Recounted
  <2>2. PreviewOf(request[deciding[p].of].change) \in Previews
    BY PreviewCountsRecords DEF ScopeTyped
  <2> QED
    BY <2>1, <2>2, ScopeSame DEF ScopeTyped
<1>10. CASE UNCHANGED vars
  BY <1>10, ScopeSame DEF vars, counting, ScopeTyped
<1> QED
  BY <1>1, <1>2, <1>3, <1>4, <1>5, <1>6, <1>7, <1>8, <1>9, <1>10 DEF Next, Verbs
\* Every reachable state has one request waiting at most, and one person deciding it.
THEOREM ScopeInvariant == Spec => []ScopeInv
<1>1. Init => ScopeInv
  <2> SUFFICES ASSUME Init PROVE ScopeInv
    OBVIOUS
  <2>1. NoRequest \in RequestRecords /\ Idle \in [of : Requests \cup {None}, verb : Verbs \cup {"none"}]
    BY DEF NoRequest, RequestRecords, NoPreview, Previews, Idle, Verbs
  <2>2. \A x \in Things : ledger[x] = IF x \in StartFootprint THEN <<"added">> ELSE <<>>
    BY DEF Init
  <2>3. /\ Terms \subseteq Things /\ Lines \subseteq Things /\ Requests \subseteq Things
        /\ StartFootprint \subseteq Terms /\ Terms \cap Lines = {} /\ Terms \cap Requests = {}
    BY ScopeChangeAssumption DEF Things
  <2>4. <<"added">> \in Seq({"added", "removed"}) /\ <<>> \in Seq({"added", "removed"})
    OBVIOUS
  <2>5. ledger \in [Things -> Seq({"added", "removed"})]
    BY <2>4 DEF Init
  <2>6. ScopeTyped
    BY <2>1, <2>3, <2>5, ScopeChangeAssumption DEF Init, ScopeTyped
  <2>7. RowsAreSound /\ OneWaits /\ DecidersHold /\ OneDecides /\ ItemsAreApproved /\ ChangesAreUnmixed
    BY <2>1 DEF Init, RowsAreSound, OneWaits, DecidersHold, OneDecides, ItemsAreApproved,
       ChangesAreUnmixed, NoRequest, Idle
  <2>8. \A x \in Things : /\ LastIs(x, "added") <=> x \in StartFootprint
                          /\ ~LastIs(x, "removed") /\ Len(ledger[x]) \in {0, 1}
    BY <2>2 DEF LastIs
  <2>9. HistoryRebuildsScope
    BY <2>3, <2>8 DEF HistoryRebuildsScope, Init, ItemsIn
  <2> QED
    BY <2>6, <2>7, <2>9 DEF ScopeInv
<1> QED
  BY <1>1, ScopeStep, PTL DEF Spec

\* apps/taxonomy/footprint_logic.py, _apply_change: the history rows replayed give the
\* scope as it stands, for any terms, lines and requests and any mix of decisions.
THEOREM HistoryIsTheScope == Spec => []HistoryRebuildsScope
  BY ScopeInvariant, PTL DEF ScopeInv

\* A decision that is not counted yet has what is listed among what stood since its lock;
\* one that is counted was asked by somebody else, unless it withdraws, and its counts are of
\* records that stood since the lock, against the scope as it is.
NotYetCounted(p) == deciding[p] # Idle /\ counted[p] = Uncounted
CountStands(p) ==
  LET asked == request[deciding[p].of]
  IN  /\ deciding[p] # Idle
      /\ deciding[p].verb # "withdrawn" => asked.by # p
      /\ \E records \in stood[p] : counted[p] = Difference(records, footprint, After(asked.change))
CountsAreTimely ==
  \A p \in People : /\ NotYetCounted(p) => listed \in stood[p]
                    /\ counted[p] # Uncounted => CountStands(p)

\* A step that leaves this person's decision, its counts and the scope alone.
LEMMA CountStill ==
  ASSUME CountsAreTimely, NEW p \in People, deciding'[p] = deciding[p],
         counted'[p] = counted[p], stood[p] \subseteq stood'[p],
         NotYetCounted(p) => listed' \in stood'[p], UNCHANGED footprint,
         deciding[p] # Idle => request'[deciding[p].of] = request[deciding[p].of]
  PROVE  /\ NotYetCounted(p)' => listed' \in stood'[p]
         /\ counted'[p] # Uncounted => CountStands(p)'
<1>1. counted[p] # Uncounted => CountStands(p)
  BY DEF CountsAreTimely
<1>2. NotYetCounted(p)' <=> NotYetCounted(p)
  BY DEF NotYetCounted
<1>3. ASSUME CountStands(p) PROVE CountStands(p)'
  <2> DEFINE asked == request[deciding[p].of]
  <2>1. PICK records \in stood[p] : counted[p] = Difference(records, footprint, After(asked.change))
    BY <1>3 DEF CountStands
  <2>2. deciding[p] # Idle /\ (deciding[p].verb # "withdrawn" => asked.by # p)
    BY <1>3 DEF CountStands
  <2>3. request'[deciding'[p].of] = asked /\ records \in stood'[p]
    BY <2>1, <2>2
  <2>4. Difference(records, footprint, After(asked.change)) =
          Difference(records, footprint', (footprint' \cup asked.change.adds) \ asked.change.removes)
    BY DEF After
  <2>5. counted'[p] = Difference(records, footprint',
                        (footprint' \cup request'[deciding'[p].of].change.adds)
                           \ request'[deciding'[p].of].change.removes)
    BY <2>1, <2>3, <2>4
  <2> QED
    BY <2>2, <2>3, <2>5 DEF CountStands, After, Difference, Seen
<1> QED
  BY <1>1, <1>2, <1>3

\* Counting is against what is listed then; and whoever commits was the only one deciding.
LEMMA CountsStep == ScopeInv /\ CountsAreTimely /\ [Next]_vars => CountsAreTimely'
<1> SUFFICES ASSUME ScopeInv, CountsAreTimely, [Next]_vars, NEW p \in People
             PROVE  /\ NotYetCounted(p)' => listed' \in stood'[p]
                    /\ counted'[p] # Uncounted => CountStands(p)'
  BY DEF CountsAreTimely
<1>t. ScopeTyped
  BY DEF ScopeInv
<1>1. CASE UNCHANGED <<request, footprint, deciding, counting>>
  BY <1>1, CountStill DEF counting, CountsAreTimely
<1>2. ASSUME NEW q \in People, NEW r \in Requests, CreateRequest(q, r), ~Waiting
      PROVE  /\ NotYetCounted(p)' => listed' \in stood'[p]
             /\ counted'[p] # Uncounted => CountStands(p)'
  <2>1. /\ request[r] = NoRequest
        /\ \E v : request' = [request EXCEPT ![r] = v]
        /\ UNCHANGED <<footprint, deciding, counting>>
    BY <1>2 DEF CreateRequest
  <2>2. \A x \in Requests : x # r => request'[x] = request[x]
    BY <1>t, <2>1 DEF ScopeTyped
  <2>3. deciding[p] # Idle => deciding[p].of \in Requests /\ deciding[p].of # r
    BY <2>1 DEF ScopeInv, DecidersHold, NoRequest
  <2> QED
    BY <2>1, <2>2, <2>3, CountStill DEF counting, CountsAreTimely
<1>3. ASSUME NEW q \in People, NEW r \in Requests, NEW verb \in Verbs, Decidable(q, r, verb)
      PROVE  /\ NotYetCounted(p)' => listed' \in stood'[p]
             /\ counted'[p] # Uncounted => CountStands(p)'
  <2>1. /\ deciding[q] = Idle /\ deciding' = [deciding EXCEPT ![q] = [of |-> r, verb |-> verb]]
        /\ stood' = [stood EXCEPT ![q] = {listed}]
        /\ UNCHANGED <<request, footprint, listed, counted>>
    BY <1>3 DEF Decidable, Undecided, scope
  <2>2. CASE p = q
    <3>1. counted[p] = Uncounted
      BY <2>1, <2>2 DEF CountsAreTimely, CountStands
    <3> QED
      BY <1>t, <2>1, <2>2, <3>1 DEF ScopeTyped
  <2>3. CASE p # q
    BY <1>t, <2>1, <2>3, CountStill DEF ScopeTyped, CountsAreTimely
  <2> QED
    BY <2>2, <2>3
<1>4. ASSUME NEW record \in MayMove, Move(record)
      PROVE  /\ NotYetCounted(p)' => listed' \in stood'[p]
             /\ counted'[p] # Uncounted => CountStands(p)'
  <2>1. stood'[p] = IF NotYetCounted(p) THEN stood[p] \cup {listed'} ELSE stood[p]
    BY <1>4 DEF Move, NotYetCounted
  <2>2. stood[p] \subseteq stood'[p] /\ (NotYetCounted(p) => listed' \in stood'[p])
    BY <2>1
  <2>3. UNCHANGED <<request, footprint, deciding, counted>>
    BY <1>4 DEF Move, scope
  <2> QED
    BY <2>2, <2>3, CountStill
<1>5. ASSUME NEW q \in People, Count(q)
      PROVE  /\ NotYetCounted(p)' => listed' \in stood'[p]
             /\ counted'[p] # Uncounted => CountStands(p)'
  <2>1. /\ deciding[q] # Idle /\ counted[q] = Uncounted
        /\ deciding[q].verb # "withdrawn" => request[deciding[q].of].by # q
        /\ counted' = [counted EXCEPT ![q] = Difference(listed, footprint, After(request[deciding[q].of].change))]
        /\ UNCHANGED <<request, footprint, deciding, listed, stood>>
    BY <1>5 DEF Count, Recounted, PreviewOf, scope
  <2>2. CASE p = q
    <3>1. listed \in stood[p]
      BY <2>1, <2>2 DEF CountsAreTimely, NotYetCounted
    <3>2. counted'[p] = Difference(listed, footprint, After(request[deciding[p].of].change))
      BY <1>t, <2>1, <2>2 DEF ScopeTyped
    <3> QED
      BY <2>1, <2>2, <3>1, <3>2 DEF CountStands, NotYetCounted, Difference, Seen, After
  <2>3. CASE p # q
    BY <1>t, <2>1, <2>3, CountStill DEF ScopeTyped, CountsAreTimely
  <2> QED
    BY <2>2, <2>3
<1>6. ASSUME NEW q \in People, Approve(q) \/ TurnDown(q) \/ GiveUp(q)
      PROVE  /\ NotYetCounted(p)' => listed' \in stood'[p]
             /\ counted'[p] # Uncounted => CountStands(p)'
  <2>1. deciding[q] # Idle /\ Done(q)
    <3>1. CASE Approve(q)
      BY <3>1 DEF Approve, Decide, Idle
    <3>2. CASE TurnDown(q)
      BY <3>2 DEF TurnDown, Decide, Idle
    <3>3. CASE GiveUp(q)
      BY <3>3 DEF GiveUp
    <3> QED
      BY <1>6, <3>1, <3>2, <3>3
  <2>2. \A u \in People : u # q => deciding[u] = Idle
    BY <2>1, OneActs
  <2>3. \A u \in People : u # q => counted[u] = Uncounted
    BY <2>2 DEF CountsAreTimely, CountStands
  <2>4. deciding'[p] = Idle /\ counted'[p] = Uncounted
    BY <1>t, <2>1, <2>2, <2>3 DEF Done, ScopeTyped
  <2> QED
    BY <2>4 DEF NotYetCounted
<1>7. ASSUME NEW q \in People, NEW r \in Requests, CreateRequest(q, r), Waiting
      PROVE  UNCHANGED <<request, footprint, deciding, counting>>
  BY <1>7 DEF CreateRequest
<1>8. ASSUME \/ UNCHANGED vars
             \/ \E x \in MayRetire : Retire(x)
             \/ \E q \in People, c \in Changes : Validate(q, c)
      PROVE  UNCHANGED <<request, footprint, deciding, counting>>
  BY <1>8 DEF vars, scope, Retire, Validate
<1> QED
  BY <1>1, <1>2, <1>3, <1>4, <1>5, <1>6, <1>7, <1>8 DEF Next, Verbs

\* Every decision under way counts what there is, against the scope there is.
THEOREM CountsInvariant == Spec => []CountsAreTimely
<1>1. Init => CountsAreTimely
  BY DEF Init, CountsAreTimely, NotYetCounted
<1> QED
  BY <1>1, CountsStep, ScopeInvariant, PTL DEF Spec

\* footprint_logic.py, _decide: a decided request shows what its decision hides and reveals
\* of records that were there while it was taken, for any records that come and leave.
THEOREM DecisionsCountToday == Spec => DecidedOnTodaysCounts
<1> DEFINE Shown(r) == \E p \in People : \E records \in stood[p] :
             /\ deciding[p].of = r
             /\ request'[r].preview =
                  Difference(records, footprint,
                    IF request'[r].status = "approved" THEN footprint' ELSE After(request[r].change))
           Shows == \A r \in Requests :
             request[r].status = "pending" /\ request'[r].status # "pending" => Shown(r)
<1>1. ASSUME ScopeInv, CountsAreTimely, [Next]_vars PROVE Shows
  <2> SUFFICES ASSUME NEW r \in Requests, request[r].status = "pending", request'[r].status # "pending"
               PROVE  Shown(r)
    OBVIOUS
  <2>1. request' # request
    OBVIOUS
  <2>2. ASSUME NEW p \in People, NEW q \in Requests, CreateRequest(p, q) PROVE FALSE
    <3>1. \/ request' = request
          \/ ~Waiting
      BY <2>2 DEF CreateRequest
    <3> QED
      BY <2>1, <3>1 DEF Waiting
  <2>3. ASSUME NEW p \in People, Approve(p) \/ TurnDown(p) PROVE Shown(r)
    <3>1. /\ r = deciding[p].of /\ request'[r].status = deciding[p].verb
          /\ request'[r].preview = counted[p] /\ counted[p] # Uncounted
      BY <1>1, <2>3, DecisionLands
    <3>2. PICK records \in stood[p] :
            counted[p] = Difference(records, footprint, After(request[r].change))
      BY <1>1, <3>1 DEF CountsAreTimely, CountStands
    <3>3. deciding[p].verb = "approved" => footprint' = After(request[r].change)
      BY <2>3, <3>1 DEF Approve, TurnDown
    <3> QED
      BY <3>1, <3>2, <3>3
  <2> QED
    BY <1>1, <2>1, <2>2, <2>3 DEF Next, vars, Retire, Validate, Decidable, GiveUp, Move, Count
<1> QED
  BY <1>1, ScopeInvariant, CountsInvariant, PTL DEF Spec, DecidedOnTodaysCounts

\* Each decision keeps the scope it was taken on.
Bases == (SUBSET Terms) \X (SUBSET Lines) \X (SUBSET Requests)
BasesKept == basis \in [Requests -> Bases]
LEMMA ScopeIsABasis == ASSUME ScopeInv PROVE Scope \in Bases
  BY DEF ScopeInv, ScopeTyped, Scope, Bases, ItemsIn

\* What one step does to one request, in the words of the abstract control.
LEMMA RequestKeepsFourEyes ==
  ASSUME ScopeInv, ScopeInv', CountsAreTimely, BasesKept, [Next]_vars, NEW r \in Requests
  PROVE  UNCHANGED Eyes(r)!eyes \/ Eyes(r)!Next
<1>1. CASE UNCHANGED <<request, scope, basis>>
  BY <1>1 DEF scope, Scope, ItemsIn, Eyes!eyes
<1>2. ASSUME NEW p \in People, NEW q \in Requests, CreateRequest(p, q)
      PROVE  UNCHANGED Eyes(r)!eyes \/ Eyes(r)!Next
  <2>1. CASE Waiting
    BY <1>1, <1>2, <2>1 DEF CreateRequest, scope
  <2>2. CASE ~Waiting
    <3> DEFINE asks == [status |-> "pending", by |-> p, decidedBy |-> None, change |-> draft[p],
                        preview |-> PreviewOf(draft[p])]
    <3>1. /\ request[q] = NoRequest /\ request' = [request EXCEPT ![q] = asks]
          /\ item' = IF AddsItem(draft[p]) THEN [item EXCEPT ![q] = "requested"] ELSE item
          /\ UNCHANGED <<footprint, outside, basis>>
      BY <1>2, <2>2 DEF CreateRequest
    <3> HIDE DEF asks
    <3>2. request'[q] = asks /\ \A x \in Requests : x # q => request'[x] = request[x]
      BY <3>1 DEF ScopeInv, ScopeTyped
    <3>3. ItemsIn' = ItemsIn
      <4>1. item[q] # "in_scope"
        BY <3>1 DEF ScopeInv, ItemsAreApproved, NoRequest
      <4>2. \A x \in Requests : item'[x] = "in_scope" <=> item[x] = "in_scope"
        BY <3>1, <4>1 DEF ScopeInv, ScopeTyped
      <4> QED
        BY <4>2 DEF ItemsIn
    <3>4. Scope' = Scope
      BY <3>1, <3>3 DEF Scope
    <3>5. CASE r # q
      BY <3>1, <3>2, <3>4, <3>5 DEF Eyes!eyes
    <3>6. CASE r = q
      <4>1. asks.by = p /\ asks.status = "pending" /\ asks.decidedBy = None
        BY DEF asks
      <4>2. Eyes(r)!Ask(p)
        BY <3>1, <3>2, <3>4, <3>6, <4>1 DEF Eyes!Ask, NoRequest
      <4> QED
        BY <4>2 DEF Eyes!Next
    <3> QED
      BY <3>5, <3>6
  <2> QED
    BY <2>1, <2>2
<1>3. ASSUME NEW p \in People, Approve(p) \/ TurnDown(p)
      PROVE  UNCHANGED Eyes(r)!eyes \/ Eyes(r)!Next
  <2> DEFINE d == deciding[p].of
             verb == deciding[p].verb
  <2>1. /\ d \in Requests /\ verb \in Verbs /\ request[d].status = "pending"
        /\ request[d].by \in People /\ request[d].decidedBy = None
        /\ request'[d].status = verb /\ request'[d].by = request[d].by
        /\ request'[d].decidedBy = IF verb = "withdrawn" THEN None ELSE p
        /\ \A q \in Requests : q # d => request'[q] = request[q]
    BY <1>3, DecisionLands DEF ScopeInv, RowsAreSound
  <2>2. basis' = [basis EXCEPT ![d] = Scope]
    BY <1>3 DEF Approve, TurnDown, Decide
  <2>3. basis'[d] = Scope /\ \A q \in Requests : q # d => basis'[q] = basis[q]
    BY <2>1, <2>2 DEF BasesKept
  <2>4. verb # "withdrawn" => request[d].by # p
    BY <1>3, DecisionLands DEF CountsAreTimely, CountStands
  <2>5. None \notin People
    BY ScopeChangeAssumption
  <2>6. Scope' \in Bases
    BY ScopeIsABasis DEF ScopeInv, ScopeTyped, Scope, Bases, ItemsIn
  <2>7. CASE r = d /\ verb # "withdrawn"
    <3>1. Eyes(r)!Decide(p)
      BY <2>1, <2>3, <2>4, <2>5, <2>7 DEF Eyes!Decide, Eyes!Undecided
    <3> QED
      BY <3>1 DEF Eyes!Next
  <2>8. CASE verb = "withdrawn"
    <3>1. TurnDown(p)
      BY <1>3, <2>8 DEF Approve
    <3>2. \A x \in Requests : item'[x] = "in_scope" <=> item[x] = "in_scope"
      BY <2>1, <3>1 DEF TurnDown, Decide, ScopeInv, ScopeTyped
    <3>3. Scope' = Scope
      BY <3>1, <3>2 DEF TurnDown, Scope, ItemsIn
    <3>4. CASE r = d
      <4>1. Eyes(r)!TakeBack
        BY <2>1, <2>3, <2>5, <2>8, <3>3, <3>4 DEF Eyes!TakeBack, Eyes!Undecided
      <4> QED
        BY <4>1 DEF Eyes!Next
    <3>5. CASE r # d
      BY <2>1, <2>3, <3>3, <3>5 DEF Eyes!eyes
    <3> QED
      BY <3>4, <3>5
  <2>9. CASE r # d
    <3>1. CASE request[r].decidedBy # None
      BY <2>1, <2>3, <2>9, <3>1 DEF Eyes!eyes
    <3>2. CASE request[r].decidedBy = None
      <4>1. request[r].status = "withdrawn" \/ request[r].by = None
        BY <2>1, <2>9, <3>2 DEF ScopeInv, RowsAreSound, OneWaits, NoRequest
      <4>2. Eyes(r)!Work(Scope')
        BY <2>1, <2>9, <3>2, <4>1 DEF Eyes!Work
      <4> QED
        BY <2>6, <4>2 DEF Eyes!Next, Bases
    <3> QED
      BY <3>1, <3>2
  <2> QED
    BY <2>7, <2>8, <2>9
<1> QED
  BY <1>1, <1>2, <1>3 DEF Next, vars, scope, Retire, Validate, Decidable, GiveUp, Move, Count

\* footprint_logic.py, create_request, _decidable and approve_request: every request is a
\* four-eyes control over the scope it was asked about.
THEOREM RequestsAreFourEyes == Spec => EachIsFourEyes
<1>1. Init => \A r \in Requests : Eyes(r)!Init
  <2> SUFFICES ASSUME Init, NEW r \in Requests PROVE Eyes(r)!Init
    OBVIOUS
  <2>1. Scope \in Bases
    BY ScopeChangeAssumption DEF Init, Scope, Bases, ItemsIn
  <2> QED
    BY <2>1 DEF Init, NoRequest, Eyes!Init, Eyes!Undecided, Bases
<1>2. Init => BasesKept
  BY ScopeChangeAssumption DEF Init, BasesKept, Bases, Scope, ItemsIn
<1>3. ScopeInv /\ BasesKept /\ [Next]_vars => BasesKept'
  <2> SUFFICES ASSUME ScopeInv, BasesKept, [Next]_vars PROVE BasesKept'
    OBVIOUS
  <2>1. basis' = basis \/ \E r : basis' = [basis EXCEPT ![r] = Scope]
    BY DEF Next, vars, Retire, Move, Validate, CreateRequest, Decidable, Count, Approve, TurnDown,
       Decide, GiveUp
  <2> QED
    BY <2>1, ScopeIsABasis DEF BasesKept
<1> DEFINE Keeps == \A r \in Requests : UNCHANGED Eyes(r)!eyes \/ Eyes(r)!Next
<1>4. ScopeInv /\ ScopeInv' /\ CountsAreTimely /\ BasesKept /\ [Next]_vars => Keeps
  BY RequestKeepsFourEyes
<1> QED
  BY <1>1, <1>2, <1>3, <1>4, ScopeInvariant, CountsInvariant, PTL DEF Spec, EachIsFourEyes

-----------------------------------------------------------------------------
(***************************************************************************)
(* The register.  A call that is about to commit holds the lock of every   *)
(* entry it writes under, so no other call starts a series on the same     *)
(* target between its look and its commit; and within a series what is     *)
(* done lies before what is open.                                          *)
(***************************************************************************)
CallRecords == [at : {"idle", "locking", "inserting", "reading back", "committing"},
                targets : SUBSET Targets, value : {"", "applies", "not_applicable"}, named : Int,
                todo : SUBSET Obligations, on : Nat, first : SUBSET Targets]
Series == [open : SUBSET Nat, done : SUBSET Nat]

RegTyped ==
  /\ duty \in [Obligations -> {"none", "active", "retired"}]
  /\ occurrence \in [Targets -> Series]
  /\ day \in Nat
  /\ entryLock \in [Obligations -> Officers \cup {Unlocked}]
  /\ answering \in [Officers -> CallRecords]

\* A call holds the entries it is not about to lock, and all of them when it commits.
HoldsItsEntries ==
  \A u \in Officers :
    /\ answering[u].at = "reading back" =>
         About(answering[u].targets) \subseteq Holds(u) \cup answering[u].todo
    /\ answering[u].at = "committing" => About(answering[u].targets) \subseteq Holds(u)
StartsOnce ==
  \A u \in Officers :
    /\ answering[u].first \subseteq answering[u].targets
    /\ answering[u].at # "committing" => answering[u].first = {}
    /\ answering[u].first # {} => answering[u].on <= LastDue
    /\ \A t \in answering[u].first : NeverScheduled(t) /\ duty[t[1]] # "none"
\* A series has one open date, past what is done; it ends with its duty or its rule.
Sound(series, itsDuty) ==
  /\ \A d, e \in series.open : d = e
  /\ \A d \in series.open : d <= LastDue /\ \A e \in series.done : e < d
  /\ series.open \cup series.done # {} => itsDuty # "none"
  /\ series.open = {} /\ series.done # {} => itsDuty = "retired" \/ LastDue \in series.done
OneSeries == \A t \in Targets : Sound(occurrence[t], duty[t[1]])

RegInv == RegTyped /\ HoldsItsEntries /\ StartsOnce /\ OneSeries

LEMMA OneAtMost == ASSUME NEW S, \A d, e \in S : d = e PROVE Cardinality(S) <= 1
<1>1. CASE S = {}
  BY <1>1, FS_EmptySet
<1>2. CASE S # {}
  <2>1. PICK d \in S : TRUE
    BY <1>2
  <2>2. S = {d}
    BY <2>1
  <2>3. Cardinality({d}) = 1
    BY FS_Singleton
  <2> QED
    BY <2>2, <2>3
<1> QED
  BY <1>1, <1>2

\* A call at rest, or one that has decided nothing yet.
LEMMA FreshCalls ==
  /\ NoAnswer \in CallRecords /\ NoAnswer.at = "idle" /\ NoAnswer.first = {} /\ NoAnswer.todo = {}
  /\ \A T \in SUBSET Targets : About(T) \subseteq Obligations
  BY DEF NoAnswer, CallRecords, AnyVersion, About, Targets

\* What keeps the calls and their locks in order while the series stand still.
CallsInOrder ==
  /\ answering \in [Officers -> CallRecords]
  /\ entryLock \in [Obligations -> Officers \cup {Unlocked}]
  /\ HoldsItsEntries /\ StartsOnce
LEMMA SeriesStand ==
  ASSUME RegInv, CallsInOrder', UNCHANGED <<duty, occurrence, day>>
  PROVE  RegInv'
  BY DEF RegInv, CallsInOrder, RegTyped, OneSeries

\* A call that ends gives back its locks and no one else's.
LEMMA CallEnds ==
  ASSUME RegInv, NEW u \in Officers, answering' = [answering EXCEPT ![u] = NoAnswer], Unlock(u)
  PROVE  /\ answering' \in [Officers -> CallRecords] /\ answering'[u] = NoAnswer
         /\ \A v \in Officers : v # u => answering'[v] = answering[v]
         /\ entryLock' \in [Obligations -> Officers \cup {Unlocked}]
         /\ HoldsItsEntries'
<1>1. /\ answering' \in [Officers -> CallRecords] /\ answering'[u] = NoAnswer
      /\ \A v \in Officers : v # u => answering'[v] = answering[v]
  BY FreshCalls DEF RegInv, RegTyped
<1>2. entryLock' \in [Obligations -> Officers \cup {Unlocked}]
  BY DEF Unlock, RegInv, RegTyped
<1>3. \A v \in Officers : v # u => Holds(v) \subseteq {o \in Obligations : entryLock'[o] = v}
  BY DEF Unlock, Holds
<1>4. HoldsItsEntries'
  <2> SUFFICES ASSUME NEW v \in Officers
               PROVE  /\ answering'[v].at = "reading back" =>
                           About(answering'[v].targets) \subseteq Holds(v)' \cup answering'[v].todo
                      /\ answering'[v].at = "committing" => About(answering'[v].targets) \subseteq Holds(v)'
    BY DEF HoldsItsEntries, About
  <2>1. CASE v = u
    BY <1>1, <2>1, FreshCalls
  <2>2. CASE v # u
    BY <1>1, <1>3, <2>2 DEF RegInv, HoldsItsEntries, Holds
  <2> QED
    BY <2>1, <2>2
<1> QED
  BY <1>1, <1>2, <1>4

LEMMA RegStep == RegInv /\ [RegNext]_regVars => RegInv'
<1> SUFFICES ASSUME RegInv, [RegNext]_regVars PROVE RegInv'
  OBVIOUS
<1> USE DEF RegInv
<1>1. ASSUME NEW u \in Officers, NEW T \in Asked, NEW v \in {"applies", "not_applicable"},
             NEW n \in AnyVersion..MaxAnswers, BeginAnswer(u, T, v, n)
      PROVE  RegInv'
  <2> DEFINE call == [NoAnswer EXCEPT !.at = "locking", !.targets = T, !.value = v, !.named = n,
                                      !.todo = {o \in About(T) : HasEntry(o)}]
  <2>1. answering' = [answering EXCEPT ![u] = call] /\ UNCHANGED <<duty, occurrence, day, entryLock>>
    BY <1>1 DEF BeginAnswer
  <2>2. T \subseteq Targets /\ n \in Int
    BY RegisterAssumption DEF Targets, AnyVersion
  <2>3. call \in CallRecords /\ call.at = "locking" /\ call.first = {}
    BY <2>2, FreshCalls DEF CallRecords
  <2> HIDE DEF call
  <2>4. /\ answering' \in [Officers -> CallRecords] /\ answering'[u] = call
        /\ \A w \in Officers : w # u => answering'[w] = answering[w]
    BY <2>1, <2>3 DEF RegTyped
  <2>5. HoldsItsEntries'
    BY <2>1, <2>3, <2>4 DEF HoldsItsEntries, Holds
  <2>6. StartsOnce'
    BY <2>1, <2>3, <2>4 DEF StartsOnce, NeverScheduled
  <2> QED
    BY <2>1, <2>4, <2>5, <2>6, SeriesStand DEF CallsInOrder, RegTyped
<1>2. ASSUME NEW u \in Officers, NEW o \in Obligations, LockEntry(u, o) PROVE RegInv'
  <2>1. /\ answering[u].at \in {"locking", "reading back"} /\ entryLock[o] \in {Unlocked, u}
        /\ entryLock' = [entryLock EXCEPT ![o] = u] /\ UNCHANGED <<duty, occurrence, day>>
        /\ answering' = [answering EXCEPT ![u].todo = answering[u].todo \ {o}]
    BY <1>2 DEF LockEntry, EntryFree
  <2>2. /\ entryLock' \in [Obligations -> Officers \cup {Unlocked}]
        /\ \A w \in Officers : Holds(w) \subseteq {q \in Obligations : entryLock'[q] = w}
        /\ entryLock'[o] = u
    BY <2>1, RegisterAssumption DEF RegTyped, Holds, Unlocked
  <2>3. /\ answering' \in [Officers -> CallRecords]
        /\ answering'[u].at = answering[u].at /\ answering'[u].targets = answering[u].targets
        /\ answering'[u].first = answering[u].first /\ answering'[u].on = answering[u].on
        /\ answering'[u].todo = answering[u].todo \ {o}
        /\ \A w \in Officers : w # u => answering'[w] = answering[w]
    BY ZenonT(60), <2>1 DEF RegTyped, CallRecords
  <2>4. HoldsItsEntries'
    <3> SUFFICES ASSUME NEW w \in Officers
                 PROVE  /\ answering'[w].at = "reading back" =>
                             About(answering'[w].targets) \subseteq Holds(w)' \cup answering'[w].todo
                        /\ answering'[w].at = "committing" => About(answering'[w].targets) \subseteq Holds(w)'
      BY DEF HoldsItsEntries, About
    <3>1. Holds(w) \subseteq Holds(w)' /\ o \in Holds(u)'
      BY <2>2 DEF Holds
    <3>2. answering'[w].targets = answering[w].targets
      BY <2>3
    <3> QED
      BY <2>1, <2>3, <3>1, <3>2 DEF HoldsItsEntries
  <2>5. StartsOnce'
    BY ZenonT(60), <2>1, <2>3 DEF StartsOnce, NeverScheduled
  <2> QED
    BY <2>1, <2>2, <2>3, <2>4, <2>5, SeriesStand DEF CallsInOrder
<1>3. ASSUME NEW u \in Officers, CheckVersion(u) PROVE RegInv'
  <2>1. CASE answering' = [answering EXCEPT ![u] = NoAnswer] /\ Unlock(u)
    <3>1. UNCHANGED <<duty, occurrence, day>>
      BY <1>3 DEF CheckVersion
    <3>2. StartsOnce'
      BY <2>1, <3>1, CallEnds, FreshCalls DEF StartsOnce, NeverScheduled
    <3> QED
      BY <2>1, <3>1, <3>2, CallEnds, SeriesStand DEF CallsInOrder
  <2>2. CASE ~(answering' = [answering EXCEPT ![u] = NoAnswer] /\ Unlock(u))
    <3> DEFINE rest == About(answering[u].targets) \ Holds(u)
    <3>1. /\ answering[u].at = "locking" /\ UNCHANGED <<duty, occurrence, day, entryLock>>
          /\ answering' = [answering EXCEPT ![u].at = "inserting", ![u].on = day, ![u].todo = rest]
      BY <1>3, <2>2 DEF CheckVersion
    <3>2. rest \subseteq Obligations
      BY FreshCalls DEF RegTyped, CallRecords
    <3> HIDE DEF rest
    <3> DEFINE call == [answering[u] EXCEPT !.at = "inserting", !.on = day, !.todo = rest]
    <3>3. /\ call \in CallRecords /\ call.at = "inserting" /\ call.targets = answering[u].targets
          /\ call.first = answering[u].first
      BY <3>2 DEF RegTyped, CallRecords
    <3>4. answering' = [answering EXCEPT ![u] = call]
      BY <3>1
    <3> HIDE DEF call
    <3>5. /\ answering' \in [Officers -> CallRecords]
          /\ answering'[u].at = "inserting" /\ answering'[u].targets = answering[u].targets
          /\ answering'[u].first = answering[u].first
          /\ \A w \in Officers : w # u => answering'[w] = answering[w]
      BY <3>3, <3>4 DEF RegTyped
    <3>6. HoldsItsEntries'
      <4> SUFFICES ASSUME NEW w \in Officers
                   PROVE  /\ answering'[w].at = "reading back" =>
                               About(answering'[w].targets) \subseteq Holds(w)' \cup answering'[w].todo
                          /\ answering'[w].at = "committing" => About(answering'[w].targets) \subseteq Holds(w)'
        BY DEF HoldsItsEntries, About
      <4>1. Holds(w)' = Holds(w)
        BY <3>1 DEF Holds
      <4>2. CASE w = u
        BY <3>5, <4>2
      <4>3. CASE w # u
        BY <3>5, <4>1, <4>3 DEF HoldsItsEntries
      <4> QED
        BY <4>2, <4>3
    <3>7. StartsOnce'
      BY <3>1, <3>5 DEF StartsOnce, NeverScheduled
    <3> QED
      BY <3>1, <3>5, <3>6, <3>7, SeriesStand DEF CallsInOrder, RegTyped
  <2> QED
    BY <2>1, <2>2
<1>4. ASSUME NEW u \in Officers, InsertEntry(u) PROVE RegInv'
  <2> DEFINE o == Min(answering[u].todo)
             left == answering[u].todo \ {o}
  <2>1. /\ answering[u].at = "inserting" /\ UNCHANGED <<duty, occurrence, day>>
        /\ \/ UNCHANGED entryLock
           \/ EntryFree(u, o) /\ entryLock' = [entryLock EXCEPT ![o] = u]
        /\ answering' = [answering EXCEPT ![u].todo = left]
    BY <1>4 DEF InsertEntry
  <2>2. left \subseteq Obligations
    BY DEF RegTyped, CallRecords
  <2> HIDE DEF o, left
  <2>3. /\ entryLock' \in [Obligations -> Officers \cup {Unlocked}]
        /\ \A w \in Officers : Holds(w) \subseteq {q \in Obligations : entryLock'[q] = w}
    BY <2>1, RegisterAssumption DEF RegTyped, Holds, EntryFree, Unlocked
  <2>4. /\ answering' \in [Officers -> CallRecords]
        /\ answering'[u].at = "inserting" /\ answering'[u].targets = answering[u].targets
        /\ answering'[u].first = answering[u].first
        /\ \A w \in Officers : w # u => answering'[w] = answering[w]
    <3> DEFINE call == [answering[u] EXCEPT !.todo = left]
    <3>1. answering[u] \in CallRecords
      BY DEF RegTyped
    <3>2. /\ call \in CallRecords /\ call.at = "inserting" /\ call.targets = answering[u].targets
          /\ call.first = answering[u].first
      BY <2>1, <2>2, <3>1 DEF CallRecords
    <3>3. answering' = [answering EXCEPT ![u] = call]
      BY <2>1
    <3> HIDE DEF call
    <3> QED
      BY <3>2, <3>3 DEF RegTyped
  <2>5. HoldsItsEntries'
    BY <2>3, <2>4 DEF HoldsItsEntries, Holds
  <2>6. StartsOnce'
    BY <2>1, <2>4 DEF StartsOnce, NeverScheduled
  <2> QED
    BY <2>1, <2>3, <2>4, <2>5, <2>6, SeriesStand DEF CallsInOrder
<1>5. ASSUME NEW u \in Officers, ReadBack(u) PROVE RegInv'
  <2> DEFINE rest == About(answering[u].targets) \ Holds(u)
  <2>1. /\ answering[u].at = "inserting" /\ UNCHANGED <<duty, occurrence, day, entryLock>>
        /\ answering' = [answering EXCEPT ![u].at = "reading back", ![u].todo = rest]
    BY <1>5 DEF ReadBack
  <2>2. rest \subseteq Obligations /\ About(answering[u].targets) \subseteq Holds(u) \cup rest
    BY FreshCalls DEF RegTyped, CallRecords
  <2> HIDE DEF rest
  <2>3. /\ answering' \in [Officers -> CallRecords]
        /\ answering'[u].at = "reading back" /\ answering'[u].targets = answering[u].targets
        /\ answering'[u].first = answering[u].first /\ answering'[u].todo = rest
        /\ \A w \in Officers : w # u => answering'[w] = answering[w]
    <3> DEFINE call == [answering[u] EXCEPT !.at = "reading back", !.todo = rest]
    <3>1. /\ call \in CallRecords /\ call.at = "reading back" /\ call.targets = answering[u].targets
          /\ call.first = answering[u].first /\ call.todo = rest
      BY <2>1, <2>2 DEF RegTyped, CallRecords
    <3>2. answering' = [answering EXCEPT ![u] = call]
      BY <2>1
    <3> HIDE DEF call
    <3> QED
      BY <3>1, <3>2 DEF RegTyped
  <2>4. HoldsItsEntries'
    BY ZenonT(60), <2>1, <2>2, <2>3 DEF HoldsItsEntries, Holds
  <2>5. StartsOnce'
    BY ZenonT(60), <2>1, <2>3 DEF StartsOnce, NeverScheduled
  <2> QED
    BY <2>1, <2>3, <2>4, <2>5, SeriesStand DEF CallsInOrder, RegTyped
<1>6. ASSUME NEW u \in Officers, ScheduleFirst(u) PROVE RegInv'
  <2> DEFINE first == {t \in answering[u].targets :
                         /\ answering[u].value = "applies" /\ answering[u].on <= LastDue
                         /\ duty[t[1]] = "active" /\ NeverScheduled(t)}
  <2>1. /\ answering[u].at = "reading back" /\ answering[u].todo = {}
        /\ answering' = [answering EXCEPT ![u].at = "committing", ![u].first = first]
        /\ UNCHANGED <<duty, occurrence, day, entryLock>>
    BY <1>6 DEF ScheduleFirst
  <2>2. /\ first \subseteq answering[u].targets /\ answering[u].targets \subseteq Targets
        /\ \A t \in first : NeverScheduled(t) /\ duty[t[1]] # "none" /\ answering[u].on <= LastDue
    BY DEF RegTyped, CallRecords
  <2> HIDE DEF first
  <2>3. /\ answering' \in [Officers -> CallRecords]
        /\ answering'[u].at = "committing" /\ answering'[u].targets = answering[u].targets
        /\ answering'[u].first = first /\ answering'[u].on = answering[u].on
        /\ \A w \in Officers : w # u => answering'[w] = answering[w]
    <3> DEFINE call == [answering[u] EXCEPT !.at = "committing", !.first = first]
    <3>1. first \in SUBSET Targets
      BY <2>2
    <3>2. /\ call \in CallRecords /\ call.at = "committing" /\ call.targets = answering[u].targets
          /\ call.first = first /\ call.on = answering[u].on
      BY <3>1 DEF RegTyped, CallRecords
    <3>3. answering' = [answering EXCEPT ![u] = call]
      BY <2>1
    <3> HIDE DEF call
    <3> QED
      BY <3>2, <3>3 DEF RegTyped
  <2>4. HoldsItsEntries'
    <3>1. \A w \in Officers : Holds(w)' = Holds(w)
      BY <2>1 DEF Holds
    <3>2. About(answering[u].targets) \subseteq Holds(u)
      BY <2>1 DEF HoldsItsEntries
    <3> QED
      BY <2>3, <3>1, <3>2 DEF HoldsItsEntries
  <2>5. StartsOnce'
    BY ZenonT(60), <2>1, <2>2, <2>3 DEF StartsOnce, NeverScheduled
  <2> QED
    BY <2>1, <2>3, <2>4, <2>5, SeriesStand DEF CallsInOrder, RegTyped
<1>7. ASSUME NEW u \in Officers, Commit(u) PROVE RegInv'
  <2> DEFINE call == answering[u]
  <2>1. /\ call.at = "committing" /\ answering' = [answering EXCEPT ![u] = NoAnswer] /\ Unlock(u)
        /\ occurrence' = [t \in Targets |->
             IF t \in call.first THEN [occurrence[t] EXCEPT !.open = occurrence[t].open \cup {call.on}]
             ELSE occurrence[t]]
        /\ UNCHANGED <<duty, day>>
    BY <1>7 DEF Commit
  <2>2. /\ call.first \subseteq call.targets /\ call.on \in Nat
        /\ call.first # {} => call.on <= LastDue
        /\ \A t \in call.first : NeverScheduled(t) /\ duty[t[1]] # "none"
    BY DEF StartsOnce, RegTyped, CallRecords
  <2>3. ASSUME NEW t \in Targets, t \in call.first
        PROVE  occurrence'[t] \in Series /\ occurrence'[t].open = {call.on} /\ occurrence'[t].done = {}
    <3>1. occurrence[t] \in Series /\ occurrence[t].open = {} /\ occurrence[t].done = {}
      BY <2>2, <2>3 DEF RegTyped, NeverScheduled
    <3>2. occurrence'[t] = [occurrence[t] EXCEPT !.open = occurrence[t].open \cup {call.on}]
      BY <2>1, <2>3
    <3> QED
      BY <2>2, <3>1, <3>2 DEF Series
  <2>4. \A t \in Targets : t \notin call.first => occurrence'[t] = occurrence[t]
    BY <2>1
  <2>5. occurrence' \in [Targets -> Series]
    <3>1. \A t \in Targets : occurrence'[t] \in Series
      BY <2>3, <2>4 DEF RegTyped
    <3>2. occurrence' = [t \in Targets |-> occurrence'[t]]
      BY <2>1
    <3> QED
      BY <3>1, <3>2
  <2>6. RegTyped' /\ HoldsItsEntries'
    BY <2>1, <2>5, CallEnds DEF RegTyped
  <2>7. StartsOnce'
    <3>0. /\ answering'[u] = NoAnswer /\ UNCHANGED duty
          /\ \A w \in Officers : w # u => answering'[w] = answering[w]
      BY <2>1, CallEnds
    <3> SUFFICES ASSUME NEW v \in Officers, v # u, NEW t \in answering[v].first
                 PROVE  NeverScheduled(t)'
      BY <3>0, FreshCalls DEF StartsOnce
    <3>a. answering[v].at = "committing" /\ t \in answering[v].targets
      BY DEF StartsOnce
    <3>b. About(answering[v].targets) \subseteq Holds(v)
      BY <3>a DEF HoldsItsEntries
    <3>c. answering[v].targets \subseteq Targets
      BY DEF RegTyped, CallRecords
    <3>1. t \in Targets /\ t[1] \in About(answering[v].targets) /\ t[1] \in Holds(v)
      BY <3>a, <3>b, <3>c DEF About
    <3>2. t \notin call.first
      BY <2>1, <2>2, <3>1 DEF HoldsItsEntries, About, Holds
    <3> QED
      BY <2>4, <3>1, <3>2 DEF StartsOnce, NeverScheduled
  <2>8. OneSeries'
    <3> SUFFICES ASSUME NEW t \in Targets PROVE Sound(occurrence'[t], duty[t[1]])
      BY <2>1 DEF OneSeries, Sound
    <3>1. CASE t \in call.first
      BY <2>2, <2>3, <3>1 DEF Sound
    <3>2. CASE t \notin call.first
      BY <2>4, <3>2 DEF OneSeries
    <3> QED
      BY <3>1, <3>2
  <2> QED
    BY <2>6, <2>7, <2>8
<1>8. ASSUME NEW u \in Officers, RollBack(u) PROVE RegInv'
  <2>1. answering' = [answering EXCEPT ![u] = NoAnswer] /\ Unlock(u) /\ UNCHANGED <<duty, occurrence, day>>
    BY <1>8 DEF RollBack
  <2>2. StartsOnce'
    BY <2>1, CallEnds, FreshCalls DEF StartsOnce, NeverScheduled
  <2> QED
    BY <2>1, <2>2, CallEnds, SeriesStand DEF CallsInOrder
<1>9. ASSUME NEW t \in Targets, NEW d \in 1..LastDue, CompleteOccurrence(t, d) PROVE RegInv'
  <2> DEFINE next == IF duty[t[1]] = "active" THEN NextDue(d) ELSE {}
             done == occurrence[t].done \cup {d}
             after == [open |-> (occurrence[t].open \cup next) \ done, done |-> done]
  <2>1. /\ d \in occurrence[t].open /\ occurrence' = [occurrence EXCEPT ![t] = after]
        /\ UNCHANGED <<duty, day, entryLock, answering>>
    BY <1>9 DEF CompleteOccurrence
  <2>2. /\ occurrence[t].open = {d} /\ d \in Nat /\ d <= LastDue /\ duty[t[1]] \in {"active", "retired"}
        /\ \A e \in occurrence[t].done : e \in Nat /\ e < d
    <3>1. t[1] \in Obligations
      BY DEF Targets
    <3> QED
      BY <2>1, <3>1 DEF OneSeries, Sound, RegTyped, Series
  <2>3. next \subseteq {d + 1} /\ \A e \in next : e <= LastDue
    BY <2>2, RegisterAssumption DEF NextDue
  <2>4. duty[t[1]] = "active" => next = {d + 1} \/ d = LastDue
    <3>1. d = LastDue \/ d + 1 \in d..LastDue
      BY <2>2, RegisterAssumption
    <3> QED
      BY <3>1 DEF NextDue
  <2>5. after.done = done /\ after.open = next
    <3>1. \A e \in done : e <= d
      BY <2>2
    <3>2. d \in done /\ d + 1 \notin done
      BY <2>2, <3>1
    <3>3. ({d} \cup next) \ done = next
      BY <2>3, <3>2
    <3> QED
      BY <2>2, <3>3
  <2>6. after \in Series
    BY <2>2, <2>3 DEF Series, RegTyped
  <2>7. Sound(after, duty[t[1]])
    <3>1. \A e \in done : e < d + 1
      BY <2>2
    <3>2. duty[t[1]] = "retired" \/ LastDue \in done \/ next = {d + 1}
      BY <2>2, <2>4
    <3> HIDE DEF next, done, after
    <3> QED
      BY <2>2, <2>3, <2>5, <3>1, <3>2 DEF Sound
  <2> HIDE DEF next, done, after
  <2>8. /\ occurrence' \in [Targets -> Series] /\ occurrence'[t] = after
        /\ \A s \in Targets : s # t => occurrence'[s] = occurrence[s]
    BY <2>1, <2>6 DEF RegTyped
  <2>9. RegTyped' /\ HoldsItsEntries'
    BY <2>1, <2>8 DEF RegTyped, HoldsItsEntries, Holds
  <2>10. StartsOnce'
    <3>1. \A u \in Officers : \A s \in answering[u].first : s \in Targets /\ s # t
      BY <2>2 DEF StartsOnce, NeverScheduled, RegTyped, CallRecords
    <3> QED
      BY <2>1, <2>8, <3>1 DEF StartsOnce, NeverScheduled
  <2>11. OneSeries'
    BY <2>1, <2>7, <2>8 DEF OneSeries
  <2> QED
    BY <2>9, <2>10, <2>11
<1>10. ASSUME NEW o \in Obligations, AddDuty(o) \/ RetireDuty(o) PROVE RegInv'
  <2>1. /\ UNCHANGED <<occurrence, day, entryLock, answering>>
        /\ \/ duty[o] = "none" /\ duty' = [duty EXCEPT ![o] = "active"]
           \/ duty[o] = "active" /\ duty' = [duty EXCEPT ![o] = "retired"]
    BY <1>10 DEF AddDuty, RetireDuty
  <2>2. /\ duty' \in [Obligations -> {"none", "active", "retired"}]
        /\ \A q \in Obligations : \/ duty'[q] = duty[q]
                                  \/ duty[q] = "none" /\ duty'[q] = "active"
                                  \/ duty[q] = "active" /\ duty'[q] = "retired"
        /\ UNCHANGED <<occurrence, day, entryLock, answering>>
    <3>1. CASE duty[o] = "none" /\ duty' = [duty EXCEPT ![o] = "active"]
      <4>1. duty \in [Obligations -> {"none", "active", "retired"}]
        BY DEF RegTyped
      <4>2. duty'[o] = "active" /\ \A q \in Obligations : q # o => duty'[q] = duty[q]
        BY <3>1, <4>1
      <4>3. duty' \in [Obligations -> {"none", "active", "retired"}]
        BY <3>1, <4>1
      <4> QED
        BY ONLY <2>1, <3>1, <4>2, <4>3
    <3>2. CASE duty[o] = "active" /\ duty' = [duty EXCEPT ![o] = "retired"]
      <4>1. duty \in [Obligations -> {"none", "active", "retired"}]
        BY DEF RegTyped
      <4>2. duty'[o] = "retired" /\ \A q \in Obligations : q # o => duty'[q] = duty[q]
        BY <3>2, <4>1
      <4>3. duty' \in [Obligations -> {"none", "active", "retired"}]
        BY <3>2, <4>1
      <4> QED
        BY ONLY <2>1, <3>2, <4>2, <4>3
    <3> QED
      BY <2>1, <3>1, <3>2
  <2>3. \A t \in Targets : t[1] \in Obligations
    BY DEF Targets
  <2>4. RegTyped' /\ HoldsItsEntries'
    BY <2>2 DEF RegTyped, HoldsItsEntries, Holds
  <2>5. StartsOnce'
    <3>1. \A u \in Officers : answering[u].first \subseteq Targets
      BY DEF StartsOnce, RegTyped, CallRecords
    <3>2. \A t \in Targets : duty[t[1]] # "none" => duty'[t[1]] # "none"
      BY <2>2, <2>3
    <3> QED
      BY <2>2, <3>1, <3>2 DEF StartsOnce, NeverScheduled
  <2>6. OneSeries'
    <3> SUFFICES ASSUME NEW t \in Targets PROVE Sound(occurrence[t], duty'[t[1]])
      BY <2>2 DEF OneSeries
    <3> QED
      BY <2>2, <2>3 DEF OneSeries, Sound
  <2> QED
    BY <2>4, <2>5, <2>6
<1>11. CASE NextDay
  <2>1. day' = day + 1 /\ UNCHANGED <<duty, occurrence, entryLock, answering>>
    BY <1>11 DEF NextDay
  <2>2. RegTyped'
    BY <2>1 DEF RegTyped
  <2>3. HoldsItsEntries'
    BY <2>1 DEF HoldsItsEntries, Holds
  <2>4. StartsOnce'
    BY <2>1 DEF StartsOnce, NeverScheduled
  <2>5. OneSeries'
    BY <2>1 DEF OneSeries
  <2> QED
    BY <2>2, <2>3, <2>4, <2>5
<1>12. CASE UNCHANGED regVars
  <2>1. UNCHANGED <<duty, occurrence, day, entryLock, answering>>
    BY <1>12 DEF regVars
  <2>2. CallsInOrder'
    <3>1. HoldsItsEntries'
      BY <2>1 DEF HoldsItsEntries, Holds
    <3>2. StartsOnce'
      BY <2>1 DEF StartsOnce, NeverScheduled
    <3> QED
      BY <2>1, <3>1, <3>2 DEF CallsInOrder, RegTyped
  <2> QED
    BY <2>1, <2>2, SeriesStand
<1> QED
  BY <1>1, <1>2, <1>3, <1>4, <1>5, <1>6, <1>7, <1>8, <1>9, <1>10, <1>11, <1>12 DEF RegNext

\* Every reachable state has its calls under their locks and its series in order.
THEOREM RegisterInvariant == RegSpec => []RegInv
<1>1. RegInit => RegInv
  <2> SUFFICES ASSUME RegInit PROVE RegInv
    OBVIOUS
  <2>1. RegTyped
    BY FreshCalls DEF RegInit, RegTyped, Series
  <2>2. HoldsItsEntries /\ StartsOnce /\ OneSeries
    BY FreshCalls DEF RegInit, HoldsItsEntries, StartsOnce, OneSeries, Sound
  <2> QED
    BY <2>1, <2>2 DEF RegInv
<1> QED
  BY <1>1, RegStep, PTL DEF RegSpec

\* register/duties.py, schedule_first and complete_occurrence: a target has one open
\* occurrence at most, and its series goes on until its duty or its rule ends.
THEOREM OneDateIsOpen == RegSpec => []OneOpenOccurrence
<1>1. RegInv => OneOpenOccurrence
  <2> SUFFICES ASSUME RegInv, NEW t \in Targets
               PROVE  /\ Cardinality(occurrence[t].open) <= 1
                      /\ occurrence[t].open = {} /\ ~NeverScheduled(t) =>
                           duty[t[1]] = "retired" \/ LastDue \in occurrence[t].done
    BY DEF OneOpenOccurrence
  <2>1. Sound(occurrence[t], duty[t[1]])
    BY DEF RegInv, OneSeries
  <2> QED
    BY <2>1, OneAtMost DEF Sound, NeverScheduled
<1> QED
  BY <1>1, RegisterInvariant, PTL

-----------------------------------------------------------------------------
(* The version an answer names.  It is read under the row's lock, so once  *)
(* the call has checked a row that was there, the row stays as named until *)
(* the call ends; a row it did not find (version 0) may have none, which   *)
(* is where AnswerLandsOnItsVersion fails.                                 *)
NamesARow(u) == answering[u].named \notin {AnyVersion, 0}
Checked(u) == answering[u].at \in {"inserting", "reading back", "committing"}

RowStands(u) ==
  Checked(u) /\ NamesARow(u) =>
    \A t \in answering[u].targets : t[1] \in Holds(u) /\ rowVersion[t] = answering[u].named
NamedRowStands == \A u \in Officers : RowStands(u)

\* What moves no row's version but those of the entries somebody else holds.
RowsRest(u) == \A t \in Targets : t[1] \in Holds(u) => rowVersion'[t] = rowVersion[t]
LocksRest(u) == \A o \in Holds(u) : entryLock'[o] = u

\* A row that was checked stands while the call goes on, and while others do.
LEMMA CheckedRowStands ==
  ASSUME RegInv, NEW u \in Officers, RowStands(u), Checked(u)' => Checked(u),
         answering'[u].targets = answering[u].targets, answering'[u].named = answering[u].named,
         LocksRest(u), RowsRest(u)
  PROVE  RowStands(u)'
<1> SUFFICES ASSUME Checked(u)', NamesARow(u)', NEW t \in answering'[u].targets
             PROVE  t[1] \in Holds(u)' /\ rowVersion'[t] = answering'[u].named
  BY DEF RowStands
<1>1. Checked(u) /\ NamesARow(u) /\ t \in answering[u].targets
  BY DEF NamesARow
<1>2. t[1] \in Holds(u) /\ rowVersion[t] = answering[u].named
  BY <1>1 DEF RowStands
<1>3. t \in Targets
  BY <1>1 DEF RegInv, RegTyped, CallRecords
<1> QED
  BY <1>2, <1>3 DEF Holds, LocksRest, RowsRest

\* Nobody takes or gives back a lock but one's own.
LEMMA LocksAreOnesOwn ==
  ASSUME RegInv, NEW u \in Officers, NEW v \in Officers,
         \/ UNCHANGED entryLock
         \/ Unlock(v) /\ v # u
         \/ \E o \in Obligations : EntryFree(v, o) /\ entryLock' = [entryLock EXCEPT ![o] = v]
  PROVE  LocksRest(u)
<1>1. entryLock \in [Obligations -> Officers \cup {Unlocked}] /\ Unlocked \notin Officers
  BY RegisterAssumption DEF RegInv, RegTyped, Unlocked
<1>2. CASE Unlock(v) /\ v # u
  BY <1>2 DEF Unlock, Holds, LocksRest
<1>3. ASSUME NEW o \in Obligations, EntryFree(v, o), entryLock' = [entryLock EXCEPT ![o] = v]
      PROVE  LocksRest(u)
  BY <1>1, <1>3 DEF EntryFree, Holds, LocksRest
<1> QED
  BY <1>2, <1>3 DEF Holds, LocksRest

\* A commit moves no row of an entry that another call holds.
LEMMA CommitsMoveTheirOwnRows ==
  ASSUME RegInv, NEW u \in Officers, NEW v \in Officers, v # u, Commit(v)
  PROVE  RowsRest(u)
<1> SUFFICES ASSUME NEW t \in Targets, t[1] \in Holds(u) PROVE rowVersion'[t] = rowVersion[t]
  BY DEF RowsRest
<1>1. About(answering[v].targets) \subseteq Holds(v)
  BY DEF RegInv, HoldsItsEntries, Commit
<1>2. t[1] \notin About(answering[v].targets)
  BY <1>1 DEF Holds
<1>3. t \notin answering[v].targets /\ t \notin About(answering[v].targets) \X {Whole}
  BY <1>2 DEF About
<1> QED
  BY <1>3 DEF Commit

\* One call's step, as the others and the call itself see it.
LEMMA CallsStand ==
  ASSUME RegInv, NamedRowStands, NEW v \in Officers,
         \A u \in Officers : u # v => answering'[u] = answering[u],
         \/ UNCHANGED entryLock
         \/ Unlock(v)
         \/ \E o \in Obligations : EntryFree(v, o) /\ entryLock' = [entryLock EXCEPT ![o] = v],
         UNCHANGED rowVersion \/ Commit(v), RowStands(v)'
  PROVE  NamedRowStands'
<1> SUFFICES ASSUME NEW u \in Officers, u # v PROVE RowStands(u)'
  BY DEF NamedRowStands
<1>1. LocksRest(u)
  BY LocksAreOnesOwn
<1>2. RowsRest(u)
  BY CommitsMoveTheirOwnRows DEF RowsRest
<1>3. RowStands(u) /\ answering'[u] = answering[u]
  BY DEF NamedRowStands
<1> QED
  BY <1>1, <1>2, <1>3, CheckedRowStands DEF Checked

LEMMA NamedRowStep ==
  ASSUME RegInv, NamedRowStands, [RegNext]_regVars
  PROVE  NamedRowStands'
<1>types. answering \in [Officers -> CallRecords]
  BY DEF RegInv, RegTyped
<1>1. ASSUME NEW v \in Officers, NEW T \in Asked, NEW a \in {"applies", "not_applicable"},
             NEW n \in AnyVersion..MaxAnswers, BeginAnswer(v, T, a, n)
      PROVE  NamedRowStands'
  <2> DEFINE call == [NoAnswer EXCEPT !.at = "locking", !.targets = T, !.value = a, !.named = n,
                                      !.todo = {o \in About(T) : HasEntry(o)}]
  <2>1. answering' = [answering EXCEPT ![v] = call] /\ UNCHANGED <<rowVersion, entryLock>>
    BY <1>1 DEF BeginAnswer
  <2>2. call.at = "locking"
    BY DEF NoAnswer
  <2> HIDE DEF call
  <2>3. answering'[v].at = "locking" /\ \A u \in Officers : u # v => answering'[u] = answering[u]
    BY <1>types, <2>1, <2>2
  <2>4. RowStands(v)'
    BY <2>3 DEF RowStands, Checked
  <2> QED
    BY <2>1, <2>3, <2>4, CallsStand
<1>2. ASSUME NEW v \in Officers, NEW left, answering' = [answering EXCEPT ![v].todo = left],
             UNCHANGED rowVersion,
             \/ UNCHANGED entryLock
             \/ \E o \in Obligations : EntryFree(v, o) /\ entryLock' = [entryLock EXCEPT ![o] = v]
      PROVE  NamedRowStands'
  <2>1. /\ answering'[v].at = answering[v].at /\ answering'[v].targets = answering[v].targets
        /\ answering'[v].named = answering[v].named
        /\ \A u \in Officers : u # v => answering'[u] = answering[u]
    BY <1>2, <1>types DEF CallRecords
  <2>2. LocksRest(v) /\ RowsRest(v)
    BY <1>2, LocksAreOnesOwn DEF RowsRest
  <2>3. RowStands(v)'
    BY <2>1, <2>2, CheckedRowStands DEF NamedRowStands, Checked
  <2> QED
    BY <1>2, <2>1, <2>3, CallsStand
<1>3. ASSUME NEW v \in Officers, NEW o \in Obligations, LockEntry(v, o) PROVE NamedRowStands'
  BY <1>2, <1>3 DEF LockEntry
<1>4. ASSUME NEW v \in Officers, InsertEntry(v) PROVE NamedRowStands'
  <2> DEFINE o == Min(answering[v].todo)
  <2>1. /\ answering' = [answering EXCEPT ![v].todo = answering[v].todo \ {o}] /\ UNCHANGED rowVersion
        /\ \/ UNCHANGED entryLock
           \/ EntryFree(v, o) /\ entryLock' = [entryLock EXCEPT ![o] = v]
    BY <1>4 DEF InsertEntry
  <2> HIDE DEF o
  <2>2. CASE UNCHANGED entryLock \/ o \notin Obligations
    <3>1. UNCHANGED entryLock
      BY <2>1, <2>2 DEF RegInv, RegTyped
    <3> QED
      BY <1>2, <2>1, <3>1
  <2> QED
    BY <1>2, <2>1, <2>2
<1>5. ASSUME NEW v \in Officers, Unlock(v), answering' = [answering EXCEPT ![v] = NoAnswer],
             UNCHANGED rowVersion \/ Commit(v)
      PROVE  NamedRowStands'
  <2>1. answering'[v].at = "idle" /\ \A u \in Officers : u # v => answering'[u] = answering[u]
    BY <1>5, <1>types DEF NoAnswer
  <2>2. RowStands(v)'
    BY <2>1 DEF RowStands, Checked
  <2> QED
    BY <1>5, <2>1, <2>2, CallsStand
<1>6. ASSUME NEW v \in Officers, CheckVersion(v) PROVE NamedRowStands'
  <2>1. CASE \A t \in answering[v].targets : answering[v].named \in {AnyVersion, Found(v, t)}
    <3>1. /\ answering' = [answering EXCEPT ![v].at = "inserting", ![v].on = day,
                                            ![v].todo = About(answering[v].targets) \ Holds(v)]
          /\ UNCHANGED <<entryLock, rowVersion>>
      BY <1>6, <2>1 DEF CheckVersion
    <3>2. /\ answering'[v].targets = answering[v].targets /\ answering'[v].named = answering[v].named
          /\ \A u \in Officers : u # v => answering'[u] = answering[u]
      BY <3>1, <1>types DEF CallRecords
    <3>3. \A t \in answering[v].targets :
            NamesARow(v) => t[1] \in Holds(v) /\ rowVersion[t] = answering[v].named
      BY <2>1 DEF NamesARow, Found
    <3>4. RowStands(v)'
      BY <3>1, <3>2, <3>3 DEF RowStands, NamesARow, Holds
    <3> QED
      BY <3>1, <3>2, <3>4, CallsStand
  <2>2. CASE ~\A t \in answering[v].targets : answering[v].named \in {AnyVersion, Found(v, t)}
    BY <1>5, <1>6, <2>2 DEF CheckVersion
  <2> QED
    BY <2>1, <2>2
<1>7. ASSUME NEW v \in Officers, ReadBack(v) \/ ScheduleFirst(v) PROVE NamedRowStands'
  <2>1. /\ answering[v].at \in {"inserting", "reading back"} /\ UNCHANGED <<entryLock, rowVersion>>
        /\ answering'[v].targets = answering[v].targets /\ answering'[v].named = answering[v].named
        /\ \A u \in Officers : u # v => answering'[u] = answering[u]
    <3>1. ASSUME NEW call, answering' = [answering EXCEPT ![v] = call],
                 call.targets = answering[v].targets, call.named = answering[v].named
          PROVE  /\ answering'[v].targets = answering[v].targets /\ answering'[v].named = answering[v].named
                 /\ \A u \in Officers : u # v => answering'[u] = answering[u]
      BY <1>types, <3>1
    <3>2. answering[v] \in CallRecords
      BY <1>types
    <3>3. ASSUME NEW a, NEW b
          PROVE  /\ [answering[v] EXCEPT !.at = "reading back", !.todo = a].targets = answering[v].targets
                 /\ [answering[v] EXCEPT !.at = "reading back", !.todo = a].named = answering[v].named
                 /\ [answering[v] EXCEPT !.at = "committing", !.first = b].targets = answering[v].targets
                 /\ [answering[v] EXCEPT !.at = "committing", !.first = b].named = answering[v].named
      BY <3>2 DEF CallRecords
    <3>4. CASE ReadBack(v)
      BY <3>1, <3>3, <3>4 DEF ReadBack
    <3>5. CASE ScheduleFirst(v)
      BY <3>1, <3>3, <3>5 DEF ScheduleFirst
    <3> QED
      BY <1>7, <3>4, <3>5
  <2>2. Checked(v) /\ LocksRest(v) /\ RowsRest(v)
    BY <2>1, LocksAreOnesOwn DEF Checked, RowsRest
  <2>3. RowStands(v)'
    BY <2>1, <2>2, CheckedRowStands DEF NamedRowStands
  <2> QED
    BY <2>1, <2>3, CallsStand
<1>8. ASSUME UNCHANGED <<rowVersion, entryLock, answering>> PROVE NamedRowStands'
  BY <1>8 DEF NamedRowStands, RowStands, Checked, NamesARow, Holds
<1>9. ASSUME NEW v \in Officers, Commit(v) \/ RollBack(v) PROVE NamedRowStands'
  BY <1>5, <1>9 DEF Commit, RollBack
<1> QED
  BY <1>1, <1>3, <1>4, <1>6, <1>7, <1>8, <1>9
     DEF RegNext, CompleteOccurrence, AddDuty, RetireDuty, NextDay, regVars

\* Once a call has checked a row that exists against the version its If-Match names,
\* nobody else can write that row before the call ends: it holds the row's lock
\* (_locked_entries, _check_version).
THEOREM CheckedVersionsStand == RegSpec => []NamedRowStands
<1>1. RegInit => NamedRowStands
  <2> SUFFICES ASSUME RegInit, NEW u \in Officers PROVE RowStands(u)
    BY DEF NamedRowStands
  <2>1. answering[u].at = "idle"
    BY FreshCalls DEF RegInit
  <2> QED
    BY <2>1 DEF RowStands, Checked
<1> QED
  BY <1>1, NamedRowStep, RegisterInvariant, PTL DEF RegSpec

\* AnswerLandsOnItsVersion of every answer that names the version of a row that was
\* there: it is written over that version.  What is left is version 0, the run's
\* counterexample.
NamedRowIsOverwritten ==
  [][\A u \in Officers, t \in Targets :
       answering[u].at = "committing" /\ rowVersion' # rowVersion /\ answering'[u] = NoAnswer
         /\ NamesARow(u) /\ t \in answering[u].targets =>
           rowVersion[t] = answering[u].named]_regVars

\* register/applicability.py, _check_version: "If-Match against the row the answer
\* lands on, read under its lock" holds of every row there is.
THEOREM NamedVersionsAreOverwritten == RegSpec => NamedRowIsOverwritten
<1>1. NamedRowStands =>
        \A u \in Officers, t \in Targets :
          answering[u].at = "committing" /\ NamesARow(u) /\ t \in answering[u].targets =>
            rowVersion[t] = answering[u].named
  BY DEF NamedRowStands, RowStands, Checked
<1>2. NamedRowStands /\ [RegNext]_regVars =>
        [\A u \in Officers, t \in Targets :
          answering[u].at = "committing" /\ rowVersion' # rowVersion /\ answering'[u] = NoAnswer
            /\ NamesARow(u) /\ t \in answering[u].targets =>
              rowVersion[t] = answering[u].named]_regVars
  BY <1>1
<1> QED
  BY <1>2, CheckedVersionsStand, PTL DEF RegSpec, NamedRowIsOverwritten
=============================================================================
