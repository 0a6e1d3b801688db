------------------------------ MODULE Reminders ------------------------------
(***************************************************************************)
(* Telling people about an action that is due, or overdue, or long overdue *)
(* (collab/reminders.py, escalation.py, tasks.py), seen at one action of   *)
(* one bank.  Once a day, at the bank's send hour, a beat queues a round   *)
(* of reminders and a round of escalations; a round writes notifications   *)
(* and queues their mails after its commit; deliver_mail sends each.       *)
(*                                                                         *)
(* Nothing but the rows says that somebody was told.  A round holds an     *)
(* advisory lock of its own kind and looks for today's rows before it      *)
(* writes; a mail has one row for its record, template and local day, held *)
(* locked while the relay takes it.  A message may come twice, and late:   *)
(* the bank's day is that of the clock, not of the message.                *)
(*                                                                         *)
(* The people told for one action are told together and are one here.      *)
(***************************************************************************)
EXTENDS Integers

CONSTANTS Postmen,         \* the workers
          LastDate,        \* bound: the bank's local days
          Leads,           \* reminder_days_before
          EscalateAfter,   \* escalate_after_days
          MaxMishaps       \* bound: edits, repeated messages, dead workers, refused mails

ASSUME ReminderAssumption ==
  /\ LastDate \in Nat \ {0} /\ Leads \subseteq Nat /\ EscalateAfter \in Nat
  /\ MaxMishaps \in Nat

Days == 1..LastDate
Rounds == {"reminders", "escalations"}
Templates == {"due_soon", "overdue", "escalation"}

VARIABLES date, handedOn,   \* the bank's date, and whether its send hour has come
          action,          \* the action: due date, and whether it is open
          queued,          \* messages of each round, and of each template's mail
          post,            \* what each worker's task is doing
          notices,         \* notifications of each template by the day they were made
          escalated,       \* action.escalated audit rows
          mail,            \* the email_message row of each template and day
          relayed,         \* history: mails of that row the relay took
          diedSending,     \* history: workers that died with a mail just taken
          mishaps

roundVars == <<notices, escalated>>
mailVars == <<mail, relayed, diedSending>>
reminderVars == <<date, handedOn, action, queued, post, roundVars, mailVars, mishaps>>

AtRest == [at |-> "idle", on |-> "nothing", tells |-> "nothing", day |-> 0]
AtPost == {w \in Postmen : post[w] # AtRest}

PerDay(x) == [t \in Templates |-> [d \in Days |-> x]]
Queue(m) == queued' = [queued EXCEPT ![m] = @ + 1]
Unqueue(m) == queued' = [queued EXCEPT ![m] = @ - 1]
Rest(w) == post' = [post EXCEPT ![w] = AtRest]
Mishap == mishaps < MaxMishaps /\ mishaps' = mishaps + 1

RemindersInit ==
  /\ date = 1 /\ handedOn = FALSE
  /\ action \in [due : Days, open : {TRUE}]
  /\ queued = [m \in Rounds \cup Templates |-> 0]
  /\ post = [w \in Postmen |-> AtRest]
  /\ notices = PerDay(0) /\ escalated = 0
  /\ mail = PerDay("none") /\ relayed = PerDay(0) /\ diedSending = 0
  /\ mishaps = 0

-----------------------------------------------------------------------------
\* send_reminders: the bank's own clock reads the send hour
HandOn ==
  /\ ~handedOn /\ handedOn' = TRUE
  /\ queued' = [m \in DOMAIN queued |-> queued[m] + (IF m \in Rounds THEN 1 ELSE 0)]
  /\ UNCHANGED <<date, action, post, roundVars, mailVars, mishaps>>

Midnight ==
  /\ handedOn /\ date < LastDate
  /\ date' = date + 1 /\ handedOn' = FALSE
  /\ UNCHANGED <<action, queued, post, roundVars, mailVars, mishaps>>

\* A due date is moved, the action is done or opened again.
EditAction ==
  /\ Mishap
  /\ \/ \E d \in Days : action.open /\ action' = [action EXCEPT !.due = d]
     \/ action' = [action EXCEPT !.open = ~@]
  /\ UNCHANGED <<date, handedOn, queued, post, roundVars, mailVars>>

\* mutant: only a mail's row tells that somebody was reminded
MailedAlready(t) == mail[t][date] # "none"
\* _already: the mail's row, or today's notification while its mail is on the way
Already(t) == mail[t][date] # "none" \/ notices[t][date] > 0

\* What a round finds to tell: _actions, escalate.
Owed(r) ==
  CASE r = "escalations" /\ action.open /\ action.due + EscalateAfter <= date /\ escalated = 0 -> "escalation"
    [] r = "reminders" /\ action.open /\ action.due = date - 1 /\ ~Already("overdue") -> "overdue"
    [] r = "reminders" /\ action.open /\ action.due - date \in Leads /\ ~Already("due_soon") -> "due_soon"
    [] OTHER -> "nothing"

\* pg_advisory_xact_lock, one lock for each kind of round
RoundLockFree(r) == \A w \in AtPost : post[w].on # r

BeginRound(w, r) ==
  /\ post[w] = AtRest /\ queued[r] > 0 /\ RoundLockFree(r)
  /\ Unqueue(r)
  /\ post' = [post EXCEPT ![w] = [at |-> "round", on |-> r, tells |-> Owed(r), day |-> date]]
  /\ UNCHANGED <<date, handedOn, action, roundVars, mailVars, mishaps>>

\* The commit, then the mails' messages; a worker that dies between the two has stamped
\* emailed_at on notifications nobody will mail, and its round comes again.
CommitRound(w) ==
  LET t == post[w].tells
  IN  /\ post[w].at = "round" /\ Rest(w)
      /\ IF t = "nothing"
         THEN UNCHANGED <<queued, roundVars, mishaps>>
         ELSE /\ notices' = [notices EXCEPT ![t][date] = @ + 1]
              /\ escalated' = escalated + (IF t = "escalation" THEN 1 ELSE 0)
              /\ \/ Queue(t) /\ UNCHANGED mishaps
                 \/ Queue(post[w].on) /\ Mishap
      /\ UNCHANGED <<date, handedOn, action, mailVars>>

-----------------------------------------------------------------------------
MailRowFree(t) == \A w \in AtPost : ~(post[w].on = t /\ post[w].day = date)

\* deliver_mail: only a queued or failed row is sent
MailIsOut(t) == mail[t][date] = "sent"

BeginMail(w, t) ==
  /\ post[w] = AtRest /\ queued[t] > 0 /\ MailRowFree(t)
  /\ Unqueue(t)
  /\ post' = [post EXCEPT ![w] =
       IF MailIsOut(t) THEN AtRest ELSE [at |-> "mail", on |-> t, tells |-> t, day |-> date]]
  /\ UNCHANGED <<date, handedOn, action, roundVars, mailVars, mishaps>>

RelayMail(w) ==
  /\ post[w].at = "mail"
  /\ \/ /\ post' = [post EXCEPT ![w].at = "sent"]
        /\ relayed' = [relayed EXCEPT ![post[w].on][post[w].day] = @ + 1]
        /\ UNCHANGED mishaps
     \/ post' = [post EXCEPT ![w].at = "failed"] /\ Mishap /\ UNCHANGED relayed
  /\ UNCHANGED <<date, handedOn, action, queued, roundVars, mail, diedSending>>

RecordMail(w) ==
  /\ post[w].at \in {"sent", "failed"} /\ Rest(w)
  /\ mail' = [mail EXCEPT ![post[w].on][post[w].day] = post[w].at]
  /\ UNCHANGED <<date, handedOn, action, queued, roundVars, relayed, diedSending, mishaps>>

-----------------------------------------------------------------------------
\* A worker dies: its transaction is gone and its message comes back.
KillPostman(w) ==
  /\ w \in AtPost /\ Rest(w) /\ Queue(post[w].on) /\ Mishap
  /\ diedSending' = diedSending + (IF post[w].at = "sent" THEN 1 ELSE 0)
  /\ UNCHANGED <<date, handedOn, action, roundVars, mail, relayed>>

\* A message is delivered again while the first delivery is still worked on.
RepeatMessage(w) ==
  /\ w \in AtPost /\ Queue(post[w].on) /\ Mishap
  /\ UNCHANGED <<date, handedOn, action, post, roundVars, mailVars>>

RemindersNext ==
  \/ HandOn \/ Midnight \/ EditAction
  \/ \E w \in Postmen :
       \/ \E r \in Rounds : BeginRound(w, r)
       \/ \E t \in Templates : BeginMail(w, t)
       \/ CommitRound(w) \/ RelayMail(w) \/ RecordMail(w)
       \/ KillPostman(w) \/ RepeatMessage(w)

RemindersSpec == RemindersInit /\ [][RemindersNext]_reminderVars
-----------------------------------------------------------------------------
\* "Once" (reminders.py, escalation.py, tasks.py), though rounds overlap, messages come again
\* and midnight passes: an action is escalated once in its life, nobody finds two
\* notifications of a kind about it of one day, and no mail of one day leaves twice unless a
\* worker died with a mail the relay had just taken.
ToldOnce ==
  /\ escalated <= 1
  /\ \A t \in Templates, d \in Days : notices[t][d] <= 1 /\ relayed[t][d] <= 1 + diedSending
=============================================================================
