-------------------------------- MODULE SoWhat --------------------------------
(***************************************************************************)
(* One change's "So what?" and one bank's copy of it: cases/so_what.py and *)
(* watch/so_what_draft.py.                                                 *)
(*                                                                         *)
(* A run files drafts in the library; the outbox cursor carries each to    *)
(* the bank's case while nobody there has stood behind the words.  People  *)
(* save words of their own or confirm the draft.  Unlike every other case  *)
(* write these two requests read the case without locking it, so a request *)
(* is two steps here: the read, and the write that follows from it.        *)
(*                                                                         *)
(* Words are records: [by |-> "run", n] is the n-th draft (n = 0: none),   *)
(* [by |-> person, n] what a person wrote.                                 *)
(***************************************************************************)
EXTENDS Integers

CONSTANTS People,     \* those holding cases.work
          MaxDrafts,  \* bound: drafts filed
          MaxVersion  \* bound: the case's version

ASSUME SoWhatAssumption == "run" \notin People /\ MaxDrafts \in Nat /\ MaxVersion \in Nat

VARIABLES draftText,  \* regulatory_change.so_what_draft, as its number
          undelivered,\* so_what_drafted rows the cursor has not delivered
          text, confirmed, confirmedBy, version,   \* the bank's case
          request,    \* what each person's running request has read
          batch       \* the cursor's transaction: what it read and wrote

case == <<text, confirmed, confirmedBy, version>>
vars == <<draftText, undelivered, text, confirmed, confirmedBy, version, request, batch>>

Draft(n) == [by |-> "run", n |-> n]
Own(u) == [by |-> u, n |-> 1]
Nobody == "nobody"

NoRequest == [kind |-> "none", text |-> Draft(0)]
\* taken: the events the batch has read; left: those it has still to handle;
\* wrote: the case row is written, and so locked
NoBatch == [taken |-> 0, left |-> 0, wrote |-> FALSE, text |-> Draft(0)]

Init ==
  /\ draftText = 0 /\ undelivered = 0
  /\ text = Draft(0) /\ confirmed = FALSE /\ confirmedBy = Nobody /\ version = 1
  /\ request = [u \in People |-> NoRequest]
  /\ batch = NoBatch

-----------------------------------------------------------------------------
\* so_what_draft.store, and its event in the same transaction
StoreDraft ==
  /\ draftText < MaxDrafts
  /\ draftText' = draftText + 1
  /\ undelivered' = undelivered + 1
  /\ UNCHANGED <<case, request, batch>>

\* save_so_what and confirm_so_what: _case_for, without a lock
BeginSave(u) ==
  /\ request[u] = NoRequest
  /\ request' = [request EXCEPT ![u] = [kind |-> "save", text |-> Own(u)]]
  /\ UNCHANGED <<draftText, undelivered, case, batch>>

BeginConfirm(u) ==
  /\ request[u] = NoRequest
  /\ text # Draft(0)
  /\ request' = [request EXCEPT ![u] = [kind |-> "confirm", text |-> text]]
  /\ UNCHANGED <<draftText, undelivered, case, batch>>

\* _write: every column of the wording, the text as it was read included.  The
\* UPDATE waits for the cursor's row lock.
Write(u) ==
  /\ request[u] # NoRequest /\ ~batch.wrote /\ version < MaxVersion
  /\ text' = request[u].text
  /\ confirmed' = TRUE /\ confirmedBy' = u
  /\ version' = version + 1
  /\ request' = [request EXCEPT ![u] = NoRequest]
  /\ UNCHANGED <<draftText, undelivered, batch>>

BeginBatch ==
  /\ batch = NoBatch /\ undelivered > 0
  /\ batch' = [NoBatch EXCEPT !.taken = undelivered, !.left = undelivered]
  /\ UNCHANGED <<draftText, undelivered, case, request>>

\* What the batch's transaction sees: its own write first.
SeenText == IF batch.wrote THEN batch.text ELSE text

\* mutant: the bank's own words are not told from the draft
ApplyToEveryCopy ==
  /\ batch.left > 0
  /\ batch' = IF SeenText # Draft(draftText)
              THEN [batch EXCEPT !.left = @ - 1, !.wrote = TRUE, !.text = Draft(draftText)]
              ELSE [batch EXCEPT !.left = @ - 1]
  /\ UNCHANGED <<draftText, undelivered, case, request>>

\* apply_draft for one event: the library's words as they are now, into the
\* case if nobody has confirmed it and it says otherwise.
ApplyDraft ==
  /\ batch.left > 0
  /\ batch' = IF ~confirmed /\ SeenText # Draft(draftText)
              THEN [batch EXCEPT !.left = @ - 1, !.wrote = TRUE, !.text = Draft(draftText)]
              ELSE [batch EXCEPT !.left = @ - 1]
  /\ UNCHANGED <<draftText, undelivered, case, request>>

\* mutant: every row is marked published, the ones that came meanwhile too
CommitMarkingAll ==
  /\ batch.taken > 0 /\ batch.left = 0
  /\ text' = SeenText
  /\ undelivered' = 0
  /\ batch' = NoBatch
  /\ UNCHANGED <<draftText, confirmed, confirmedBy, version, request>>

CommitBatch ==
  /\ batch.taken > 0 /\ batch.left = 0
  /\ text' = SeenText
  /\ undelivered' = undelivered - batch.taken
  /\ batch' = NoBatch
  /\ UNCHANGED <<draftText, confirmed, confirmedBy, version, request>>

RollbackBatch ==
  /\ batch.taken > 0
  /\ batch' = NoBatch
  /\ UNCHANGED <<draftText, undelivered, case, request>>

Next ==
  \/ StoreDraft
  \/ \E u \in People : BeginSave(u) \/ BeginConfirm(u) \/ Write(u)
  \/ BeginBatch \/ ApplyDraft \/ CommitBatch \/ RollbackBatch

Spec == Init /\ [][Next]_vars

-----------------------------------------------------------------------------
Words == [by : {"run"}, n : 0..MaxDrafts] \cup [by : People, n : {1}]

\* An unconfirmed copy is the model's words: a person's own are confirmed by the
\* save that stores them.
TypeOK ==
  /\ draftText \in 0..MaxDrafts /\ undelivered \in 0..MaxDrafts
  /\ text \in Words /\ confirmed \in BOOLEAN
  /\ confirmedBy \in People \cup {Nobody} /\ version \in 1..MaxVersion
  /\ request \in [People -> [kind : {"none", "save", "confirm"}, text : Words]]
  /\ batch \in [taken : 0..MaxDrafts, left : 0..MaxDrafts, wrote : BOOLEAN, text : Words]
  /\ ~confirmed => text.by = "run" /\ confirmedBy = Nobody

\* "An agent never overwrites them": once a person has confirmed or rewritten a
\* copy no draft arriving later changes it, whatever batch was under way when
\* they did.
AgentsLeaveTheBanksWords ==
  [][confirmed /\ text' # text => version' > version /\ confirmed']_vars

\* "Brings every copy that is still the unedited draft up to the new words": with
\* no event left to deliver an unconfirmed copy holds the newest draft.
UntouchedCopyIsCurrent ==
  undelivered = 0 /\ ~confirmed => text = Draft(draftText)
=============================================================================
