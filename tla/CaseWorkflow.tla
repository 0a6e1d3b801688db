---------------------------- MODULE CaseWorkflow ----------------------------
(***************************************************************************)
(* One bank's case for one regulatory change: apps/cases.                  *)
(*                                                                         *)
(* The state is the case row, its impact assessment, its actions and its   *)
(* evidence, as the database holds them between two transactions.  Every   *)
(* handler that moves or edits a case locks the case row first             *)
(* (logic.load_case(for_update=True)) and runs in the request's one        *)
(* transaction, so a handler is one atomic step; a refused handler rolls   *)
(* back and is no step at all.  What interleaves is the people: each reads *)
(* the case when it likes (ReadCase, ReadAction) and writes later from     *)
(* that copy, with the version it read in If-Match.  The malware scanner   *)
(* decides a pending file between any two steps; EvidenceScan.tla opens    *)
(* that step up.                                                           *)
(*                                                                         *)
(* The case's version is the If-Match of every case write, an action's     *)
(* version that of its own edits.  Attaching or removing evidence names no *)
(* version and raises none.                                                *)
(***************************************************************************)
EXTENDS Integers, FiniteSets

CONSTANTS People,           \* active members of the bank
          Triagers,         \* those holding cases.triage
          Workers,          \* ... cases.work
          Contributors,     \* ... cases.contribute
          Signers,          \* ... cases.signoff
          Actions,          \* action ids the case may come to hold
          Evidence,         \* evidence ids the case may come to hold
          ActionsMax,       \* settings.CASE_ACTIONS_MAX
          EvidenceMax,      \* settings.CASE_EVIDENCE_MAX
          MaxVersion,       \* bound: the highest case version explored
          MaxActionVersion, \* bound: the highest action version explored
          None              \* a null foreign key

ASSUME NoneAssumption == None \notin People
ASSUME RolesAssumption ==
  /\ Triagers \subseteq People
  /\ Workers \subseteq People
  /\ Contributors \subseteq People
  /\ Signers \subseteq People
ASSUME BoundsAssumption ==
  /\ ActionsMax \in Nat /\ EvidenceMax \in Nat
  /\ MaxVersion \in Nat /\ MaxActionVersion \in Nat

VARIABLES status, version, owner, requester, signedOffBy, closeReason,
          assessment, actions, evidence, lastMove,
          copy,     \* what each person last read: the versions, no more
          asked,    \* history: the file the standing sign-off request was made with
          askedAt   \* history: the case version that request produced

caseRow == <<status, version, owner, requester, signedOffBy, closeReason, lastMove>>
children == <<assessment, actions, evidence>>
history == <<asked, askedAt>>
vars == <<status, version, owner, requester, signedOffBy, closeReason,
          assessment, actions, evidence, lastMove, copy, asked, askedAt>>

Statuses == {"new", "dismissed", "assigned", "assessing",
             "implementing", "signoff", "closed"}
OnePersonClose == {"no_action", "not_applicable"}
CloseReasons == OnePersonClose \cup {"signed_off"}

\* state.TRANSITIONS, one pair per drawn edge (and, for the mutation run, a
\* table that also draws a close from implementing)
EdgesClosingUnsigned == {<<"new", "assigned">>, <<"new", "dismissed">>,
          <<"assigned", "assessing">>, <<"assessing", "implementing">>,
          <<"implementing", "signoff">>, <<"implementing", "closed">>}
Edges == {<<"new", "assigned">>, <<"new", "dismissed">>, <<"dismissed", "new">>,
          <<"assigned", "assessing">>, <<"assigned", "closed">>,
          <<"assessing", "implementing">>, <<"assessing", "closed">>,
          <<"implementing", "signoff">>,
          <<"signoff", "implementing">>, <<"signoff", "closed">>,
          <<"closed", "new">>}

-----------------------------------------------------------------------------
(* What the guards read: logic.case_facts_for.                             *)

IsLive(row) == row.state \in {"open", "done"}
LiveActions == {a \in Actions : IsLive(actions[a])}
OpenActions == {a \in Actions : actions[a].state = "open"}
LiveEvidence == {e \in Evidence : evidence[e].live}
CleanEvidence == {e \in LiveEvidence : evidence[e].scan = "clean"}

CaseFacts(u) == [owner |-> owner, why |-> assessment.saved, open |-> OpenActions,
                 clean |-> CleanEvidence, requester |-> requester, actor |-> u,
                 reason |-> closeReason]

SecondPerson(f) == f.requester # None /\ f.actor # f.requester
AnyClose(f) == f.reason # None               \* mutant: a signed-off close reopens
RestorableClose(f) == f.reason \in OnePersonClose

\* state.GUARDS: an edge not named here has no guard.  The dismissal's reason
\* is a key the handler has already resolved, so reason_on_dismissal holds.
GuardsHold(from, to, f) ==
  /\ from = "new" /\ to = "assigned" => f.owner # None
  /\ from \in {"assigned", "assessing"} /\ to = "closed" => f.reason \in OnePersonClose
  /\ from = "assessing" /\ to = "implementing" => f.why
  /\ from = "implementing" /\ to = "signoff" => f.open = {} /\ f.clean # {}
  /\ from = "signoff" /\ to = "closed" => SecondPerson(f)
  /\ from = "closed" /\ to = "new" => RestorableClose(f)

\* logic.transition: the check, the new category, the raised version and the
\* case_transition row (the newest one: the ledger only grows).
Transition(u, to, facts) ==
  /\ <<status, to>> \in Edges
  /\ GuardsHold(status, to, facts)
  /\ version < MaxVersion
  /\ status' = to
  /\ version' = version + 1
  /\ lastMove' = [from |-> status, to |-> to, by |-> u]

\* mutant: the header must be there and nothing compares it
IfMatchPresent(u) == copy[u].case > 0
\* logic.check_version
IfMatch(u) == copy[u].case = version

-----------------------------------------------------------------------------
Init ==
  /\ status = "new" /\ version = 1 /\ owner = None
  /\ requester = None /\ signedOffBy = None /\ closeReason = None
  /\ assessment = [started |-> FALSE, saved |-> FALSE, applies |-> "yes", version |-> 0]
  /\ actions = [a \in Actions |-> [state |-> "none", version |-> 0]]
  /\ evidence = [e \in Evidence |-> [live |-> FALSE, scan |-> "none"]]
  /\ lastMove = [from |-> "none", to |-> "new", by |-> None]
  /\ copy = [u \in People |-> [case |-> 0, assessment |-> 0, action |-> [a \in Actions |-> 0]]]
  /\ asked = [actions |-> {}, evidence |-> {}] /\ askedAt = 0

(* Reads.  A case answer carries the case's version and its assessment; the
   actions are a list of their own.                                        *)
ReadCase(u) ==
  /\ copy' = [copy EXCEPT ![u] = [case |-> version, assessment |-> assessment.version,
                                  action |-> @.action]]
  /\ UNCHANGED <<caseRow, children, history>>

ReadAction(u, a) ==
  /\ IsLive(actions[a])
  /\ copy' = [copy EXCEPT ![u].action[a] = actions[a].version]
  /\ UNCHANGED <<caseRow, children, history>>

(* triage.py *)
TriageChange(u, o) ==
  /\ u \in Triagers /\ IfMatch(u)
  /\ o \in Workers
  /\ owner' = o
  /\ Transition(u, "assigned", [CaseFacts(u) EXCEPT !.owner = o])
  /\ UNCHANGED <<requester, signedOffBy, closeReason, children, copy, history>>

DismissChange(u) ==
  /\ u \in Triagers /\ IfMatch(u)
  /\ Transition(u, "dismissed", CaseFacts(u))
  /\ UNCHANGED <<owner, requester, signedOffBy, closeReason, children, copy, history>>

RestoreChange(u) ==
  /\ u \in Triagers /\ IfMatch(u)
  /\ Transition(u, "new", CaseFacts(u))
  /\ closeReason' = None
  /\ UNCHANGED <<owner, requester, signedOffBy, children, copy, history>>

CloseWithoutAction(u, reason) ==
  /\ u \in Workers /\ IfMatch(u)
  /\ status \in {"assigned", "assessing"}
  /\ closeReason' = reason
  /\ Transition(u, "closed", [CaseFacts(u) EXCEPT !.reason = reason])
  /\ UNCHANGED <<owner, requester, signedOffBy, children, copy, history>>

(* assessment.py *)
StartAssessment(u) ==
  /\ u \in Workers /\ IfMatch(u)
  /\ Transition(u, "assessing", CaseFacts(u))
  /\ assessment' = IF assessment.started THEN assessment   \* get_or_create
                   ELSE [started |-> TRUE, saved |-> FALSE, applies |-> "yes", version |-> 1]
  /\ UNCHANGED <<owner, requester, signedOffBy, closeReason, actions, evidence, copy, history>>

Saved(applies) ==
  [started |-> assessment.started, saved |-> TRUE, applies |-> applies,
   version |-> assessment.version + 1]

\* mutant: the save raises the assessment's version and not the case's
SaveAssessmentAlone(u) ==
  /\ u \in Contributors /\ IfMatch(u)
  /\ status \in {"assessing", "implementing"}
  /\ assessment' = Saved("yes")
  /\ UNCHANGED <<caseRow, actions, evidence, copy, history>>

\* "yes" stands for yes and partly, which nothing tells apart
SaveAssessment(u) ==
  /\ u \in Contributors /\ IfMatch(u)
  /\ status \in {"assessing", "implementing"}
  /\ version < MaxVersion
  /\ assessment' = Saved("yes")
  /\ version' = version + 1
  /\ UNCHANGED <<status, owner, requester, signedOffBy, closeReason, lastMove,
                 actions, evidence, copy, history>>

\* applies = no closes the case on one person's word, which only cases.work may
SaveNotApplicable(u) ==
  /\ u \in Contributors \cap Workers /\ IfMatch(u)
  /\ status \in {"assessing", "implementing"}
  /\ assessment' = Saved("no")
  /\ closeReason' = "not_applicable"
  /\ Transition(u, "closed", [CaseFacts(u) EXCEPT !.reason = "not_applicable"])
  /\ UNCHANGED <<owner, requester, signedOffBy, actions, evidence, copy, history>>

(* actions.py *)
AddAction(u, a) ==
  /\ u \in Workers /\ IfMatch(u)
  /\ status \in {"assessing", "implementing"}
  /\ Cardinality(LiveActions) < ActionsMax
  /\ actions[a].state = "none"
  /\ actions' = [actions EXCEPT ![a] = [state |-> "open", version |-> 1]]
  /\ \/ status = "assessing" /\ Transition(u, "implementing", CaseFacts(u))
     \/ status = "implementing" /\ UNCHANGED <<status, version, lastMove>>
  /\ UNCHANGED <<owner, requester, signedOffBy, closeReason, assessment, evidence,
                 copy, history>>

\* actions._locked_action: the live row, read again under the case's lock
LockedAction(u, a) ==
  /\ IsLive(actions[a])
  /\ status \in {"assessing", "implementing"}
  /\ copy[u].action[a] = actions[a].version
  /\ actions[a].version < MaxActionVersion

\* done TRUE completes it, FALSE reopens it; an edit of title, owner or due
\* date is the case where it stays as it was.
UpdateAction(u, a, done) ==
  /\ u \in Contributors /\ LockedAction(u, a)
  /\ actions' = [actions EXCEPT ![a].state = IF done THEN "done" ELSE "open",
                                ![a].version = @ + 1]
  /\ UNCHANGED <<caseRow, assessment, evidence, copy, history>>

DeleteAction(u, a) ==
  /\ u \in Workers /\ LockedAction(u, a)
  /\ actions' = [actions EXCEPT ![a].state = "removed", ![a].version = @ + 1]
  /\ UNCHANGED <<caseRow, assessment, evidence, copy, history>>

(* evidence.py *)
EvidenceOpenInSignoff == status \notin {"closed", "dismissed"}   \* mutant
EvidenceMayChange == status \notin {"closed", "dismissed", "signoff"}

\* A file starts pending; a link or a reference has nothing to scan.
AddEvidence(u, e, scan) ==
  /\ u \in Contributors
  /\ EvidenceMayChange
  /\ Cardinality(LiveEvidence) < EvidenceMax
  /\ evidence[e].scan = "none"
  /\ evidence' = [evidence EXCEPT ![e] = [live |-> TRUE, scan |-> scan]]
  /\ UNCHANGED <<caseRow, assessment, actions, copy, history>>

RemoveEvidence(u, e) ==
  /\ u \in Workers
  /\ EvidenceMayChange
  /\ evidence[e].live
  /\ evidence' = [evidence EXCEPT ![e].live = FALSE]
  /\ UNCHANGED <<caseRow, assessment, actions, copy, history>>

\* tasks.scan_evidence's second transaction: it locks no case and looks at no
\* status, and a removed file is decided too.
ScanEvidence(e, verdict) ==
  /\ evidence[e].scan = "pending"
  /\ evidence' = [evidence EXCEPT ![e].scan = verdict]
  /\ UNCHANGED <<caseRow, assessment, actions, copy, history>>

(* signoff.py *)
File == [actions |-> LiveActions, evidence |-> LiveEvidence]

RequestSignoff(u) ==
  /\ u \in Workers /\ IfMatch(u)
  /\ requester' = u
  /\ Transition(u, "signoff", CaseFacts(u))
  /\ asked' = File /\ askedAt' = version'
  /\ UNCHANGED <<owner, signedOffBy, closeReason, children, copy>>

ApproveSignoff(u) ==
  /\ u \in Signers /\ IfMatch(u)
  /\ status = "signoff"
  /\ signedOffBy' = u
  /\ closeReason' = "signed_off"
  /\ Transition(u, "closed", CaseFacts(u))
  /\ UNCHANGED <<owner, requester, children, copy, history>>

\* mutant: the request columns are not cleared
SendBackKeepingTheRequest(u) ==
  /\ u \in Signers /\ IfMatch(u)
  /\ status = "signoff"
  /\ Transition(u, "implementing", CaseFacts(u))
  /\ UNCHANGED <<owner, requester, signedOffBy, closeReason, children, copy, history>>

SendBackSignoff(u) ==
  /\ u \in Signers /\ IfMatch(u)
  /\ requester' = None
  /\ status = "signoff"
  /\ Transition(u, "implementing", CaseFacts(u))
  /\ UNCHANGED <<owner, signedOffBy, closeReason, children, copy, history>>

(* so_what.py: saving or confirming the wording writes the case in any
   category and raises its version, naming none (SoWhat.tla has the text). *)
WriteSoWhat(u) ==
  /\ u \in Workers
  /\ version < MaxVersion
  /\ version' = version + 1
  /\ UNCHANGED <<status, owner, requester, signedOffBy, closeReason, lastMove,
                 children, copy, history>>

-----------------------------------------------------------------------------
CaseMove(u) ==
  \/ \E o \in People : TriageChange(u, o)
  \/ DismissChange(u) \/ RestoreChange(u)
  \/ \E reason \in OnePersonClose : CloseWithoutAction(u, reason)
  \/ StartAssessment(u)
  \/ SaveAssessment(u) \/ SaveNotApplicable(u)
  \/ RequestSignoff(u) \/ ApproveSignoff(u) \/ SendBackSignoff(u)
  \/ WriteSoWhat(u)

ChildWrite(u) ==
  \/ \E a \in Actions :
       \/ AddAction(u, a) \/ DeleteAction(u, a)
       \/ \E done \in BOOLEAN : UpdateAction(u, a, done)
  \/ \E e \in Evidence :
       \/ \E scan \in {"pending", "clean"} : AddEvidence(u, e, scan)
       \/ RemoveEvidence(u, e)

Next ==
  \/ \E u \in People :
       \/ ReadCase(u) \/ \E a \in Actions : ReadAction(u, a)
       \/ CaseMove(u) \/ ChildWrite(u)
  \/ \E e \in Evidence, verdict \in {"clean", "infected", "error"} : ScanEvidence(e, verdict)

Spec == Init /\ [][Next]_vars

-----------------------------------------------------------------------------
(* Type correctness, and what the safety properties are made of.           *)

TypeOK ==
  /\ status \in Statuses
  /\ version \in Nat
  /\ owner \in People \cup {None}
  /\ requester \in People \cup {None}
  /\ signedOffBy \in People \cup {None}
  /\ closeReason \in CloseReasons \cup {None}
  /\ assessment \in [started : BOOLEAN, saved : BOOLEAN,
                     applies : {"yes", "no"}, version : Nat]
  /\ actions \in [Actions -> [state : {"none", "open", "done", "removed"}, version : Nat]]
  /\ evidence \in [Evidence -> [live : BOOLEAN,
                                scan : {"none", "pending", "clean", "infected", "error"}]]
  /\ lastMove \in [from : Statuses \cup {"none"}, to : Statuses, by : People \cup {None}]
  /\ copy \in [People -> [case : Nat, assessment : Nat, action : [Actions -> Nat]]]
  /\ asked \in [actions : SUBSET Actions, evidence : SUBSET Evidence]
  /\ askedAt \in Nat

SignedOff == signedOffBy # None
Awaited == status = "signoff" \/ SignedOff
Planned == {a \in Actions : actions[a].state # "none"}

\* The change_case_four_eyes CHECK of cases migration 0002 is never the one to
\* refuse: whoever signed off answers a request, and never their own.
FourEyesHeld ==
  SignedOff => /\ status = "closed" /\ closeReason = "signed_off"
               /\ requester # None /\ requester # signedOffBy
               /\ lastMove = [from |-> "signoff", to |-> "closed", by |-> signedOffBy]

\* "What the second person signs off is what the request was made with"
\* (evidence._refuse_when_closed): while sign-off is awaited and for ever after
\* the approval the live actions and evidence are those of the request, none of
\* the actions is open, one piece of evidence is clean and the why is saved,
\* whatever people send and whenever a scan answers.
SignoffCoversTheRequest ==
  Awaited => /\ File = asked
             /\ OpenActions = {}
             /\ CleanEvidence # {}
             /\ assessment.saved

\* One person closes a case only while nothing was planned for it: a case that
\* ever held an action, removed ones included, is being implemented, awaits
\* sign-off or was signed off (state.TRANSITIONS draws no way back).
PlannedWorkNeedsTwoPeople ==
  Planned # {} => status = "implementing" \/ Awaited

\* A case's version guards its assessment too, whose own version no write
\* compares: a person whose copy of the case is current has read the
\* assessment as it stands, so a save replaces only what its author has seen.
CurrentCopyHasTheAssessment ==
  \A u \in People : IfMatch(u) => copy[u].assessment = assessment.version

\* Whoever approves has read the case since this very request was made: a
\* send-back and a new request in between make the approver's copy stale.
ApprovedAsRead ==
  [][\A u \in People : signedOffBy' # signedOffBy /\ signedOffBy' = u
        => copy[u].case >= askedAt]_vars

\* A signed-off case stays as it was signed: no write of any kind changes the
\* row (its so-what and version apart), the assessment or an action, and of the
\* evidence only a verdict still pending may arrive.
SignedOffIsFinal ==
  [][SignedOff => /\ UNCHANGED <<status, owner, requester, signedOffBy, closeReason,
                                 lastMove, assessment, actions>>
                  /\ \A e \in Evidence :
                       /\ evidence'[e].live = evidence[e].live
                       /\ evidence[e].scan # "pending" => evidence'[e] = evidence[e]]_vars

\* The case's sign-off is a four-eyes decision on the case's file.
SignoffAsFourEyes ==
  INSTANCE FourEyes WITH
    Materials <- [actions : SUBSET Actions, evidence : SUBSET Evidence],
    asker <- requester,
    decider <- signedOffBy,
    material <- File

\* The workflow implements the abstract control: every step of it is a step of
\* FourEyes on the live actions and evidence, or leaves them and the two names
\* alone.
ImplementsFourEyes == SignoffAsFourEyes!Spec
=============================================================================
