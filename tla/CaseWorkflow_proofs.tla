------------------------- MODULE CaseWorkflow_proofs -------------------------
(***************************************************************************)
(* The case workflow's type invariant and its sign-off invariants, for     *)
(* every set of people, roles, actions and pieces of evidence, and every   *)
(* bound on the versions.                                                  *)
(***************************************************************************)
EXTENDS CaseWorkflow, TLAPS

\* Every step, by handler: what each proof below goes through.
USE DEF vars, caseRow, children, history

\* The type invariant: no handler leaves the case, its children or a reader's
\* copy outside the values the schema's columns hold.
THEOREM TypeCorrect == Spec => []TypeOK
<1>1. Init => TypeOK
  BY DEF Init, TypeOK, Statuses
<1>2. TypeOK /\ [Next]_vars => TypeOK'
  <2> SUFFICES ASSUME TypeOK, [Next]_vars PROVE TypeOK'
    OBVIOUS
  <2> USE DEF TypeOK
  <2>1. ASSUME NEW u \in People, ReadCase(u) PROVE TypeOK'
    BY <2>1 DEF ReadCase
  <2>2. ASSUME NEW u \in People, NEW a \in Actions, ReadAction(u, a) PROVE TypeOK'
    BY ZenonT(60), <2>2 DEF ReadAction
  <2>3. ASSUME NEW u \in People, NEW o \in People, TriageChange(u, o) PROVE TypeOK'
    BY <2>3 DEF TriageChange, Transition, Statuses
  <2>4. ASSUME NEW u \in People, DismissChange(u) PROVE TypeOK'
    BY <2>4 DEF DismissChange, Transition, Statuses
  <2>5. ASSUME NEW u \in People, RestoreChange(u) PROVE TypeOK'
    BY <2>5 DEF RestoreChange, Transition, Statuses
  <2>6. ASSUME NEW u \in People, NEW r \in OnePersonClose, CloseWithoutAction(u, r)
        PROVE TypeOK'
    BY <2>6 DEF CloseWithoutAction, Transition, Statuses, CloseReasons
  <2>7. ASSUME NEW u \in People, StartAssessment(u) PROVE TypeOK'
    BY <2>7 DEF StartAssessment, Transition, Statuses
  <2>8. ASSUME NEW u \in People, SaveAssessment(u) PROVE TypeOK'
    BY <2>8 DEF SaveAssessment, Saved
  <2>9. ASSUME NEW u \in People, SaveNotApplicable(u) PROVE TypeOK'
    BY <2>9 DEF SaveNotApplicable, Saved, Transition, Statuses, CloseReasons, OnePersonClose
  <2>10. ASSUME NEW u \in People, RequestSignoff(u) PROVE TypeOK'
    BY <2>10 DEF RequestSignoff, Transition, Statuses, File, LiveActions, LiveEvidence
  <2>11. ASSUME NEW u \in People, ApproveSignoff(u) PROVE TypeOK'
    BY <2>11 DEF ApproveSignoff, Transition, Statuses, CloseReasons
  <2>12. ASSUME NEW u \in People, SendBackSignoff(u) PROVE TypeOK'
    BY <2>12 DEF SendBackSignoff, Transition, Statuses
  <2>13. ASSUME NEW u \in People, WriteSoWhat(u) PROVE TypeOK'
    BY <2>13 DEF WriteSoWhat
  <2>14. ASSUME NEW u \in People, NEW a \in Actions, AddAction(u, a) PROVE TypeOK'
    BY <2>14 DEF AddAction, Transition, Statuses
  <2>15. ASSUME NEW u \in People, NEW a \in Actions, DeleteAction(u, a) PROVE TypeOK'
    BY <2>15 DEF DeleteAction
  <2>16. ASSUME NEW u \in People, NEW a \in Actions, NEW d \in BOOLEAN, UpdateAction(u, a, d)
         PROVE TypeOK'
    BY <2>16 DEF UpdateAction
  <2>17. ASSUME NEW u \in People, NEW e \in Evidence, NEW s \in {"pending", "clean"},
                AddEvidence(u, e, s)
         PROVE TypeOK'
    BY <2>17 DEF AddEvidence
  <2>18. ASSUME NEW u \in People, NEW e \in Evidence, RemoveEvidence(u, e) PROVE TypeOK'
    BY ZenonT(60), <2>18 DEF RemoveEvidence
  <2>19. ASSUME NEW e \in Evidence, NEW v \in {"clean", "infected", "error"}, ScanEvidence(e, v)
         PROVE TypeOK'
    BY <2>19 DEF ScanEvidence
  <2>20. CASE UNCHANGED vars
    BY <2>20
  <2> QED
    BY <2>1, <2>2, <2>3, <2>4, <2>5, <2>6, <2>7, <2>8, <2>9, <2>10, <2>11, <2>12, <2>13,
       <2>14, <2>15, <2>16, <2>17, <2>18, <2>19, <2>20 DEF Next, CaseMove, ChildWrite
<1> QED
  BY <1>1, <1>2, PTL DEF Spec

-----------------------------------------------------------------------------
(***************************************************************************)
(* The sign-off invariants are inductive together with two facts: a        *)
(* request stands exactly while sign-off is awaited or was given, and no   *)
(* case is implemented before its assessment is saved.                     *)
(***************************************************************************)
RequestStands == requester # None <=> Awaited
WorkIsAssessed == status \in {"implementing", "signoff"} => assessment.saved

SignoffInv ==
  /\ FourEyesHeld
  /\ SignoffCoversTheRequest
  /\ PlannedWorkNeedsTwoPeople
  /\ RequestStands
  /\ WorkIsAssessed

\* What the sign-off invariants say of a step depends on the rows they read.
LEMMA SignoffInvKept ==
  ASSUME SignoffInv,
         UNCHANGED <<status, requester, signedOffBy, closeReason, assessment, actions,
                     evidence, lastMove, asked>>
  PROVE SignoffInv'
  BY DEF SignoffInv, FourEyesHeld, SignoffCoversTheRequest, PlannedWorkNeedsTwoPeople,
         RequestStands, WorkIsAssessed, SignedOff, Awaited, Planned, File, LiveActions,
         LiveEvidence, OpenActions, CleanEvidence, IsLive

\* One step of the workflow keeps the sign-off invariants, handler by handler.
LEMMA SignoffInvStep == TypeOK /\ SignoffInv /\ [Next]_vars => SignoffInv'
<1> SUFFICES ASSUME TypeOK, SignoffInv, [Next]_vars PROVE SignoffInv'
  OBVIOUS
<1> USE DEF SignoffInv, FourEyesHeld, SignoffCoversTheRequest, PlannedWorkNeedsTwoPeople,
            RequestStands, WorkIsAssessed, SignedOff, Awaited, Planned, File, LiveActions,
            LiveEvidence, OpenActions, CleanEvidence, IsLive
<1>1. ASSUME NEW u \in People, ReadCase(u) PROVE SignoffInv'
  BY <1>1, SignoffInvKept DEF ReadCase
<1>2. ASSUME NEW u \in People, NEW a \in Actions, ReadAction(u, a) PROVE SignoffInv'
  BY <1>2, SignoffInvKept DEF ReadAction
<1>3. ASSUME NEW u \in People, NEW o \in People, TriageChange(u, o) PROVE SignoffInv'
  BY <1>3, NoneAssumption DEF TriageChange, Transition, Edges, TypeOK
<1>4. ASSUME NEW u \in People, DismissChange(u) PROVE SignoffInv'
  BY <1>4, NoneAssumption DEF DismissChange, Transition, Edges, TypeOK
<1>5. ASSUME NEW u \in People, RestoreChange(u) PROVE SignoffInv'
  BY <1>5, NoneAssumption DEF RestoreChange, Transition, Edges, GuardsHold, RestorableClose, CaseFacts, OnePersonClose, TypeOK
<1>6. ASSUME NEW u \in People, NEW r \in OnePersonClose, CloseWithoutAction(u, r) PROVE SignoffInv'
  BY <1>6, NoneAssumption DEF CloseWithoutAction, Transition, Edges, TypeOK
<1>7. ASSUME NEW u \in People, StartAssessment(u) PROVE SignoffInv'
  BY <1>7, NoneAssumption DEF StartAssessment, Transition, Edges, TypeOK
<1>8. ASSUME NEW u \in People, SaveAssessment(u) PROVE SignoffInv'
  BY <1>8, NoneAssumption DEF SaveAssessment, Saved, TypeOK
<1>9. ASSUME NEW u \in People, SaveNotApplicable(u) PROVE SignoffInv'
  BY <1>9, NoneAssumption DEF SaveNotApplicable, Saved, Transition, Edges, TypeOK
<1>10. ASSUME NEW u \in People, RequestSignoff(u) PROVE SignoffInv'
  BY <1>10, NoneAssumption DEF RequestSignoff, Transition, Edges, GuardsHold, CaseFacts, TypeOK
<1>11. ASSUME NEW u \in People, ApproveSignoff(u) PROVE SignoffInv'
  BY <1>11, NoneAssumption DEF ApproveSignoff, Transition, Edges, GuardsHold, SecondPerson, CaseFacts, TypeOK
<1>12. ASSUME NEW u \in People, SendBackSignoff(u) PROVE SignoffInv'
  BY <1>12, NoneAssumption DEF SendBackSignoff, Transition, Edges, TypeOK
<1>13. ASSUME NEW u \in People, WriteSoWhat(u) PROVE SignoffInv'
  BY <1>13, SignoffInvKept DEF WriteSoWhat
<1>14. ASSUME NEW u \in People, NEW a \in Actions, AddAction(u, a) PROVE SignoffInv'
  BY <1>14, NoneAssumption DEF AddAction, Transition, Edges, GuardsHold, CaseFacts, TypeOK
<1>15. ASSUME NEW u \in People, NEW a \in Actions, DeleteAction(u, a) PROVE SignoffInv'
  BY <1>15, NoneAssumption DEF DeleteAction, LockedAction, TypeOK
<1>16. ASSUME NEW u \in People, NEW a \in Actions, NEW d \in BOOLEAN, UpdateAction(u, a, d) PROVE SignoffInv'
  BY <1>16, NoneAssumption DEF UpdateAction, LockedAction, TypeOK
<1>17. ASSUME NEW u \in People, NEW e \in Evidence, NEW s \in {"pending", "clean"}, AddEvidence(u, e, s) PROVE SignoffInv'
  BY <1>17, NoneAssumption DEF AddEvidence, EvidenceMayChange, TypeOK
<1>18. ASSUME NEW u \in People, NEW e \in Evidence, RemoveEvidence(u, e) PROVE SignoffInv'
  BY <1>18, NoneAssumption DEF RemoveEvidence, EvidenceMayChange, TypeOK
<1>19. ASSUME NEW e \in Evidence, NEW v \in {"clean", "infected", "error"}, ScanEvidence(e, v) PROVE SignoffInv'
  BY <1>19, NoneAssumption DEF ScanEvidence, TypeOK
<1>20. CASE UNCHANGED vars
  BY <1>20, SignoffInvKept
<1> QED
  BY <1>1, <1>2, <1>3, <1>4, <1>5, <1>6, <1>7, <1>8, <1>9, <1>10, <1>11, <1>12, <1>13, <1>14, <1>15, <1>16, <1>17, <1>18, <1>19, <1>20 DEF Next, CaseMove, ChildWrite

\* Every reachable state keeps the sign-off invariants.
THEOREM SignoffInvariant == Spec => []SignoffInv
<1>1. Init => SignoffInv
  BY NoneAssumption DEF Init, SignoffInv, FourEyesHeld, SignoffCoversTheRequest,
     PlannedWorkNeedsTwoPeople, RequestStands, WorkIsAssessed, SignedOff, Awaited, Planned
<1> QED
  BY <1>1, SignoffInvStep, TypeCorrect, PTL DEF Spec

\* Four eyes (the change_case_four_eyes CHECK): whoever signs a case off answers
\* a standing request that was not theirs, whoever holds which permission.
THEOREM FourEyesTheorem == Spec => []FourEyesHeld
  BY SignoffInvariant, PTL DEF SignoffInv

\* What the second person signs off is what the request was made with
\* (evidence._refuse_when_closed, actions._check_open_to_work).
THEOREM SignoffCoverage == Spec => []SignoffCoversTheRequest
  BY SignoffInvariant, PTL DEF SignoffInv

\* A case with any planned action closes by two people only (state.TRANSITIONS).
THEOREM PlannedWork == Spec => []PlannedWorkNeedsTwoPeople
  BY SignoffInvariant, PTL DEF SignoffInv

-----------------------------------------------------------------------------
(***************************************************************************)
(* If-Match: a person's copy is never ahead of the case, and one that is   *)
(* level with it was read since the last write that raised the version.    *)
(***************************************************************************)
CopyInv ==
  /\ askedAt <= version
  /\ \A u \in People : copy[u].case <= version
  /\ CurrentCopyHasTheAssessment

\* One step of the workflow keeps every copy level with the case or behind it.
LEMMA CopyInvStep == TypeOK /\ CopyInv /\ [Next]_vars => CopyInv'
<1> SUFFICES ASSUME TypeOK, CopyInv, [Next]_vars PROVE CopyInv'
  OBVIOUS
<1> USE DEF TypeOK, CopyInv, CurrentCopyHasTheAssessment, IfMatch
<1>1. ASSUME NEW u \in People, ReadCase(u) PROVE CopyInv'
  BY <1>1 DEF ReadCase
<1>2. ASSUME NEW u \in People, NEW a \in Actions, ReadAction(u, a) PROVE CopyInv'
  <2>1. \A p \in People : copy'[p].case = copy[p].case /\ copy'[p].assessment = copy[p].assessment
    BY <1>2 DEF ReadAction
  <2> QED
    BY <1>2, <2>1 DEF ReadAction
<1>3. ASSUME NEW u \in People, NEW o \in People, TriageChange(u, o) PROVE CopyInv'
  BY <1>3 DEF TriageChange, Transition
<1>4. ASSUME NEW u \in People, DismissChange(u) PROVE CopyInv'
  BY <1>4 DEF DismissChange, Transition
<1>5. ASSUME NEW u \in People, RestoreChange(u) PROVE CopyInv'
  BY <1>5 DEF RestoreChange, Transition
<1>6. ASSUME NEW u \in People, NEW r \in OnePersonClose, CloseWithoutAction(u, r) PROVE CopyInv'
  BY <1>6 DEF CloseWithoutAction, Transition
<1>7. ASSUME NEW u \in People, StartAssessment(u) PROVE CopyInv'
  BY <1>7 DEF StartAssessment, Transition
<1>8. ASSUME NEW u \in People, SaveAssessment(u) PROVE CopyInv'
  BY <1>8 DEF SaveAssessment, Saved
<1>9. ASSUME NEW u \in People, SaveNotApplicable(u) PROVE CopyInv'
  BY <1>9 DEF SaveNotApplicable, Saved, Transition
<1>10. ASSUME NEW u \in People, RequestSignoff(u) PROVE CopyInv'
  BY <1>10 DEF RequestSignoff, Transition
<1>11. ASSUME NEW u \in People, ApproveSignoff(u) PROVE CopyInv'
  BY <1>11 DEF ApproveSignoff, Transition
<1>12. ASSUME NEW u \in People, SendBackSignoff(u) PROVE CopyInv'
  BY <1>12 DEF SendBackSignoff, Transition
<1>13. ASSUME NEW u \in People, WriteSoWhat(u) PROVE CopyInv'
  BY <1>13 DEF WriteSoWhat
<1>14. ASSUME NEW u \in People, NEW a \in Actions, AddAction(u, a) PROVE CopyInv'
  BY <1>14 DEF AddAction, Transition
<1>15. ASSUME NEW u \in People, NEW a \in Actions, DeleteAction(u, a) PROVE CopyInv'
  BY <1>15 DEF DeleteAction
<1>16. ASSUME NEW u \in People, NEW a \in Actions, NEW d \in BOOLEAN, UpdateAction(u, a, d) PROVE CopyInv'
  BY <1>16 DEF UpdateAction
<1>17. ASSUME NEW u \in People, NEW e \in Evidence, NEW s \in {"pending", "clean"}, AddEvidence(u, e, s) PROVE CopyInv'
  BY <1>17 DEF AddEvidence
<1>18. ASSUME NEW u \in People, NEW e \in Evidence, RemoveEvidence(u, e) PROVE CopyInv'
  BY <1>18 DEF RemoveEvidence
<1>19. ASSUME NEW e \in Evidence, NEW v \in {"clean", "infected", "error"}, ScanEvidence(e, v) PROVE CopyInv'
  BY <1>19 DEF ScanEvidence
<1>20. CASE UNCHANGED vars
  BY <1>20
<1> QED
  BY <1>1, <1>2, <1>3, <1>4, <1>5, <1>6, <1>7, <1>8, <1>9, <1>10, <1>11, <1>12, <1>13, <1>14, <1>15, <1>16, <1>17, <1>18, <1>19, <1>20 DEF Next, CaseMove, ChildWrite

\* Every reachable state keeps the copies level with the case or behind it.
THEOREM CopyInvariant == Spec => []CopyInv
<1>1. Init => CopyInv
  BY DEF Init, CopyInv, CurrentCopyHasTheAssessment, IfMatch
<1> QED
  BY <1>1, CopyInvStep, TypeCorrect, PTL DEF Spec

\* A save under the case's If-Match replaces only an assessment its author has
\* read (logic.check_version, assessment.save_assessment).
THEOREM NoLostAssessment == Spec => []CurrentCopyHasTheAssessment
  BY CopyInvariant, PTL DEF CopyInv

\* Whoever approves has read the case since the standing request was made
\* (signoff.approve_signoff under logic.check_version).
THEOREM ApprovalIsOfTheRequestRead == Spec => ApprovedAsRead
<1> DEFINE Read == \A u \in People : signedOffBy' # signedOffBy /\ signedOffBy' = u
                                       => copy[u].case >= askedAt
<1>1. TypeOK /\ CopyInv /\ [Next]_vars => [Read]_vars
  <2> SUFFICES ASSUME TypeOK, CopyInv, Next, signedOffBy' # signedOffBy PROVE Read
    BY DEF Read
  <2>1. PICK u \in People : ApproveSignoff(u)
    BY ZenonT(60) DEF Next, CaseMove, ChildWrite, ReadCase, ReadAction, TriageChange, DismissChange,
       RestoreChange, CloseWithoutAction, StartAssessment, SaveAssessment, SaveNotApplicable,
       RequestSignoff, SendBackSignoff, WriteSoWhat, AddAction, UpdateAction, DeleteAction,
       AddEvidence, RemoveEvidence, ScanEvidence
  <2> QED
    BY <2>1 DEF ApproveSignoff, IfMatch, CopyInv, TypeOK
<1> QED
  BY <1>1, CopyInvariant, TypeCorrect, PTL DEF Spec, ApprovedAsRead

-----------------------------------------------------------------------------
\* What a signed-off case still lets a step do to the evidence.
EvidenceAsSigned ==
  \A e \in Evidence :
    /\ evidence'[e].live = evidence[e].live
    /\ evidence[e].scan # "pending" => evidence'[e] = evidence[e]

\* A signed-off case stays as it was signed: its one drawn way out is the way
\* back of a close that one person gave (state.close_is_restorable), and every
\* write of a child looks at the case's category under its lock.
THEOREM SignedOffForGood == Spec => SignedOffIsFinal
<1> DEFINE Final == SignedOff => /\ UNCHANGED <<status, owner, requester, signedOffBy, closeReason,
                                                lastMove, assessment, actions>>
                                /\ EvidenceAsSigned
<1>1. TypeOK /\ SignoffInv /\ [Next]_vars => [Final]_vars
  <2> SUFFICES ASSUME TypeOK, SignoffInv, Next, SignedOff PROVE Final
    OBVIOUS
  <2>1. status = "closed" /\ closeReason = "signed_off"
    BY DEF SignoffInv, FourEyesHeld
  <2>2. \A u \in People : ~CaseMove(u) \/ WriteSoWhat(u)
    BY <2>1 DEF CaseMove, TriageChange, DismissChange, RestoreChange, CloseWithoutAction,
       StartAssessment, SaveAssessment, SaveNotApplicable, RequestSignoff, ApproveSignoff,
       SendBackSignoff, Transition, Edges, GuardsHold, RestorableClose, CaseFacts, OnePersonClose
  <2>3. \A u \in People : ~ChildWrite(u)
    BY <2>1 DEF ChildWrite, AddAction, DeleteAction, UpdateAction, LockedAction, AddEvidence,
       RemoveEvidence, EvidenceMayChange
  <2>4. ASSUME NEW u \in People, ReadCase(u) \/ (\E a \in Actions : ReadAction(u, a)) \/ WriteSoWhat(u)
        PROVE Final
    BY <2>4 DEF ReadCase, ReadAction, WriteSoWhat, EvidenceAsSigned
  <2>5. ASSUME NEW e \in Evidence, NEW v \in {"clean", "infected", "error"}, ScanEvidence(e, v)
        PROVE Final
    BY <2>5 DEF ScanEvidence, EvidenceAsSigned, TypeOK
  <2> QED
    BY <2>2, <2>3, <2>4, <2>5 DEF Next
<1> QED
  BY <1>1, SignoffInvariant, TypeCorrect, PTL DEF Spec, SignedOffIsFinal, EvidenceAsSigned

-----------------------------------------------------------------------------
(***************************************************************************)
(* The workflow implements the four-eyes control.                          *)
(***************************************************************************)
\* A step that leaves the two names and the file alone is a stutter.
LEMMA FourEyesStutter ==
  ASSUME UNCHANGED <<requester, signedOffBy, actions, evidence>>
  PROVE UNCHANGED <<requester, signedOffBy, File>>
  BY DEF File, LiveActions, LiveEvidence, IsLive

\* A step that leaves the two names alone while nobody waits is work.
LEMMA FourEyesWork ==
  ASSUME requester = None, UNCHANGED <<requester, signedOffBy>>
  PROVE SignoffAsFourEyes!Next
<1>1. File' \in [actions : SUBSET Actions, evidence : SUBSET Evidence]
  BY DEF File, LiveActions, LiveEvidence
<1>2. SignoffAsFourEyes!Work(File')
  BY DEF SignoffAsFourEyes!Work
<1> QED
  BY <1>1, <1>2 DEF SignoffAsFourEyes!Next

\* Every step of the workflow is a step of the control, or a stutter.
LEMMA FourEyesStep ==
  TypeOK /\ SignoffInv /\ [Next]_vars
    => [SignoffAsFourEyes!Next]_<<requester, signedOffBy, File>>
<1> SUFFICES ASSUME TypeOK, SignoffInv, [Next]_vars
             PROVE [SignoffAsFourEyes!Next]_<<requester, signedOffBy, File>>
  OBVIOUS
<1> USE DEF SignoffInv, RequestStands, Awaited
<1>1. ASSUME NEW u \in People, ReadCase(u)
      PROVE UNCHANGED <<requester, signedOffBy, File>>
  BY <1>1, FourEyesStutter DEF ReadCase
<1>2. ASSUME NEW u \in People, NEW a \in Actions, ReadAction(u, a)
      PROVE UNCHANGED <<requester, signedOffBy, File>>
  BY <1>2, FourEyesStutter DEF ReadAction
<1>3. ASSUME NEW u \in People, NEW o \in People, TriageChange(u, o)
      PROVE UNCHANGED <<requester, signedOffBy, File>>
  BY <1>3, FourEyesStutter DEF TriageChange
<1>4. ASSUME NEW u \in People, DismissChange(u)
      PROVE UNCHANGED <<requester, signedOffBy, File>>
  BY <1>4, FourEyesStutter DEF DismissChange
<1>5. ASSUME NEW u \in People, RestoreChange(u)
      PROVE UNCHANGED <<requester, signedOffBy, File>>
  BY <1>5, FourEyesStutter DEF RestoreChange
<1>6. ASSUME NEW u \in People, NEW r \in OnePersonClose, CloseWithoutAction(u, r)
      PROVE UNCHANGED <<requester, signedOffBy, File>>
  BY <1>6, FourEyesStutter DEF CloseWithoutAction
<1>7. ASSUME NEW u \in People, StartAssessment(u)
      PROVE UNCHANGED <<requester, signedOffBy, File>>
  BY <1>7, FourEyesStutter DEF StartAssessment
<1>8. ASSUME NEW u \in People, SaveAssessment(u)
      PROVE UNCHANGED <<requester, signedOffBy, File>>
  BY <1>8, FourEyesStutter DEF SaveAssessment
<1>9. ASSUME NEW u \in People, SaveNotApplicable(u)
      PROVE UNCHANGED <<requester, signedOffBy, File>>
  BY <1>9, FourEyesStutter DEF SaveNotApplicable
<1>10. ASSUME NEW u \in People, WriteSoWhat(u)
      PROVE UNCHANGED <<requester, signedOffBy, File>>
  BY <1>10, FourEyesStutter DEF WriteSoWhat
<1>11. ASSUME NEW u \in People, NEW a \in Actions, AddAction(u, a)
      PROVE SignoffAsFourEyes!Next
  BY <1>11, FourEyesWork DEF AddAction, FourEyesHeld, SignedOff
<1>12. ASSUME NEW u \in People, NEW a \in Actions, DeleteAction(u, a)
      PROVE SignoffAsFourEyes!Next
  BY <1>12, FourEyesWork DEF DeleteAction, LockedAction, FourEyesHeld, SignedOff
<1>13. ASSUME NEW u \in People, NEW a \in Actions, NEW d \in BOOLEAN, UpdateAction(u, a, d)
      PROVE SignoffAsFourEyes!Next
  BY <1>13, FourEyesWork DEF UpdateAction, LockedAction, FourEyesHeld, SignedOff
<1>14. ASSUME NEW u \in People, NEW e \in Evidence, NEW s \in {"pending", "clean"}, AddEvidence(u, e, s)
      PROVE SignoffAsFourEyes!Next
  BY <1>14, FourEyesWork DEF AddEvidence, EvidenceMayChange, FourEyesHeld, SignedOff
<1>15. ASSUME NEW u \in People, NEW e \in Evidence, RemoveEvidence(u, e)
      PROVE SignoffAsFourEyes!Next
  BY <1>15, FourEyesWork DEF RemoveEvidence, EvidenceMayChange, FourEyesHeld, SignedOff
<1>16. ASSUME NEW e \in Evidence, NEW v \in {"clean", "infected", "error"}, ScanEvidence(e, v)
      PROVE UNCHANGED <<requester, signedOffBy, File>>
  BY <1>16 DEF ScanEvidence, File, LiveActions, LiveEvidence, IsLive, TypeOK
<1>17. ASSUME NEW u \in People, RequestSignoff(u)
      PROVE SignoffAsFourEyes!Ask(u)
  BY <1>17 DEF RequestSignoff, Transition, Edges, SignoffAsFourEyes!Ask, File, LiveActions,
     LiveEvidence, IsLive, FourEyesHeld, SignedOff
<1>18. ASSUME NEW u \in People, ApproveSignoff(u)
      PROVE SignoffAsFourEyes!Decide(u)
  BY <1>18 DEF ApproveSignoff, Transition, GuardsHold, SecondPerson, CaseFacts,
     SignoffAsFourEyes!Decide, SignoffAsFourEyes!Undecided, File, LiveActions, LiveEvidence,
     IsLive, FourEyesHeld, SignedOff
<1>19. ASSUME NEW u \in People, SendBackSignoff(u)
      PROVE SignoffAsFourEyes!TakeBack
  BY <1>19 DEF SendBackSignoff, SignoffAsFourEyes!TakeBack, SignoffAsFourEyes!Undecided,
     File, LiveActions, LiveEvidence, IsLive, FourEyesHeld, SignedOff
<1>20. CASE UNCHANGED vars
  BY <1>20, FourEyesStutter
<1> QED
  BY <1>1, <1>2, <1>3, <1>4, <1>5, <1>6, <1>7, <1>8, <1>9, <1>10, <1>11, <1>12, <1>13, <1>14, <1>15, <1>16, <1>17, <1>18, <1>19, <1>20
     DEF Next, CaseMove, ChildWrite, SignoffAsFourEyes!Next

\* The case's sign-off implements the four-eyes control (signoff.py, state.py).
THEOREM SignoffRefinesFourEyes == Spec => ImplementsFourEyes
<1>1. Init => SignoffAsFourEyes!Init
  BY DEF Init, SignoffAsFourEyes!Init, SignoffAsFourEyes!Undecided, File, LiveActions,
     LiveEvidence
<1> QED
  BY <1>1, FourEyesStep, TypeCorrect, SignoffInvariant, PTL
  DEF Spec, ImplementsFourEyes, SignoffAsFourEyes!Spec, SignoffAsFourEyes!eyes
=============================================================================
