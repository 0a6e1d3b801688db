SPECIFICATION Spec
CONSTANTS
  ann = ann
  bo = bo
  a1 = a1
  e1 = e1
  None = None
  People = {ann, bo}
  Triagers = {ann, bo}
  Workers = {ann, bo}
  Contributors = {ann, bo}
  Signers = {ann, bo}
  Actions = {a1}
  Evidence = {e1}
  ActionsMax = 1
  EvidenceMax = 1
  MaxVersion = 9
  MaxActionVersion = 2
SYMMETRY Symmetry
\* The versions are bounded, so a case can run out of moves; a signed-off case
\* has none at all.
CHECK_DEADLOCK FALSE
INVARIANTS
  CurrentCopyHasTheAssessment
  SignoffCoversTheRequest
  PlannedWorkNeedsTwoPeople
PROPERTIES
  SignedOffIsFinal
  ImplementsFourEyes
  ApprovedAsRead
