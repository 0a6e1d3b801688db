SPECIFICATION MCSpec
CONSTANTS
  one = one
  two = two
  Officers <- MCPair
  Obligations = {1, 2}
  Entities = {"e1"}
  Whole = Whole
  Recurring = {1}
  Asked <- MCAsked
  LastDay = 2
  LastDue = 2
  MaxAnswers = 2
  Postmen <- MCPair
  LastDate = 2
  Leads = {0, 1}
  EscalateAfter = 1
  MaxMishaps = 2
SYMMETRY Alike
\* Answers, days and edits are bounded.
CHECK_DEADLOCK FALSE
INVARIANTS
  OneOpenOccurrence
  ToldOnce
