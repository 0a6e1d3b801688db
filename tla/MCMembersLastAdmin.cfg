SPECIFICATION Spec
CONSTANTS
  ann = ann
  bo = bo
  cy = cy
  r1 = r1
  r2 = r2
  People <- MCPeople
  Items <- MCItems
  Requests <- MCRequests
  RoleEdits = FALSE
  MaxCommits = 2
SYMMETRY Symmetry
\* The commits are bounded.
CHECK_DEADLOCK FALSE
INVARIANTS KeepsOneAdmin
