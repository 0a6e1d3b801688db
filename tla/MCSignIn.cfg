SPECIFICATION MCSpec
CONSTANTS
  ann = ann
  bo = bo
  cy = cy
  r1 = r1
  r2 = r2
  People <- MCPeople
  Items <- MCItems
  Requests <- MCRequests
  RoleEdits = TRUE
  MaxCommits = 2
  Tabs <- MCTabs
  MaxSecrets = 3
  Passkeys = {p1, p2}
  Codes = {1, 2}
  Calls <- MCRequests
  MaxAttempts = 2
  MaxInvites = 3
  Full = Full
SYMMETRY Alike
\* Commits, rotations and invitations are bounded.
CHECK_DEADLOCK FALSE
INVARIANTS
  GraceWindowHolds
  CodeIsGuessedInBounds
PROPERTIES
  HandsOverWhatItLocked
  AloneKeepsTheBank
  RevokedStaysRevoked
  LastPasskeyStays
