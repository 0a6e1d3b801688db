SPECIFICATION MCSpec
CONSTANTS
  People <- MCPeople
  MaxDrafts = 3
  MaxVersion = 5
  Callers = {c1, c2}
  ApiRuns = {1, 2}
  RetryKeys = {i1, i2}
  StableKeys = {k1, k2, k3}
  MaxChanges = 2
  Beats = {b1, b2}
  Askers = {ann}
  BankAgents = {a1, a2}
  MaxRuns = 1
  Limit = 2
  Caps = {2, 4}
  Costs = {1, 3}
  Free = Free
  PlatformAgents = {1, 2, 3}
  PBeats = {p1, p2}
  PerBeat = 2
  MaxPeriods = 3
SYMMETRY Alike
\* Drafts, versions, runs and periods are bounded.
CHECK_DEADLOCK FALSE
INVARIANTS
  UntouchedCopyIsCurrent
  RetriesFindTheirRun
  PromisesFitTheCap
  OneRunPerPeriod
PROPERTIES
  AgentsLeaveTheBanksWords
  RunsAreLedgers
  OverspendIsCaught
  OneRunPerSlot
