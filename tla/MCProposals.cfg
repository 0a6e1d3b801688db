CONSTANTS
  ada = ada
  ben = ben
  k1 = k1
  k2 = k2
  agent = agent
  v1 = v1
  v2 = v2
  b1 = b1
  o1 = o1
  o2 = o2
  t1 = t1
  Users = {ada, ben}
  Keys = {k1, k2}
  AgentOf <- MCAgentOf
  Obligations = {o1, o2}
  Terms = {t1}
  Singles = {v1, v2}
  Batches = {b1}
  TargetOf <- MCTargetOf
  VersionScopes <- MCVersionScopes
  Flagged = {v2}
  MaxInFlight = 2
  None = None
SYMMETRY Alike
SPECIFICATION Spec
\* The proposals are few and each is decided once.
CHECK_DEADLOCK FALSE
INVARIANTS VersionsFollowApprovals BatchClosesWithItsRows
PROPERTIES DecidedOnceByAnother AppliedAsPreviewed
