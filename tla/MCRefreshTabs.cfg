SPECIFICATION RefreshSpec
CONSTANTS
  Tabs <- MCTabs
  MaxSecrets = 3
\* The rotations are bounded.
CHECK_DEADLOCK FALSE
INVARIANTS TabsAreSafe
