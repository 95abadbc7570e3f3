SPECIFICATION FairSpec
CONSTANTS
  NumNamespaces = 1
  NamespaceOf <- OneMount
  MountOf <- ThreeSecrets
  PlanVersion <- Version2
  Worker = {w1, w2}
  Budgets = {0, 2}
  Skips <- SkipAll
PROPERTIES
  QueuedNeverRuns
  Terminates
CHECK_DEADLOCK FALSE
