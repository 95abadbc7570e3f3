SPECIFICATION Spec
CONSTANTS
  NumNamespaces = 2
  NamespaceOf <- TwoMounts
  MountOf <- SplitSecrets
  PlanVersion <- MixedVersions
  Worker = {w1, w2}
  Budgets <- AllBudgets
  Skips <- AllSkips
SYMMETRY Workers
INVARIANTS
  TypeOK
  FailuresAreExact
  BudgetIsKept
  EveryItemIsAnswered
  NothingIsMisplaced
PROPERTIES
  ImplementsPromise
  NothingAfterReturn
  RunIsBounded
CHECK_DEADLOCK FALSE
