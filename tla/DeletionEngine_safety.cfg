SPECIFICATION Spec
CONSTANTS
  Torn = Torn
  Absent = Absent
  Rewritable = {1, 4}
  NumActions = 4
  Category <- MixedPlan
  IncludeUnknown = TRUE
  Worker = {w1, w2}
  MaxFailures = 2
  MaxAttempts = 2
  DryRuns = {TRUE, FALSE}
SYMMETRY WorkerSymmetry
INVARIANTS
  TypeOK
  HandoffNeverStalls
  RecordedIsTrue
  OnlyEligibleDestroyed
  CrashWindow
  PlanFileIntact
  ReportIsComplete
PROPERTIES
  DeletedStaysDeleted
  DryRunTouchesNothing
  RunIsBounded
  ImplementsResumable
