SPECIFICATION Spec
CONSTANTS
  Torn = Torn
  Absent = Absent
  Rewritable = {}
  NumActions = 3
  Category <- ThreeStale
  IncludeUnknown = TRUE
  Worker = {w1, w2}
  MaxFailures = 10
  MaxAttempts = 3
  DryRuns = {FALSE}
INVARIANTS
  TimeoutIsNotFatal
