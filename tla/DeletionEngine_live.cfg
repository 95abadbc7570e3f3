SPECIFICATION RerunSpec
CONSTANTS
  Torn = Torn
  Absent = Absent
  Rewritable = {}
  NumActions = 3
  Category <- ThreeStale
  IncludeUnknown = TRUE
  Worker = {w1, w2}
  MaxFailures = 1
  MaxAttempts = 1
  DryRuns = {FALSE}
INVARIANTS
  StreakBound
PROPERTIES
  Terminates
  RerunsFinish
