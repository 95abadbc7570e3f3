SPECIFICATION Spec
CONSTANTS
  Torn = Torn
  Absent = Absent
  Rewritable = {1, 2}
  NumActions = 2
  Category <- ShortPlan
  IncludeUnknown = TRUE
  Worker = {w1, w2}
  MaxFailures = 1
  MaxAttempts = 1
  DryRuns = {FALSE}
PROPERTIES
  NoDuplicateDeletions
