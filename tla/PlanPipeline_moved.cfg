SPECIFICATION Spec
CONSTANTS
  Accessor = {"kv_1", "kv_2"}
  Version <- TwoVersions
  Home <- SamePath
  Moves <- AcrossNamespaces
  Holds <- SameSecret
  Operation <- AccessAndList
  Sources = {"audit"}
  AccessorKnown = TRUE
  Strategies = {"accessor"}
  DefaultPeriod = 1
  NamespacePolicy <- NoPolicy
  PatternPolicy = {}
  Exclusion <- Exclusions
  MaxTime = 2
  MaxLog = 2
  MaxPlans = 1
INVARIANTS
  StaleIsUnused
CHECK_DEADLOCK FALSE
