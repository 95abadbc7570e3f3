SPECIFICATION Spec
CONSTANTS
  Accessor = {"kv_1", "kv_2"}
  Version <- TwoVersions
  Home <- SamePath
  Moves <- Fixed
  Holds <- SameSecret
  Operation <- AccessAndList
  Sources = {"external"}
  AccessorKnown = FALSE
  Strategies = {"path-based"}
  DefaultPeriod = 1
  NamespacePolicy <- NoPolicy
  PatternPolicy = {}
  Exclusion <- Exclusions
  MaxTime = 2
  MaxLog = 2
  MaxPlans = 1
INVARIANTS
  UnknownIsUnseen
CHECK_DEADLOCK FALSE
