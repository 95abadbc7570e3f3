SPECIFICATION Spec
CONSTANTS
  Accessor = {"kv_1", "kv_2", "kv_3"}
  Version <- ThreeVersions
  Home <- ThreeHomes
  Moves <- Succession
  Holds <- SameSecretInThree
  Operation <- MostlyUpdates
  Sources = {"audit", "external"}
  AccessorKnown = TRUE
  Strategies = {"accessor", "path-based"}
  DefaultPeriod = 1
  NamespacePolicy <- Exact
  PatternPolicy <- Patterns
  Exclusion <- Exclusions
  MaxTime = 2
  MaxLog = 2
  MaxPlans = 1
INVARIANTS
  TypeOK
  RecordsAreLatest
  StaleIsUnused
  UnknownIsUnseen
  StaleIsSeen
  DestroyedAsPlanned
CHECK_DEADLOCK FALSE
