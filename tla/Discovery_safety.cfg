SPECIFICATION FairSpec
CONSTANTS
  Namespace = {"", "team", "nested"}
  Root = ""
  Parent <- Below
  NamespaceOf <- Homes
  Type <- Types
  Option <- Options
  Trimmed <- Trim
  Stored <- Secrets
  Volatile <- Changing
  Worker = {w1, w2}
INVARIANTS
  TypeOK
  InventoryIsTrue
  DiscoveryIsComplete
  EveryJobIsAnswered
  CountersAgree
  OfferFindsRoom
PROPERTIES
  ImplementsPromise
  RunIsBounded
  Terminates
CHECK_DEADLOCK FALSE
