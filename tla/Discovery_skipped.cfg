SPECIFICATION Spec
CONSTANTS
  Namespace = {"", "team", "nested"}
  Root = ""
  Parent <- Below
  NamespaceOf <- Homes
  Type <- Types
  Option <- Options
  Trimmed <- Trim
  Stored <- Secrets
  Volatile <- Changing
  Worker = {w1, w2}
INVARIANTS
  NamespacesAreCovered
CHECK_DEADLOCK FALSE
