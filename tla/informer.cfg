SPECIFICATION Spec
CONSTANTS
  NoCond = NoCond
  NoSubject = NoSubject
  Gone = Gone
  NoPitch = NoPitch
  NoKey = NoKey
  k1 = k1  k2 = k2
  Keys = {k1, k2}
  NamespaceOf <- NamespaceOfDef
  PodNamespace = ""
  AccountNamespace = "own"
  Claims <- ClaimsDef
  K8sEvents <- K8sEventsDef
  Specs <- SpecsDef
  MaxEvents = 5
INVARIANTS
  TypeOK
  FilterInForce
  NothingTrackedIsGone
  InventoryQuiet
  ViewIsCurrent
  SeverityDocumented
CHECK_DEADLOCK FALSE
