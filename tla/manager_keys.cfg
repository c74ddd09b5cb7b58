SPECIFICATION ManagerSpec
CONSTANTS
  NoCond = NoCond
  NoSubject = NoSubject
  Gone = Gone
  NoPitch = NoPitch
  NoKey = NoKey
  k1 = k1
  Keys = {k1}
  NamespaceOf <- NamespaceOfDef
  PodNamespace = ""
  AccountNamespace = "own"
  Claims1 <- Claims1Def
  Claims2 <- Claims2Def
  K8sEvents = {}
  Specs <- SpecsDef
  MaxEvents = 5
INVARIANT KeyIsProblem
CHECK_DEADLOCK FALSE
