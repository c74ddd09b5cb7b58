SPECIFICATION Spec
CONSTANTS
  k1 = k1  k2 = k2
  Keys = {k1}
  Conds <- MCConds
  NoCond = NoCond
  Versions <- ReadyVersions
  Gone = Gone
  NoState = NoState
  Unknown = Unknown
  NoPitch = NoPitch
  IgnoreStatuses = {}
  IgnoreReasons = {"Progressing"}
  MinDurations = {0, 2}
  WatchGenerations = FALSE
  MaxTime = 6
  MaxEvents = 6
INVARIANTS TypeOK ToldIsReported
PROPERTIES RecoveryAfterFailure FlipsDiffer ImplementsLastingFailures
CHECK_DEADLOCK FALSE
