SPECIFICATION Spec
CONSTANTS
  k1 = k1  k2 = k2
  Keys = {k1}
  Conds <- MCConds
  NoCond = NoCond
  Versions <- FewVersions
  Gone = Gone
  NoState = NoState
  Unknown = Unknown
  NoPitch = NoPitch
  IgnoreStatuses = {}
  IgnoreReasons = {"Progressing"}
  MinDurations = {1}
  WatchGenerations = FALSE
  MaxTime = 4
  MaxEvents = 5
INVARIANT CloseStopsTimers
CHECK_DEADLOCK FALSE
