SPECIFICATION Spec
CONSTANTS
  k1 = k1  k2 = k2
  Keys = {k1}
  Conds <- MCConds
  NoCond = NoCond
  Versions <- SettlingVersions
  Gone = Gone
  NoState = NoState
  Unknown = Unknown
  NoPitch = NoPitch
  IgnoreStatuses = {}
  IgnoreReasons = {"Progressing"}
  MinDurations = {1}
  WatchGenerations = FALSE
  MaxTime = 4
  MaxEvents = 3
INVARIANT StillFailing
CHECK_DEADLOCK FALSE
