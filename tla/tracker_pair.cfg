SPECIFICATION FairSpec
CONSTANTS
  k1 = k1  k2 = k2
  Keys = {k1}
  Conds <- MCConds
  NoCond = NoCond
  Versions <- PairVersions
  Gone = Gone
  NoState = NoState
  Unknown = Unknown
  NoPitch = NoPitch
  IgnoreStatuses = {}
  IgnoreReasons = {"Progressing"}
  MinDurations = {0, 2}
  WatchGenerations = TRUE
  MaxTime = 6
  MaxEvents = 4
INVARIANTS PendingConsistent NoLostTimer NoEarlyFailure
PROPERTY ReportsLastingFailures
CHECK_DEADLOCK FALSE
