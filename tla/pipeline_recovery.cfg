SPECIFICATION PipelineSpec
CONSTANTS
  k1 = k1
  Keys = {k1}
  Conds <- MCConds
  NoCond = NoCond
  Versions <- FewVersions
  Gone = Gone
  NoState = NoState
  Unknown = Unknown
  NoPitch = NoPitch
  IgnoreStatuses = {}
  IgnoreReasons = {}
  MinDurations = {1}
  WatchGenerations = TRUE
  MaxTime = 3
  MaxEvents = 5
  Modes = {"file"}
  Budget = 1
  NoMessage = NoMessage
  MaxHangs = 0
  MaxLate = 0
  MaxRestarts = 0
PROPERTY RecoveryOfPitchedFailure
CHECK_DEADLOCK FALSE
