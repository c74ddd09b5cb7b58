SPECIFICATION PipelineFairSpec
CONSTANTS
  k1 = k1
  Keys = {k1}
  Conds <- MCConds
  NoCond = NoCond
  Versions <- FewVersions
  Gone = Gone
  NoState = NoState
  Unknown = Unknown
  NoPitch = NoPitch
  IgnoreStatuses = {}
  IgnoreReasons = {}
  MinDurations = {0, 1}
  WatchGenerations = TRUE
  MaxTime = 2
  MaxEvents = 4
  Modes = {"http", "file"}
  Budget = 1
  NoMessage = NoMessage
  MaxHangs = 1
  MaxLate = 1
  MaxRestarts = 1
INVARIANTS PipelineTypeOK ReaderCurrent
PROPERTY FailureTold
CHECK_DEADLOCK FALSE
