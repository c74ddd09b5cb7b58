SPECIFICATION FairSpec
CONSTANTS
  known = known  other = other  unknown = unknown
  Specs = {known, other, unknown}
  KnownKinds = {known, other}
  Items = {i1, i2}
  Events = {e1}
  MaxAttempts = 2
  Signed = TRUE
  Profiles <- ProfilesDef
  ProfileIn <- ProfileInDef
  FileModes <- FileModesDef
  Budgets <- BudgetsDef
  MaxRestarts = 1
INVARIANTS
  TypeOK
  CompleteSnapshot
  AcceptedIsOut
  NoNeedlessDuplicate
  SourcesAfterTarget
  ExitCodes
  TickersPositive
PROPERTIES
  NoListAfterCancel
  TicksServed
  StartupEnds
CHECK_DEADLOCK FALSE
