SPECIFICATION FairSpec
CONSTANTS
  k1 = k1  c1 = c1  c2 = c2
  Keys = {k1}
  NoKey = NoKey
  NoEvent = NoEvent
  Callers = {c1}
  Flusher = Flusher
  Cooldown = 2
  Max = 0
  Per = 1
  Interval = 1
  MaxTime = 6
  MaxPitches = 3
PROPERTY FirstAfterCooldownCarriesCount
CHECK_DEADLOCK FALSE
