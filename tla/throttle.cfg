SPECIFICATION FairSpec
CONSTANTS
  k1 = k1  c1 = c1  c2 = c2
  Keys = {k1}
  NoKey = NoKey
  NoEvent = NoEvent
  Callers = {c1, c2}
  Flusher = Flusher
  Cooldown = 2
  Max = 1
  Per = 3
  Interval = 2
  MaxTime = 7
  MaxPitches = 4
INVARIANTS TypeOK CooldownMemory WindowMemory SuppressedAccounted SlidingBound
PROPERTIES CooldownSpacing NoFalseSilence RepeatsExact ImplementsFilter SuppressedAnnounced ForgottenEventually
CHECK_DEADLOCK FALSE
