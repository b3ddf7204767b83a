SPECIFICATION Spec
CONSTANTS
  N = 4
  Power <- HeavyFirst
  SlashingEnabled = FALSE
  DoubleSignPercent = 5
  JailDuration = 10
  InitialStake <- UnitStake
  VoteHistory = 100
  U64Max = 100000
  Payloads = {p1, p2}
  Unappliable = {p2}
  ZERO_HASH = ZERO_HASH
  None = None
  Links <- Line
  Timers = {0, 1, 2, 3}
  MaxHeight = 1
  MaxRound = 1
CHECK_DEADLOCK FALSE
INVARIANT HaltHeightIsFinal
PROPERTY StallIsPermanent
