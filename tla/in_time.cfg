SPECIFICATION FairSpec
CONSTANTS
  N = 4
  Power <- HeavyFirst
  SlashingEnabled = FALSE
  DoubleSignPercent = 5
  JailDuration = 10
  InitialStake <- UnitStake
  VoteHistory = 100
  U64Max = 100000
  Payloads = {p1}
  Unappliable = {}
  ZERO_HASH = ZERO_HASH
  None = None
  Links <- Heard
  Timers = {}
  MaxHeight = 1
  MaxRound = 0
CHECK_DEADLOCK FALSE
PROPERTY InTimeCommit
