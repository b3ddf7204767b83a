SPECIFICATION Spec
CONSTANTS
  N = 4
  Power <- HeavyThird
  SlashingEnabled = TRUE
  DoubleSignPercent = 5
  JailDuration = 10
  InitialStake <- UnitStake
  VoteHistory = 100
  U64Max = 100000
  Payloads = {p1}
  Unappliable = {}
  ZERO_HASH = ZERO_HASH
  None = None
  Links <- Pair
  Timers = {1, 2}
  MaxHeight = 1
  MaxRound = 1
CHECK_DEADLOCK FALSE
INVARIANTS TypeOK JailedOnlyForDoubleSign
PROPERTY JailedOutIsPermanent
