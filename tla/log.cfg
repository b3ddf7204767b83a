SPECIFICATION Spec
CONSTANTS
  N = 4
  Power <- HeavyFirst
  SlashingEnabled = FALSE
  DoubleSignPercent = 5
  JailDuration = 10
  InitialStake <- UnitStake
  VoteHistory = 100
  U64Max = 100000
  Payloads = {p1}
  Unappliable = {}
  ZERO_HASH = ZERO_HASH
  None = None
  Links <- Line
  Timers = {0, 2}
  MaxHeight = 2
  MaxRound = 1
CHECK_DEADLOCK FALSE
INVARIANT Agreement
INVARIANT CommitHasQuorum
INVARIANT LaterQuorumExcludesEarlier
PROPERTY ImplementsLog
PROPERTY LostRoundStaysLost
