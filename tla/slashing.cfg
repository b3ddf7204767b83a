SPECIFICATION SmSpec
CONSTANTS
  N = 2
  Power <- UnitPower
  SlashingEnabled = TRUE
  DoubleSignPercent = 50
  JailDuration = 1
  InitialStake <- SmallStake
  VoteHistory = 1
  U64Max = 200
  Hashes = {A, B}
  MaxHeight = 4
  MaxSlashes = 4
INVARIANTS StakeAccounting EvidenceUsedOnce HistoryWindow
PROPERTY JailTermKept
CHECK_DEADLOCK FALSE
