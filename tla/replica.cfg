SPECIFICATION Spec
CONSTANTS
  e1 = e1
  e2 = e2
  e3 = e3
  bad = bad
  big = big
  a = a
  b = b
  ZERO_HASH = ZERO_HASH
  Events <- MCEvents
  Junk <- MCJunk
  Prev <- MCPrev
  Author <- MCAuthor
  Timestamp <- MCTimestamp
  Rank <- MCRank
  Size <- MCSize
  Forged = {}
  MaxBackwardSkew = 2
  MaxBytes = 4
  MaxEvents = 2
  Builds = {"serial", "parallel"}
  EarlierChains <- MCEarlierChains
  MaxHeight = 3
  MaxPool = 2
INVARIANTS LedgerOfChain CommittedOnce SerialAllOrNothing BuildsAgreeOnFlatBlocks
PROPERTIES RestartSucceeds DiskOnlyGrows DeadTxStays OversizedHeadBlocks
