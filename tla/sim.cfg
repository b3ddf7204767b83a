SPECIFICATION Spec
CONSTANTS
    a1 = a1
    a2 = a2
    a3 = a3
    a4 = a4
    b1 = b1
    f = f
    ZERO_HASH = ZERO_HASH
    None = None
    Events <- MCEvents
    Prev <- MCPrev
    Author <- MCAuthor
    Timestamp <- MCTimestamp
    Rank <- MCRank
    Forged = {f}
    MaxBackwardSkew = 9
    WarmupTicks = 2
    QuarantineTicks = 2
    Scale = 1000
    MaxLinkWalk = 1
    SlashPercent = 0
    MaxPending = 2
    MaxDrain = 2
    MaxSeen = 2
    MaxSteps = 3
    MaxTick = 3
INVARIANTS
    LedgerIndependentOfOrder
    NoneWaitsForLinked
    TraceIsLedger
    ForkIffQuarantined
    PreferredTipOrderFree
    RootIdentifiesLedger
    CheckerVerdict
