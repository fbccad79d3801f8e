SPECIFICATION MCSpec
CONSTANTS
    slot = slot
    pad = pad
    Slots <- MCSlots
    Logical <- MCLogical
    Modulus = 3
    PeriodCounts <- ManyPeriods
    Intervals = {1, 2, 3, 4}
    Payloads <- AllResidues
    Masks <- AllResidues
INVARIANTS
    SegmentsConnectPrefixes
    CostsAsAnalysed
PROPERTIES
    RefinesEquation
    EachInputIsApplied
    EchoCompletes
CHECK_DEADLOCK FALSE
