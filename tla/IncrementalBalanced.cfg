SPECIFICATION TreeSpec
CONSTANTS
    MaxTotal = 33
    Totals <- MCTotals
    Leaf <- MCLeaf
    Combine <- MCCombine
INVARIANTS
    FrontierIsMaximalComplete
PROPERTIES
    EventuallyTheBatchResult
CHECK_DEADLOCK FALSE
