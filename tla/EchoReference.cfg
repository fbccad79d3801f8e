SPECIFICATION LSpec
CONSTANTS
    Voters <- MCVoters
    Width <- MCWidth
    Periods = 3
    WordBits = 4
    Samples = {0, 2}
INVARIANTS
    AtMostOneMajority
    TotalsCountLatestAccepted
    DrawsAreFair
    TotalsAreTheDrawnCounts
    EverySenderHasAMajority
CHECK_DEADLOCK FALSE
