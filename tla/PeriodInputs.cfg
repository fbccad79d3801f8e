SPECIFICATION InputsSpec
CONSTANTS
    Sizes <- MCSizes
INVARIANTS
    BlocksAreApart
    AccumulatesThePeriod
CHECK_DEADLOCK FALSE
