SPECIFICATION MCSpec
CONSTANTS
    Moduli <- MCModuli
    MaxPeriods = 8
    WordBits = 8
    NthRoots = {2, 4}
    Sizes <- MCSizes
INVARIANTS
    ModulusCoversThePower
    IndicatesTheNodesDone
    CofactorsGiveTheInverse
CHECK_DEADLOCK FALSE
