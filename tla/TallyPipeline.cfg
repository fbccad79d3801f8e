SPECIFICATION Spec
CONSTANTS
    Sizes <- MCSizes
    Periods = 3
    TotalsOf <- MCTotalsOf
    Powers <- MCPowers
    Modulus = 37
INVARIANTS
    PhasesMatchPlaintext
    TallyIsExact
    EveryRotationHasAKey
CHECK_DEADLOCK FALSE
