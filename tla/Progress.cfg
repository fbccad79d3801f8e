SPECIFICATION ProgressSpec
CONSTANTS
    Finishers = {f1, f2}
    Totals = {0, 3, 11}
    Steps = {1, 4}
    MaxCount = 12
INVARIANTS
    FinishClosesTheDisplay
    LogAdvances
PROPERTIES
    PaintsInOrder
    FinishReturns
CHECK_DEADLOCK FALSE
