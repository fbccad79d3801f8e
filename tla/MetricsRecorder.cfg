SPECIFICATION Spec
CONSTANTS
    NPhases = 2
    SetupPhase = 2
    MaxSamples = 2
INVARIANTS
    FinalFilesAreComplete
    PeaksAreThePhasesOwn
    AtMostOneFileIsLost
PROPERTIES
    Terminates
CHECK_DEADLOCK FALSE
