SPECIFICATION Spec
CONSTANTS
    NPhases = 2
    SetupPhase = 2
    MaxSamples = 2
INVARIANTS
    CheckpointNeverFaults
CHECK_DEADLOCK FALSE
