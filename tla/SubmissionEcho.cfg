SPECIFICATION Spec
CONSTANTS
    v1 = v1
    v2 = v2
    Voters = {v1, v2}
    Width <- MCWidth
    Periods = 3
    Modulus = 5
INVARIANTS
    BlocksAreOneHot
PROPERTIES
    RefinesReference
    EachSubmissionIsApplied
CHECK_DEADLOCK FALSE
