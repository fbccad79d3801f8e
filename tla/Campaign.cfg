SPECIFICATION CampaignSpec
CONSTANTS
    Rows = 2
    Warmups = 1
    Repeats = 2
    MaxCampaigns = 2
INVARIANTS
    PassedRunsAreComplete
    OneAtATime
    SummaryIsOfMeasuredRuns
PROPERTIES
    CampaignEnds
CHECK_DEADLOCK FALSE
