SPECIFICATION FairSpec
CONSTANTS
    None = None
    Filters = {"", "MATCHED", "FAILED"}
    Limit = 1
    MaxFlight = 2
    MaxInserts = 1
    MaxVisits = 2
    MaxClicks = 2
    MaxFaults = 1
INVARIANTS
    LoadingMeansWaiting
    ReportsNearlyAdd
    ChartFollowsStats
PROPERTIES
    ConsoleSettles
