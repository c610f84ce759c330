SPECIFICATION FairRetirement
CONSTANTS
    Tasks = {t1, t2}
    Ops = {"delete", "import", "create"}
    MaxDirs = 2
    MaxFaults = 1
    MaxDrifts = 1
    MaxStops = 1
    MaxTroubles = 1
CONSTRAINTS FewTroubles OneRequest
INVARIANTS
    ClaimsFollowRecords
    NameIsFree
PROPERTIES
    RetirementDecides
    EveryTaskEnds
CHECK_DEADLOCK FALSE
