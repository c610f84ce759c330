SPECIFICATION FairSpec
CONSTANTS
    MaxTasks = 2
    Key <- ImageAndVideo
    LaneOf <- KeyLane
    Provider = {"a"}
    NoProvider = "none"
    Proc = {"p1"}
    Resumable = {"a"}
    Builtin <- One
    Tables <- OneOnly
    MaxCo = 3
    MaxRestarts = 1
    MaxFlaps = 0
    MaxRetries = 0
    MaxSwitches = 0
INVARIANTS
    OwnerLeavesNoOrphan
    SlotsAreKept
PROPERTIES
    EverythingMoves
