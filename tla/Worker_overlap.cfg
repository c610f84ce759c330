SPECIFICATION WorkerSpec
CONSTANTS
    MaxTasks = 1
    Key <- ImageAndVideo
    LaneOf <- KeyLane
    Provider = {"a"}
    NoProvider = "none"
    Proc = {"p1", "p2"}
    Resumable = {"a"}
    Builtin <- One
    Tables <- OneOnly
    MaxCo = 3
    MaxRestarts = 1
    MaxFlaps = 1
    MaxRetries = 0
    MaxSwitches = 0
INVARIANTS
    AtMostOneSubmission
    OneWorkerPerTask
    QueuedIsFree
