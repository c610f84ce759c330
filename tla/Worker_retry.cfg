SPECIFICATION WorkerSpec
CONSTANTS
    MaxTasks = 1
    Key <- OneVideo
    LaneOf <- KeyLane
    Provider = {"a", "b"}
    NoProvider = "none"
    Proc = {"p1"}
    Resumable = {"a"}
    Builtin <- One
    Tables <- VideoOrNot
    MaxCo = 2
    MaxRestarts = 2
    MaxFlaps = 1
    MaxRetries = 1
    MaxSwitches = 1
INVARIANTS
    LedgerIsSettled
    JobIsResumable
PROPERTIES
    SuccessIsKept
    PromiseKept
