SPECIFICATION Spec
CONSTANTS
    s1 = s1
    s2 = s2
    s3 = s3
    Key = {s1, s2, s3}
    LaneOf <- AllImages
    Provider = {}
    NoProvider = "none"
    MaxTasks = 4
    Batch = {"a", "b"}
    SpecsOf <- Meeting
    NoUnit = "no unit"
    Waits = {"a"}
    Stops = {"b"}
    Refusals = {"a", "b"}
    Leaves = {"a"}
    Misreads = {"a"}
    Cancels = {"b"}
    MayGoOffline = TRUE
    MaxRequeues = 1
    MaxCrashes = 1
CONSTRAINT TwoTroubles
INVARIANTS
    RowsAreSound
    CreatedRunsInOrder
    CancelIsThorough
    AnswersAreTrue
CHECK_DEADLOCK FALSE
