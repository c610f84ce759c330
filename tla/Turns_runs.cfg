SPECIFICATION FairTurns
CONSTANTS
    Senders = {s1, s2}
    Repeats = {s2}
    Outcomes = {"completed"}
    MaxConns = 2
    MaxOwnTurns = 1
    MaxCrashes = 1
    MaxFailures = 1
    Failing = {"send", "inbox", "evict", "write", "request"}
    MaxTroubles = 1
CONSTRAINT FewTroubles
INVARIANTS
    WorkIsRunning
    StatusIsTrue
PROPERTIES
    EveryRunEnds
CHECK_DEADLOCK FALSE
