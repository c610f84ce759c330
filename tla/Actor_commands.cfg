SPECIFICATION FairSpec
CONSTANTS
    Commands = {q1, q2, w, d}
    Disconnects = {d}
    Withdrawals = {w}
    MaxFrames = 2
INVARIANTS
    NobodyIsForgotten
    StreamsAreKept
PROPERTIES
    AnsweredOnce
CHECK_DEADLOCK FALSE
