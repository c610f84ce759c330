SPECIFICATION FairMessages
CONSTANTS
    Keys = {k1, k2}
    MaxMessages = 2
    MaxRequests = 4
    Requests = {"send", "edit", "delete", "send_now", "resend"}
    MaxExits = 1
    MaxRefusals = 1
    MaxFailedWrites = 1
    MaxTroubles = 1
CONSTRAINT FewTroubles
INVARIANTS
    TrayIsTrue
    TakenOnce
PROPERTIES
    NobodyIsStuck
CHECK_DEADLOCK FALSE
