SPECIFICATION Spec
CONSTANTS
    Keyed = {k1, k2}
    Unkeyed = {"r"}
    Sends = {"m"}
    Deletes = {"d"}
    Origins = 1
    Anchors = {"later", "first", "unlinked"}
    MaxFailures = 1
    MaxCrashes = 1
    MaxBegun = 3
    MaxTroubles = 1
SYMMETRY Attempts
CONSTRAINTS FewRequests FewTroubles
INVARIANTS
    HiddenIsSilent
    OneConversation
    WithdrawalIsComplete
PROPERTIES
    RetryFindsItsBranch
