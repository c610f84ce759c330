SPECIFICATION Spec
CONSTANTS
    Old = {a}
    Connects = {c1, c2, c3}
    News = {n1, n2}
    Same = {n1, n2}
    Room = 1
    MaxPatrols = 1
    MaxExits = 1
    MaxFailures = 1
    MaxCrashes = 1
    MaxBegun = 3
    MaxTroubles = 1
SYMMETRY Alike
CONSTRAINTS FewRequests FewTroubles
INVARIANTS
    ProcessesAreKnown
    RecordsAreTrue
PROPERTIES
    SparesRunning
