SPECIFICATION Spec
CONSTANTS
    Gens = {g1, g2}
    Restores = {r1}
    Uploads = {u1}
    Bases = {b1, b2}
    Old = old
    Partial = partial
    None = none
    Free = free
    MaxEdits = 1
    MaxFaults = 2
    MaxCrashes = 1
    MaxTroubles = 2
SYMMETRY Symmetry
CONSTRAINT FewTroubles
INVARIANTS
    SelectionAgrees
PROPERTIES
    SelectsOnlyCurrent
    PaidResultStays
