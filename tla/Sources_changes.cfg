SPECIFICATION Spec
CONSTANTS
    f1 = f1
    f2 = f2
    f3 = f3
    NoSpan = NoSpan
    NoDialog = NoDialog
    File = {f1, f2, f3}
    Starts <- Projects
    Commands = {"edit", "delete", "insert", "move", "accept"}
    Outside = {f2}
    MaxChanges = 3
CONSTRAINTS GoOn AskedInPeace FewProducts
INVARIANTS
    EpisodesAgree
    TextChangesNoHands
PROPERTIES
    NothingGoesUnseen
CHECK_DEADLOCK FALSE
