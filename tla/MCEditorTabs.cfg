SPECIFICATION Spec
CONSTANTS
    Conns = {a, b}
    TabIds = {t1, t2, t3}
    Kinds = {"console", "notebook"}
    InOrder = FALSE
    MaxPinned = 1
    MaxClosedTabs = 1
    MaxTabs = 3
    MaxLoads = 2
    None = None
CONSTRAINT OneAtATime
VIEW View
SYMMETRY Symmetry
INVARIANTS
    TypeOK
    PinnedFirst
    ActiveIsOpen
    RecentAreOpen
    ReopenUndoesClose
    SessionsAreOwned
PROPERTIES OthersUntouched
CHECK_DEADLOCK FALSE
