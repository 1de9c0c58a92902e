SPECIFICATION Spec
CONSTANTS
    Tabs = {a, b}
    Tables = {a, b}
    Edits = {e1}
    HistoryLimit = 1
    MaxRuns = 2
    MaxSubmits = 1
    MaxShapes = 0
PROPERTY RemainingPreserved
CHECK_DEADLOCK FALSE
