SPECIFICATION Spec
CONSTANTS
    Tabs = {table, console}
    Tables = {table}
    Edits = {e1}
    HistoryLimit = 1
    MaxRuns = 3
    MaxSubmits = 1
    MaxShapes = 1
CONSTRAINT OneAtATime
INVARIANT LoadingMeansBusy
PROPERTIES
    RowsStayUnderEdits
    
CHECK_DEADLOCK FALSE
