SPECIFICATION Spec
CHECK_DEADLOCK FALSE
CONSTANTS
    a = a
    b = b
    w1 = w1
    w2 = w2
    n1 = n1
    n2 = n2
    Tabs = {a, b}
    Workspaces = {w1, w2}
    Names = {n1, n2}
    Spaces = {w1, w2}
    FirstSpace = w1
    Casts <- Scenes
    Home <- HomeOf
    MaxCalls = 2
    MaxEntries = 3
    PageSize = 1
    Outcomes = {"approved", "timed_out"}
    MaxItems = 3
    TableSize = 2
INVARIANTS FeedsInvariant OneVerdict TablesInvariant FormsInvariant
PROPERTIES RevokedStaysRevoked ConsoleSettles
