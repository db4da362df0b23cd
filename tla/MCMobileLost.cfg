CONSTANTS
    None = None
    Ids = {"t1"}
    FirstPage = {"t1"}
    Creations = {"c1"}
    Edits = {"e1"}
    Target <- MCTarget
    Operations = {"o1", "o2"}
    MaxRetries = 2
    MaxVersion = 1
    MaxCrashes = 0
SPECIFICATION Spec
CHECK_DEADLOCK FALSE
INVARIANT LocalChangesKept
